---------------------------- MODULE NetSock_proofs ----------------------------
(***************************************************************************)
(* Proofs about NetSock, for any number of sockets and connections: every  *)
(* variable keeps its type, and sockets and connections stay paired; no    *)
(* freed socket is used and no answer missed; and no byte is lost or sent  *)
(* twice.                                                                  *)
(***************************************************************************)
EXTENDS NetSockInv, TLAPS

\* The names of the variables, behind every UNCHANGED, and of the labels.
USE DEF WithSock, WithListener, slotVars, bufVars, syncVars, sockVars, taskVars, connVars, uipVars,
        loopVars, callVars, mainVars, wakeVars, ghostVars, vars

-----------------------------------------------------------------------------
\* There is a connection to begin with.
LEMMA FirstConn == 1 \in Conns
  BY ConnsAssumption DEF Conns

\* Variables that do not change keep their types.
LEMMA SameTypes ==
  /\ SockTypes /\ UNCHANGED sockVars => SockTypes'
  /\ TaskTypes /\ UNCHANGED taskVars => TaskTypes'
  /\ ConnTypes /\ UNCHANGED uipVars => ConnTypes'
  /\ MainTypes /\ UNCHANGED mainVars => MainTypes'
  /\ WakeTypes /\ UNCHANGED wakeVars => WakeTypes'
  /\ GhostTypes /\ UNCHANGED ghostVars => GhostTypes'
  BY DEF SockTypes, TaskTypes, ConnTypes, MainTypes, WakeTypes, GhostTypes

\* One call of a task keeps the types.
LEMMA TypeTask ==
  ASSUME NEW s \in Socks, TypeOK, Task(s)
  PROVE  TypeOK'
<1> USE ConnsAssumption, NullAssumption, LengthAssumption, BoundAssumption
<1> USE DEF TypeOK, NotOurs, SameSlot, Enter, Return
<1>1. CASE FlagGet(s)
  <2>1. SockTypes'
    BY <1>1 DEF FlagGet, SockTypes, SockStates
  <2>2. TaskTypes'
    BY <1>1 DEF FlagGet, TaskTypes, TaskCalls, Waiting
  <2>3. UNCHANGED <<uipVars, mainVars, wakeVars, ghostVars>>
    BY <1>1 DEF FlagGet
  <2> QED
    BY <2>1, <2>2, <2>3, SameTypes DEF TypeOK
<1>2. CASE ReadTimeout(s)
  <2>1. TaskTypes'
    BY <1>2 DEF ReadTimeout, TaskTypes, TaskCalls, Waiting
  <2>2. UNCHANGED <<sockVars, uipVars, mainVars, wakeVars, ghostVars>>
    BY <1>2 DEF ReadTimeout
  <2> QED
    BY <2>1, <2>2, SameTypes DEF TypeOK
<1>3. CASE ReadCheck(s)
  <2>1. SockTypes'
    BY <1>3 DEF ReadCheck, WaitAgain, ReadReturn, SockTypes, SockStates
  <2>2. TaskTypes'
    BY <1>3 DEF ReadCheck, WaitAgain, ReadReturn, SockTypes, TaskTypes, TaskCalls, Waiting
  <2>3. GhostTypes'
    BY <1>3 DEF ReadCheck, WaitAgain, ReadReturn, SockTypes, GhostTypes
  <2>4. UNCHANGED <<uipVars, mainVars, wakeVars>>
    BY <1>3 DEF ReadCheck, WaitAgain, ReadReturn
  <2> QED
    BY <2>1, <2>2, <2>3, <2>4, SameTypes DEF TypeOK
<1>4. CASE WriteCheck(s)
  <2>1. SockTypes'
    BY <1>4 DEF WriteCheck, WaitAgain, WriteReturn, SockTypes, SockStates
  <2>2. TaskTypes'
    BY <1>4 DEF WriteCheck, WaitAgain, WriteReturn, TaskTypes, TaskCalls, Waiting
  <2>3. UNCHANGED <<uipVars, mainVars, wakeVars, ghostVars>>
    BY <1>4 DEF WriteCheck, WaitAgain, WriteReturn
  <2> QED
    BY <2>1, <2>2, <2>3, SameTypes DEF TypeOK
<1>5. ASSUME NEW state \in Reading, NEW m \in ReadMaxes, ReadStart(s, state, m)
       PROVE  TypeOK'
  <2>1. SockTypes'
    BY <1>5 DEF ReadStart, Reading, SockTypes, SockStates
  <2>2. TaskTypes'
    BY <1>5 DEF ReadStart, Reading, TaskTypes, TaskCalls, Waiting
  <2>3. UNCHANGED <<uipVars, mainVars, wakeVars, ghostVars>>
    BY <1>5 DEF ReadStart
  <2> QED
    BY <2>1, <2>2, <2>3, SameTypes DEF TypeOK
<1>6. ASSUME NEW n \in WriteLens, WriteStart(s, n)
       PROVE  TypeOK'
  <2>1. SockTypes'
    BY <1>6 DEF WriteStart, RequestSend, Signal, SockTypes, SockStates
  <2>2. TaskTypes'
    BY <1>6 DEF WriteStart, RequestSend, Signal, TaskTypes, TaskCalls, Waiting
  <2>3. WakeTypes'
    BY <1>6 DEF WriteStart, RequestSend, Signal, WakeTypes
  <2>4. GhostTypes'
    BY <1>6 DEF WriteStart, RequestSend, Signal, GhostTypes
  <2>5. UNCHANGED <<uipVars, mainVars>>
    BY <1>6 DEF WriteStart
  <2> QED
    BY <2>1, <2>2, <2>3, <2>4, <2>5, SameTypes DEF TypeOK
<1>7. CASE CloseStart(s)
  <2>1. SockTypes'
    BY <1>7 DEF CloseStart, RequestSend, Signal, SockTypes, SockStates
  <2>2. TaskTypes'
    BY <1>7 DEF CloseStart, RequestSend, Signal, TaskTypes, TaskCalls, Waiting
  <2>3. WakeTypes'
    <3>1. WakeTypes /\ RequestSend => WakeTypes'
      BY DEF RequestSend, Signal, WakeTypes
    <3>2. RequestSend \/ UNCHANGED wakeVars
      BY <1>7 DEF CloseStart
    <3> QED
      BY <3>1, <3>2, SameTypes
  <2>4. UNCHANGED <<uipVars, mainVars, ghostVars>>
    BY <1>7 DEF CloseStart
  <2> QED
    BY <2>1, <2>2, <2>3, <2>4, SameTypes DEF TypeOK
<1>8. CASE CloseCheck(s)
  <2>1. SockTypes'
    BY <1>8 DEF CloseCheck, WaitAgain, SockFree, ClearSock, SockTypes, SockStates
  <2>2. TaskTypes'
    BY <1>8 DEF CloseCheck, WaitAgain, SockFree, ClearSock, TaskTypes, TaskCalls, Waiting
  <2>3. GhostTypes'
    <3>1. resized' \in [Socks -> BOOLEAN]
      BY <1>8 DEF CloseCheck, WaitAgain, SockFree, ClearSock, GhostTypes
    <3>2. owed' \in [Socks -> Int] /\ unread' \in [Socks -> Int]
      BY <1>8 DEF CloseCheck, WaitAgain, SockFree, ClearSock, GhostTypes
    <3> QED
      BY <3>1, <3>2 DEF GhostTypes
  <2>4. UNCHANGED <<uipVars, mainVars, wakeVars>>
    BY <1>8 DEF CloseCheck
  <2> QED
    BY <2>1, <2>2, <2>3, <2>4, SameTypes DEF TypeOK
<1>9. CASE CloseUnlisten(s)
  <2>1. SockTypes'
    BY <1>9 DEF CloseUnlisten, SockFree, ClearSock, SockTypes, SockStates
  <2>2. TaskTypes'
    BY <1>9 DEF CloseUnlisten, SockFree, ClearSock, TaskTypes, TaskCalls, Waiting
  <2>3. ConnTypes'
    BY <1>9 DEF CloseUnlisten, SockFree, ClearSock, ConnTypes, TcpStates
  <2>4. GhostTypes'
    BY <1>9 DEF CloseUnlisten, SockFree, ClearSock, GhostTypes
  <2>5. UNCHANGED <<mainVars, wakeVars>>
    BY <1>9 DEF CloseUnlisten
  <2> QED
    BY <2>1, <2>2, <2>3, <2>4, <2>5, SameTypes DEF TypeOK
<1>10. ASSUME NEW p \in Ports, CreateTCPServer(s, p)
       PROVE  TypeOK'
  <2>1. SockTypes'
    BY <1>10 DEF CreateTCPServer, SockAlloc, SockTypes, SockStates
  <2>2. TaskTypes'
    BY <1>10 DEF CreateTCPServer, SockAlloc, TaskTypes, TaskCalls, Waiting
  <2>3. UNCHANGED <<uipVars, mainVars, wakeVars, ghostVars>>
    BY <1>10 DEF CreateTCPServer
  <2> QED
    BY <2>1, <2>2, <2>3, SameTypes DEF TypeOK
<1>11. CASE ListenMark(s)
  <2>1. SockTypes'
    BY <1>11 DEF ListenMark, SockTypes, SockStates
  <2>2. TaskTypes'
    BY <1>11 DEF ListenMark, TaskTypes, TaskCalls, Waiting
  <2>3. UNCHANGED <<uipVars, mainVars, wakeVars, ghostVars>>
    BY <1>11 DEF ListenMark
  <2> QED
    BY <2>1, <2>2, <2>3, SameTypes DEF TypeOK
<1>12. CASE ListenUip(s)
  <2>1. TaskTypes'
    BY <1>12 DEF ListenUip, SockTypes, TaskTypes, TaskCalls, Waiting
  <2>2. ConnTypes'
    BY <1>12 DEF ListenUip, SockTypes, ConnTypes, TcpStates
  <2>3. UNCHANGED <<sockVars, mainVars, wakeVars, ghostVars>>
    BY <1>12 DEF ListenUip
  <2> QED
    BY <2>1, <2>2, <2>3, SameTypes DEF TypeOK
<1>13. CASE AcceptStart(s)
  <2>1. SockTypes'
    BY <1>13 DEF AcceptStart, SockTypes, SockStates
  <2>2. TaskTypes'
    BY <1>13 DEF AcceptStart, TaskTypes, TaskCalls, Waiting
  <2>3. UNCHANGED <<uipVars, mainVars, wakeVars, ghostVars>>
    BY <1>13 DEF AcceptStart
  <2> QED
    BY <2>1, <2>2, <2>3, SameTypes DEF TypeOK
<1>14. CASE AcceptCheck(s)
  <2>1. SockTypes'
    BY <1>14 DEF AcceptCheck, WaitAgain, AcceptReturn, NoConn, SockTypes, SockStates
  <2>2. TaskTypes'
    BY <1>14 DEF AcceptCheck, WaitAgain, AcceptReturn, NoConn, TaskTypes, TaskCalls, Waiting
  <2>3. UNCHANGED <<uipVars, mainVars, wakeVars, ghostVars>>
    BY <1>14 DEF AcceptCheck, WaitAgain, AcceptReturn
  <2> QED
    BY <2>1, <2>2, <2>3, SameTypes DEF TypeOK
<1>15. CASE CreateTCP(s)
  <2>1. SockTypes'
    BY <1>15 DEF CreateTCP, SockAlloc, SockTypes, SockStates
  <2>2. TaskTypes'
    BY <1>15 DEF CreateTCP, SockAlloc, TaskTypes, TaskCalls, Waiting
  <2>3. UNCHANGED <<uipVars, mainVars, wakeVars, ghostVars>>
    BY <1>15 DEF CreateTCP
  <2> QED
    BY <2>1, <2>2, <2>3, SameTypes DEF TypeOK
<1>16. CASE ConnectStart(s)
  <2>1. SockTypes'
    BY <1>16 DEF ConnectStart, SockFree, ClearSock, NewConn, Spare, SockTypes, SockStates
  <2>2. TaskTypes'
    BY <1>16 DEF ConnectStart, SockFree, ClearSock, NewConn, Spare, TaskTypes, TaskCalls,
           Waiting
  <2>3. ConnTypes'
    BY <1>16 DEF ConnectStart, SockFree, ClearSock, NewConn, Spare, ConnTypes, TcpStates
  <2>4. GhostTypes'
    <3>1. resized' \in [Socks -> BOOLEAN]
      BY <1>16 DEF ConnectStart, SockFree, ClearSock, NewConn, Spare, GhostTypes
    <3>2. owed' \in [Socks -> Int] /\ unread' \in [Socks -> Int]
      BY <1>16 DEF ConnectStart, SockFree, ClearSock, NewConn, Spare, GhostTypes
    <3> QED
      BY <3>1, <3>2 DEF GhostTypes
  <2>5. UNCHANGED <<mainVars, wakeVars>>
    BY <1>16 DEF ConnectStart
  <2> QED
    BY <2>1, <2>2, <2>3, <2>4, <2>5, SameTypes DEF TypeOK
<1>17. CASE ConnectCheck(s)
  <2>1. SockTypes'
    BY <1>17 DEF ConnectCheck, WaitAgain, ClearSock, SockTypes, SockStates
  <2>2. TaskTypes'
    BY <1>17 DEF ConnectCheck, WaitAgain, ClearSock, TaskTypes, TaskCalls, Waiting
  <2>3. GhostTypes'
    BY <1>17 DEF ConnectCheck, WaitAgain, ClearSock, GhostTypes
  <2>4. UNCHANGED <<uipVars, mainVars, wakeVars>>
    BY <1>17 DEF ConnectCheck
  <2> QED
    BY <2>1, <2>2, <2>3, <2>4, SameTypes DEF TypeOK
<1>18. CASE CreateFail(s)
  <2>1. SockTypes'
    BY <1>18 DEF CreateFail, SockFree, ClearSock, SockTypes, SockStates
  <2>2. TaskTypes'
    BY <1>18 DEF CreateFail, SockFree, ClearSock, TaskTypes, TaskCalls, Waiting
  <2>3. GhostTypes'
    BY <1>18 DEF CreateFail, SockFree, ClearSock, GhostTypes
  <2>4. UNCHANGED <<uipVars, mainVars, wakeVars>>
    BY <1>18 DEF CreateFail
  <2> QED
    BY <2>1, <2>2, <2>3, <2>4, SameTypes DEF TypeOK
<1> QED
  BY <1>1, <1>2, <1>3, <1>4, <1>5, <1>6, <1>7, <1>8, <1>9, <1>10, <1>11, <1>12, <1>13, <1>14,
     <1>15, <1>16, <1>17, <1>18 DEF Task

\* uip_process up to its appcall, and the main loop around it, keep the types.
LEMMA TypeLoop ==
  ASSUME TypeOK, MainLoop \/ Input \/ TimerStep
  PROVE  TypeOK'
<1> USE ConnsAssumption, NullAssumption, LengthAssumption, BoundAssumption
<1> USE DEF TypeOK, NotUip, Quiet, Appcall, Scanning
<1>1. CASE SemaWait
  <2>1. MainTypes'
    BY <1>1 DEF SemaWait, WakeTypes, MainTypes, MpcValues, Flags
  <2>2. WakeTypes'
    BY <1>1 DEF SemaWait, WakeTypes
  <2>3. UNCHANGED <<sockVars, taskVars, uipVars, ghostVars>>
    BY <1>1 DEF SemaWait
  <2> QED
    BY <2>1, <2>2, <2>3, SameTypes DEF TypeOK
<1>2. CASE ClearRequest
  <2>1. MainTypes'
    <3>1. ci' \in Conns /\ mpc' = "scan" /\ phase' \in {"poll", "net"}
      BY <1>2, FirstConn DEF ClearRequest
    <3>2. sendRequested' \in BOOLEAN
      BY <1>2 DEF ClearRequest
    <3>3. UNCHANGED <<after, callVars>>
      BY <1>2 DEF ClearRequest
    <3> QED
      BY <3>1, <3>2, <3>3 DEF MainTypes, MpcValues
  <2>2. WakeTypes'
    BY <1>2 DEF ClearRequest, WakeTypes
  <2>3. UNCHANGED <<sockVars, taskVars, uipVars, ghostVars>>
    BY <1>2 DEF ClearRequest
  <2> QED
    BY <2>1, <2>2, <2>3, SameTypes DEF TypeOK
<1>3. CASE NextConn
  <2>1. MainTypes'
    <3>1. ci' \in Conns
      BY <1>3, FirstConn DEF NextConn, MainTypes, Conns
    <3>2. phase' \in {"poll", "net", "timer"} /\ mpc' \in {"scan", "wait"}
      BY <1>3 DEF NextConn, MainTypes
    <3>3. flags' = {} /\ after' = "drop" /\ dataLeft' = 0 /\ slen' = 0
          /\ msock' = NoSock /\ lsock' = NoSock /\ sendRequested' = sendRequested
      BY <1>3 DEF NextConn
    <3> QED
      BY <3>1, <3>2, <3>3 DEF MainTypes, MpcValues, Flags
  <2>2. WakeTypes'
    BY <1>3 DEF NextConn, WakeTypes
  <2>3. UNCHANGED <<sockVars, taskVars, uipVars, ghostVars>>
    BY <1>3 DEF NextConn
  <2> QED
    BY <2>1, <2>2, <2>3, SameTypes DEF TypeOK
<1>4. CASE Poll \/ Skip \/ NoPacket
  <2>1. MainTypes'
    <3>1. CASE Poll
      BY <3>1 DEF Poll, MainTypes, MpcValues, Flags
    <3>2. CASE Skip \/ NoPacket
      BY <3>2 DEF Skip, NoPacket, MainTypes, MpcValues
    <3> QED
      BY <1>4, <3>1, <3>2
  <2>2. UNCHANGED <<sockVars, taskVars, uipVars, wakeVars, ghostVars>>
    BY <1>4 DEF Poll, Skip, NoPacket
  <2> QED
    BY <2>1, <2>2, SameTypes DEF TypeOK
<1>5. CASE TimerRexmit
  <2>1. ConnTypes'
    BY <1>5 DEF TimerRexmit, MainTypes, ConnTypes, TcpStates
  <2>2. MainTypes'
    <3>1. CASE tcp[ci] = "ESTABLISHED"
      BY <1>5, <3>1 DEF TimerRexmit, MainTypes, MpcValues, Flags
    <3>2. CASE tcp[ci] # "ESTABLISHED"
      BY <1>5, <3>2 DEF TimerRexmit, MainTypes, MpcValues
    <3> QED
      BY <3>1, <3>2
  <2>3. UNCHANGED <<sockVars, taskVars, wakeVars, ghostVars>>
    BY <1>5 DEF TimerRexmit
  <2> QED
    BY <2>1, <2>2, <2>3, SameTypes DEF TypeOK
<1>6. CASE TimerExpire
  <2>1. ConnTypes'
    BY <1>6 DEF TimerExpire, ConnTypes, TcpStates
  <2>2. MainTypes'
    BY <1>6 DEF TimerExpire, MainTypes, MpcValues, Flags
  <2>3. UNCHANGED <<sockVars, taskVars, wakeVars, ghostVars>>
    BY <1>6 DEF TimerExpire
  <2> QED
    BY <2>1, <2>2, <2>3, SameTypes DEF TypeOK
<1>7. ASSUME NEW c \in Conns, NEW p \in Ports, RecvSyn(c, p)
       PROVE  TypeOK'
  <2>1. ConnTypes'
    BY <1>7 DEF RecvSyn, NewConn, ConnTypes, TcpStates
  <2>2. MainTypes'
    BY <1>7 DEF RecvSyn, NewConn, MainTypes, MpcValues, Flags
  <2>3. UNCHANGED <<sockVars, taskVars, wakeVars, ghostVars>>
    BY <1>7 DEF RecvSyn
  <2> QED
    BY <2>1, <2>2, <2>3, SameTypes DEF TypeOK
<1>8. ASSUME NEW c \in Conns, RecvSynAck(c) \/ RecvSynSentBad(c)
       PROVE  TypeOK'
  <2>1. ConnTypes'
    BY <1>8 DEF RecvSynAck, RecvSynSentBad, ConnTypes, TcpStates
  <2>2. MainTypes'
    BY <1>8 DEF RecvSynAck, RecvSynSentBad, MainTypes, MpcValues, Flags
  <2>3. UNCHANGED <<sockVars, taskVars, wakeVars, ghostVars>>
    BY <1>8 DEF RecvSynAck, RecvSynSentBad
  <2> QED
    BY <2>1, <2>2, <2>3, SameTypes DEF TypeOK
<1>9. ASSUME NEW c \in Conns, RecvRst(c) \/ Finish(c)
       PROVE  TypeOK'
  <2>1. ConnTypes'
    BY <1>9 DEF RecvRst, Finish, ConnTypes, TcpStates
  <2>2. MainTypes'
    <3>1. CASE RecvRst(c)
      BY <3>1 DEF RecvRst, MainTypes, MpcValues, Flags
    <3>2. CASE Finish(c)
      BY <3>2 DEF Finish, MainTypes, MpcValues
    <3> QED
      BY <1>9, <3>1, <3>2
  <2>3. UNCHANGED <<sockVars, taskVars, wakeVars, ghostVars>>
    BY <1>9 DEF RecvRst, Finish
  <2> QED
    BY <2>1, <2>2, <2>3, SameTypes DEF TypeOK
<1>10. ASSUME NEW c \in Conns, NEW n \in SegLens \cup {0}, RecvSynRcvd(c, n)
       PROVE  TypeOK'
  <2>1. ConnTypes'
    BY <1>10 DEF RecvSynRcvd, NewData, ConnTypes, TcpStates
  <2>2. MainTypes'
    BY <1>10 DEF RecvSynRcvd, NewData, MainTypes, MpcValues, Flags
  <2>3. UNCHANGED <<sockVars, taskVars, wakeVars, ghostVars>>
    BY <1>10 DEF RecvSynRcvd
  <2> QED
    BY <2>1, <2>2, <2>3, SameTypes DEF TypeOK
<1>11. ASSUME NEW c \in Conns, NEW n \in SegLens \cup {0}, NEW acks \in BOOLEAN,
              RecvData(c, n, acks)
       PROVE  TypeOK'
  <2>1. ConnTypes'
    BY <1>11 DEF RecvData, Resize, ConnTypes, TcpStates
  <2>2. MainTypes'
    <3>1. CASE n > 0 \/ acks
      BY <1>11, <3>1 DEF RecvData, NewData, AckData, MainTypes, MpcValues, Flags
    <3>2. CASE ~(n > 0 \/ acks)
      BY <1>11, <3>2 DEF RecvData, MainTypes, MpcValues
    <3> QED
      BY <3>1, <3>2
  <2>3. GhostTypes'
    <3>1. resized' \in [Socks -> BOOLEAN]
      BY <1>11 DEF RecvData, Resize, ConnTypes, GhostTypes
    <3>2. owed' \in [Socks -> Int] /\ unread' \in [Socks -> Int]
      BY <1>11 DEF RecvData, Count, ConnTypes, GhostTypes
    <3> QED
      BY <3>1, <3>2 DEF GhostTypes
  <2>4. UNCHANGED <<sockVars, taskVars, wakeVars>>
    BY <1>11 DEF RecvData
  <2> QED
    BY <2>1, <2>2, <2>3, <2>4, SameTypes DEF TypeOK
<1>12. ASSUME NEW c \in Conns, NEW n \in SegLens \cup {0}, NEW acks \in BOOLEAN,
              RecvFin(c, n, acks)
       PROVE  TypeOK'
  <2>1. ConnTypes'
    BY <1>12 DEF RecvFin, ConnTypes, TcpStates
  <2>2. MainTypes'
    BY <1>12 DEF RecvFin, NewData, AckData, MainTypes, MpcValues, Flags
  <2>3. GhostTypes'
    BY <1>12 DEF RecvFin, Count, ConnTypes, GhostTypes
  <2>4. UNCHANGED <<sockVars, taskVars, wakeVars>>
    BY <1>12 DEF RecvFin
  <2> QED
    BY <2>1, <2>2, <2>3, <2>4, SameTypes DEF TypeOK
<1> QED
  BY <1>1, <1>2, <1>3, <1>4, <1>5, <1>6, <1>7, <1>8, <1>9, <1>10, <1>11, <1>12 DEF MainLoop,
     Input, TimerStep, MainTypes

\* netTcpAppcall up to the lock of the socket keeps the types.
LEMMA TypeAppcall ==
  ASSUME TypeOK, AppcallStep
  PROVE  TypeOK'
<1> USE ConnsAssumption, NullAssumption, LengthAssumption, BoundAssumption
<1> USE DEF TypeOK, AppcallFrame, SameCall, SameSocks, Connected, Cur
<1>1. ASSUME NEW s \in Socks, HookAccept(s)
       PROVE  TypeOK'
  <2>1. SockTypes'
    BY <1>1 DEF HookAccept, NewSock, MainTypes, SockTypes, SockStates
  <2>2. TaskTypes'
    BY <1>1 DEF HookAccept, NewSock, MainTypes, TaskTypes, TaskCalls, Waiting
  <2>3. ConnTypes'
    BY <1>1 DEF HookAccept, NewSock, MainTypes, ConnTypes, TcpStates
  <2>4. MainTypes'
    BY <1>1 DEF HookAccept, NewSock, MainTypes, MpcValues, Flags
  <2>5. GhostTypes'
    BY <1>1 DEF HookAccept, NewSock, MainTypes, GhostTypes
  <2>6. UNCHANGED wakeVars
    BY <1>1 DEF HookAccept, NewSock
  <2> QED
    BY <2>1, <2>2, <2>3, <2>4, <2>5, <2>6, SameTypes DEF TypeOK
<1>2. ASSUME NEW s \in Socks, ListenAccept(s)
       PROVE  TypeOK'
  <2>1. SockTypes'
    BY <1>2 DEF ListenAccept, NewSock, ListenLocked, MainTypes, Conns, NoConn, SockTypes,
           SockStates
  <2>2. TaskTypes'
    BY <1>2 DEF ListenAccept, NewSock, ListenLocked, MainTypes, Conns, NoConn, TaskTypes,
           TaskCalls, Waiting
  <2>3. ConnTypes'
    BY <1>2 DEF ListenAccept, NewSock, ListenLocked, MainTypes, Conns, NoConn, ConnTypes,
           TcpStates
  <2>4. MainTypes'
    BY <1>2 DEF ListenAccept, NewSock, ListenLocked, MainTypes, Conns, NoConn, MpcValues, Flags
  <2>5. GhostTypes'
    BY <1>2 DEF ListenAccept, NewSock, ListenLocked, MainTypes, Conns, NoConn, GhostTypes
  <2>6. UNCHANGED wakeVars
    BY <1>2 DEF ListenAccept, NewSock
  <2> QED
    BY <2>1, <2>2, <2>3, <2>4, <2>5, <2>6, SameTypes DEF TypeOK
<1>3. ASSUME NEW s \in Socks, HookRefuse(s)
       PROVE  TypeOK'
  <2>1. SockTypes'
    BY <1>3 DEF HookRefuse, Abort, SockTypes, SockStates
  <2>2. ConnTypes'
    BY <1>3 DEF HookRefuse, Abort, ConnTypes, TcpStates
  <2>3. MainTypes'
    BY <1>3 DEF HookRefuse, Abort, MainTypes, MpcValues, Flags
  <2>4. GhostTypes'
    BY <1>3 DEF HookRefuse, Abort, GhostTypes
  <2>5. UNCHANGED <<taskVars, wakeVars>>
    BY <1>3 DEF HookRefuse
  <2> QED
    BY <2>1, <2>2, <2>3, <2>4, <2>5, SameTypes DEF TypeOK
<1>4. ASSUME NEW s \in Socks, FindListener(s)
       PROVE  TypeOK'
  <2>1. SockTypes'
    BY <1>4 DEF FindListener, SockTypes, SockStates
  <2>2. ConnTypes'
    BY <1>4 DEF FindListener, ConnTypes, TcpStates
  <2>3. MainTypes'
    BY <1>4 DEF FindListener, MainTypes, MpcValues, Flags
  <2>4. GhostTypes'
    BY <1>4 DEF FindListener, GhostTypes
  <2>5. UNCHANGED <<taskVars, wakeVars>>
    BY <1>4 DEF FindListener
  <2> QED
    BY <2>1, <2>2, <2>3, <2>4, <2>5, SameTypes DEF TypeOK
<1>5. CASE ConnectedRefuse \/ ListenFull \/ ListenExpire
  <2>1. SockTypes'
    BY <1>5 DEF ConnectedRefuse, ListenFull, ListenExpire, Abort, SockTypes, SockStates
  <2>2. ConnTypes'
    BY <1>5 DEF ConnectedRefuse, ListenFull, ListenExpire, Abort, ConnTypes, TcpStates
  <2>3. MainTypes'
    BY <1>5 DEF ConnectedRefuse, ListenFull, ListenExpire, Abort, MainTypes, MpcValues, Flags
  <2>4. GhostTypes'
    BY <1>5 DEF ConnectedRefuse, ListenFull, ListenExpire, Abort, GhostTypes
  <2>5. UNCHANGED <<taskVars, wakeVars>>
    BY <1>5 DEF ConnectedRefuse, ListenFull, ListenExpire
  <2> QED
    BY <2>1, <2>2, <2>3, <2>4, <2>5, SameTypes DEF TypeOK
<1>6. CASE ListenCheck \/ NoSocket
  <2>1. SockTypes'
    BY <1>6 DEF ListenCheck, NoSocket, ListenLocked, SockTypes, SockStates
  <2>2. ConnTypes'
    BY <1>6 DEF ListenCheck, NoSocket, ListenLocked, ConnTypes, TcpStates
  <2>3. MainTypes'
    BY <1>6 DEF ListenCheck, NoSocket, ListenLocked, MainTypes, MpcValues, Flags
  <2>4. GhostTypes'
    BY <1>6 DEF ListenCheck, NoSocket, ListenLocked, GhostTypes
  <2>5. UNCHANGED <<taskVars, wakeVars>>
    BY <1>6 DEF ListenCheck, NoSocket
  <2> QED
    BY <2>1, <2>2, <2>3, <2>4, <2>5, SameTypes DEF TypeOK
<1>7. CASE ListenWait
  <2>1. SockTypes'
    BY <1>7 DEF ListenWait, MainWait, SockTypes, SockStates
  <2>2. ConnTypes'
    BY <1>7 DEF ListenWait, MainWait, ConnTypes, TcpStates
  <2>3. MainTypes'
    BY <1>7 DEF ListenWait, MainWait, MainTypes, MpcValues, Flags
  <2>4. GhostTypes'
    BY <1>7 DEF ListenWait, MainWait, GhostTypes
  <2>5. UNCHANGED <<taskVars, wakeVars>>
    BY <1>7 DEF ListenWait, MainWait
  <2> QED
    BY <2>1, <2>2, <2>3, <2>4, <2>5, SameTypes DEF TypeOK
<1>8. CASE ConnectOk
  <2>1. SockTypes'
    BY <1>8 DEF ConnectOk, Announce, SockTypes, SockStates
  <2>2. ConnTypes'
    BY <1>8 DEF ConnectOk, Announce, ConnTypes, TcpStates
  <2>3. MainTypes'
    BY <1>8 DEF ConnectOk, Announce, MainTypes, MpcValues, Flags
  <2>4. GhostTypes'
    BY <1>8 DEF ConnectOk, Announce, GhostTypes
  <2>5. UNCHANGED <<taskVars, wakeVars>>
    BY <1>8 DEF ConnectOk
  <2> QED
    BY <2>1, <2>2, <2>3, <2>4, <2>5, SameTypes DEF TypeOK
<1>9. CASE LockSock
  <2>1. SockTypes'
    BY <1>9 DEF LockSock, ConnTypes, MainTypes, SockTypes, SockStates
  <2>2. ConnTypes'
    BY <1>9 DEF LockSock, ConnTypes, MainTypes, TcpStates
  <2>3. MainTypes'
    BY <1>9 DEF LockSock, ConnTypes, MainTypes, MpcValues, Flags
  <2>4. GhostTypes'
    BY <1>9 DEF LockSock, ConnTypes, MainTypes, GhostTypes
  <2>5. UNCHANGED <<taskVars, wakeVars>>
    BY <1>9 DEF LockSock
  <2> QED
    BY <2>1, <2>2, <2>3, <2>4, <2>5, SameTypes DEF TypeOK
<1> QED
  BY <1>1, <1>2, <1>3, <1>4, <1>5, <1>6, <1>7, <1>8, <1>9 DEF AppcallStep

\* netTcpAppcallMutex keeps the types.
LEMMA TypeBody ==
  ASSUME TypeOK, BodyStep
  PROVE  TypeOK'
<1> USE ConnsAssumption, NullAssumption, LengthAssumption, BoundAssumption
<1> USE DEF TypeOK, AppcallFrame, BodyFrame, SameCall, SameSocks, Announce, AppcallClose
<1>1. CASE BodyAborted
  <2>1. SockTypes'
    BY <1>1 DEF BodyAborted, SockTypes, SockStates
  <2>2. ConnTypes'
    BY <1>1 DEF BodyAborted, ConnTypes, TcpStates
  <2>3. MainTypes'
    BY <1>1 DEF BodyAborted, MainTypes, MpcValues, Flags
  <2>4. GhostTypes'
    BY <1>1 DEF BodyAborted, GhostTypes
  <2>5. UNCHANGED <<taskVars, wakeVars>>
    BY <1>1 DEF BodyAborted
  <2> QED
    BY <2>1, <2>2, <2>3, <2>4, <2>5, SameTypes DEF TypeOK
<1>2. CASE BodyAcked
  <2>1. SockTypes'
    <3>1. len' \in [Socks -> Nat]
      <4>1. msock \in Socks /\ ci \in Conns /\ len[msock] \in Nat /\ mss[ci] \in Nat
        BY <1>2 DEF BodyAcked, ConnTypes, MainTypes, SockTypes
      <4> QED
        BY <1>2, <4>1 DEF BodyAcked, SockTypes
    <3>2. st' \in [Socks -> SockStates] /\ uipChange' \in [Socks -> BOOLEAN]
      BY <1>2 DEF BodyAcked, SockTypes, SockStates
    <3>3. UNCHANGED <<slotVars, max, mutex, sockChange>>
      BY <1>2 DEF BodyAcked
    <3> QED
      BY <3>1, <3>2, <3>3 DEF SockTypes
  <2>2. MainTypes'
    <3>1. slen' \in Nat
      <4>1. msock \in Socks /\ ci \in Conns /\ len[msock] \in Nat /\ mss[ci] \in Nat
        BY <1>2 DEF BodyAcked, ConnTypes, MainTypes, SockTypes
      <4> QED
        BY <1>2, <4>1 DEF BodyAcked, MainTypes
    <3>2. mpc' = "rx" /\ mpc = "body" /\ UNCHANGED <<loopVars, flags, dataLeft, msock, lsock>>
      BY <1>2 DEF BodyAcked
    <3> QED
      BY <3>1, <3>2 DEF MainTypes, MpcValues
  <2>3. UNCHANGED <<taskVars, uipVars, wakeVars, ghostVars>>
    BY <1>2 DEF BodyAcked
  <2> QED
    BY <2>1, <2>2, <2>3, SameTypes DEF TypeOK
<1>3. CASE BodyPlain \/ RxBlock \/ RxLock \/ RxDone
  <2>1. SockTypes'
    BY <1>3 DEF BodyPlain, RxBlock, RxLock, RxDone, SockTypes, SockStates
  <2>2. ConnTypes'
    BY <1>3 DEF BodyPlain, RxBlock, RxLock, RxDone, ConnTypes, TcpStates
  <2>3. MainTypes'
    BY <1>3 DEF BodyPlain, RxBlock, RxLock, RxDone, MainTypes, MpcValues, Flags
  <2>4. GhostTypes'
    BY <1>3 DEF BodyPlain, RxBlock, RxLock, RxDone, GhostTypes
  <2>5. UNCHANGED <<taskVars, wakeVars>>
    BY <1>3 DEF BodyPlain, RxBlock, RxLock, RxDone
  <2> QED
    BY <2>1, <2>2, <2>3, <2>4, <2>5, SameTypes DEF TypeOK
<1>4. CASE RxWait
  <2>1. SockTypes'
    BY <1>4 DEF RxWait, MainWait, SockTypes, SockStates
  <2>2. ConnTypes'
    BY <1>4 DEF RxWait, MainWait, ConnTypes, TcpStates
  <2>3. MainTypes'
    BY <1>4 DEF RxWait, MainWait, MainTypes, MpcValues, Flags
  <2>4. GhostTypes'
    BY <1>4 DEF RxWait, MainWait, GhostTypes
  <2>5. UNCHANGED <<taskVars, wakeVars>>
    BY <1>4 DEF RxWait, MainWait
  <2> QED
    BY <2>1, <2>2, <2>3, <2>4, <2>5, SameTypes DEF TypeOK
<1>5. CASE RxExpire
  <2>1. SockTypes'
    BY <1>5 DEF RxExpire, SockTypes, SockStates
  <2>2. ConnTypes'
    BY <1>5 DEF RxExpire, ConnTypes, TcpStates
  <2>3. MainTypes'
    BY <1>5 DEF RxExpire, MainTypes, MpcValues, Flags
  <2>4. GhostTypes'
    BY <1>5 DEF RxExpire, GhostTypes
  <2>5. UNCHANGED <<taskVars, wakeVars>>
    BY <1>5 DEF RxExpire
  <2> QED
    BY <2>1, <2>2, <2>3, <2>4, <2>5, SameTypes DEF TypeOK
<1>6. CASE RxRead
  <2>1. SockTypes'
    BY <1>6 DEF RxRead, SockTypes, MainTypes, SockStates
  <2>2. ConnTypes'
    BY <1>6 DEF RxRead, SockTypes, MainTypes, ConnTypes, TcpStates
  <2>3. MainTypes'
    <3>1. dataLeft' \in Nat
      BY <1>6 DEF RxRead, SockTypes, MainTypes
    <3>2. UNCHANGED <<mpc, loopVars, flags, slen, msock, lsock>>
      BY <1>6 DEF RxRead
    <3> QED
      BY <3>1, <3>2 DEF MainTypes
  <2>4. GhostTypes'
    BY <1>6 DEF RxRead, SockTypes, MainTypes, GhostTypes
  <2>5. UNCHANGED <<taskVars, wakeVars>>
    BY <1>6 DEF RxRead
  <2> QED
    BY <2>1, <2>2, <2>3, <2>4, <2>5, SameTypes DEF TypeOK
<1>7. ASSUME NEW take \in 0..dataLeft, NEW keep \in 0..dataLeft, NEW nl \in BOOLEAN,
              RxLine(take, keep, nl)
       PROVE  TypeOK'
  <2>1. SockTypes'
    <3>1. len' \in [Socks -> Nat]
      BY <1>7 DEF RxLine, MainTypes, SockTypes
    <3>2. st' \in [Socks -> SockStates] /\ uipChange' \in [Socks -> BOOLEAN]
      BY <1>7 DEF RxLine, SockTypes, SockStates
    <3>3. UNCHANGED <<slotVars, max, mutex, sockChange>>
      BY <1>7 DEF RxLine
    <3> QED
      BY <3>1, <3>2, <3>3 DEF SockTypes
  <2>2. ConnTypes'
    BY <1>7 DEF RxLine, MainTypes, ConnTypes, TcpStates
  <2>3. MainTypes'
    <3>1. dataLeft' \in Nat
      BY <1>7 DEF RxLine, MainTypes
    <3>2. UNCHANGED <<mpc, loopVars, flags, slen, msock, lsock>>
      BY <1>7 DEF RxLine
    <3> QED
      BY <3>1, <3>2 DEF MainTypes
  <2>4. GhostTypes'
    <3>1. unread' \in [Socks -> Int]
      BY <1>7 DEF RxLine, MainTypes, GhostTypes
    <3>2. UNCHANGED <<owed, resized>>
      BY <1>7 DEF RxLine
    <3> QED
      BY <3>1, <3>2 DEF GhostTypes
  <2>5. UNCHANGED <<taskVars, wakeVars>>
    BY <1>7 DEF RxLine
  <2> QED
    BY <2>1, <2>2, <2>3, <2>4, <2>5, SameTypes DEF TypeOK
<1>8. CASE TailSend \/ TailPeerClosed \/ TailClose \/ TailPlain
  <2>1. SockTypes'
    BY <1>8 DEF TailSend, TailPeerClosed, TailClose, TailPlain, TailUnlock, SockTypes,
           SockStates
  <2>2. ConnTypes'
    BY <1>8 DEF TailSend, TailPeerClosed, TailClose, TailPlain, TailUnlock, SockTypes,
           ConnTypes, TcpStates
  <2>3. MainTypes'
    <3>1. CASE TailSend
      BY <3>1 DEF TailSend, TailUnlock, SockTypes, MainTypes, MpcValues
    <3>2. CASE TailPeerClosed \/ TailClose \/ TailPlain
      BY <3>2 DEF TailPeerClosed, TailClose, TailPlain, TailUnlock, MainTypes, MpcValues, Flags
    <3> QED
      BY <1>8, <3>1, <3>2
  <2>4. GhostTypes'
    BY <1>8 DEF TailSend, TailPeerClosed, TailClose, TailPlain, TailUnlock, SockTypes,
           GhostTypes
  <2>5. UNCHANGED <<taskVars, wakeVars>>
    BY <1>8 DEF TailSend, TailPeerClosed, TailClose, TailPlain, TailUnlock
  <2> QED
    BY <2>1, <2>2, <2>3, <2>4, <2>5, SameTypes DEF TypeOK
<1> QED
  BY <1>1, <1>2, <1>3, <1>4, <1>5, <1>6, <1>7, <1>8 DEF BodyStep

\* uip_process behind the appcall keeps the types.
LEMMA TypeAfter ==
  ASSUME TypeOK, AfterStep
  PROVE  TypeOK'
<1> USE LengthAssumption DEF TypeOK, NotUip, Resume
<1>1. CASE AppSend
  <2>1. ConnTypes'
    BY <1>1 DEF AppSend, MainTypes, ConnTypes, TcpStates
  <2>2. MainTypes'
    BY <1>1 DEF AppSend, MainTypes, MpcValues, Flags
  <2>3. UNCHANGED <<sockVars, taskVars, wakeVars, ghostVars>>
    BY <1>1 DEF AppSend
  <2> QED
    BY <2>1, <2>2, <2>3, SameTypes DEF TypeOK
<1>2. CASE AppAbort \/ AppClose \/ AppLastAck \/ AppSynFail \/ AppDrop
  <2>1. ConnTypes'
    BY <1>2 DEF AppAbort, AppClose, AppLastAck, AppSynFail, AppDrop, ConnTypes, TcpStates
  <2>2. MainTypes'
    BY <1>2 DEF AppAbort, AppClose, AppLastAck, AppSynFail, AppDrop, MainTypes, MpcValues, Flags
  <2>3. UNCHANGED <<sockVars, taskVars, wakeVars, ghostVars>>
    BY <1>2 DEF AppAbort, AppClose, AppLastAck, AppSynFail, AppDrop
  <2> QED
    BY <2>1, <2>2, <2>3, SameTypes DEF TypeOK
<1> QED
  BY <1>1, <1>2 DEF AfterStep

\* Initial states are of the right type.
LEMMA TypeInit == Init => TypeOK
<1> SUFFICES ASSUME Init
             PROVE  TypeOK
  OBVIOUS
<1>1. SockTypes /\ TaskTypes
  BY DEF Init, SockTypes, TaskTypes, SockStates, TaskCalls, NoConn
<1>2. ConnTypes
  BY DEF Init, ConnTypes, TcpStates
<1>3. MainTypes
  BY FirstConn DEF Init, MainTypes, MpcValues
<1>4. WakeTypes
  <2>1. giant \in 0..MaxGiant
    BY BoundAssumption DEF Init
  <2>2. dataToSend \in BOOLEAN /\ periodic \in BOOLEAN
    BY DEF Init
  <2> QED
    BY <2>1, <2>2 DEF WakeTypes
<1>5. GhostTypes
  BY DEF Init, GhostTypes
<1> QED
  BY <1>1, <1>2, <1>3, <1>4, <1>5 DEF TypeOK

\* Every step keeps the types.
LEMMA TypeNext == TypeOK /\ [Next]_vars => TypeOK'
<1> SUFFICES ASSUME TypeOK, [Next]_vars
             PROVE  TypeOK'
  OBVIOUS
<1>1. CASE Interrupt \/ PeriodicTick
  <2>1. WakeTypes'
    <3>1. CASE Interrupt
      BY <3>1, BoundAssumption DEF Interrupt, Signal, TypeOK, WakeTypes
    <3>2. CASE PeriodicTick
      BY <3>2, BoundAssumption DEF PeriodicTick, Signal, TypeOK, WakeTypes
    <3> QED
      BY <1>1, <3>1, <3>2
  <2>2. UNCHANGED <<sockVars, taskVars, uipVars, mainVars, ghostVars>>
    BY <1>1 DEF Interrupt, PeriodicTick
  <2> QED
    BY <2>1, <2>2, SameTypes DEF TypeOK
<1>2. CASE UNCHANGED vars
  BY <1>2, SameTypes DEF TypeOK
<1> QED
  BY <1>1, <1>2, TypeTask, TypeLoop, TypeAppcall, TypeBody, TypeAfter DEF Next, Main

\* Every variable keeps its type.
THEOREM TypeCorrect == Spec => []TypeOK
  BY TypeInit, TypeNext, PTL DEF Spec

-----------------------------------------------------------------------------
(* A socket in service has a connection that is alive, and a connection     *)
(* that is established has a socket: Inductive is what its name says, one   *)
(* lemma for each part of Next.                                             *)

USE DEF Upcall, InAppcall, Alive

(* The three ways in which a step treats appstate.file *)

\* The file stays, and whoever is served is still served by a live connection.
LEMMA AttachedSame ==
  ASSUME TypeOK, Attached, UNCHANGED file,
         \A s \in Socks : st'[s] \in Served <=> st[s] \in Served,
         \A c \in Conns : file[c] # NoSock /\ Alive(c) => Alive(c)'
  PROVE  Attached'
<1>1. \A c \in Conns : file[c] # NoSock => file[c] \in Socks
  BY DEF TypeOK, ConnTypes
<1>2. ASSUME NEW s \in Socks, st'[s] \in Served
      PROVE  \E c \in Conns : file'[c] = s /\ Alive(c)'
  <2>1. PICK c \in Conns : file[c] = s /\ Alive(c)
    BY <1>2 DEF Attached
  <2>2. file[c] # NoSock
    BY <2>1, NullAssumption
  <2> QED
    BY <2>1, <2>2
<1>3. \A c \in Conns : file'[c] # NoSock => st'[file'[c]] \in Served
  BY <1>1 DEF Attached
<1>4. \A c, d \in Conns : file'[c] = file'[d] /\ file'[c] # NoSock => c = d
  BY DEF Attached
<1> QED
  BY <1>2, <1>3, <1>4 DEF Attached

\* The connection of the appcall gives up its file, which is served no more.
LEMMA AttachedDrop ==
  ASSUME TypeOK, Attached, NEW s \in Socks, file[ci] = s,
         file' = [file EXCEPT ![ci] = NoSock],
         \A t \in Socks : st'[t] \in Served <=> st[t] \in Served /\ t # s,
         \A c \in Conns : c # ci /\ Alive(c) => Alive(c)'
  PROVE  Attached'
<1>1. ci \in Conns /\ file \in [Conns -> Socks \cup {NoSock}]
  BY DEF TypeOK, ConnTypes, MainTypes
<1>2. ASSUME NEW t \in Socks, st'[t] \in Served
      PROVE  \E c \in Conns : file'[c] = t /\ Alive(c)'
  <2>1. PICK c \in Conns : file[c] = t /\ Alive(c)
    BY <1>2 DEF Attached
  <2>2. c # ci /\ file'[c] = t
    BY <1>1, <1>2, <2>1
  <2> QED
    BY <2>1, <2>2
<1>3. ASSUME NEW c \in Conns, file'[c] # NoSock
      PROVE  st'[file'[c]] \in Served
  <2>1. c # ci /\ file'[c] = file[c] /\ file[c] \in Socks
    BY <1>1, <1>3
  <2>2. file[c] # s
    BY <1>1, <2>1, NullAssumption DEF Attached
  <2> QED
    BY <2>1, <2>2, NullAssumption DEF Attached
<1>4. \A c, d \in Conns : file'[c] = file'[d] /\ file'[c] # NoSock => c = d
  BY <1>1 DEF Attached
<1> QED
  BY <1>2, <1>3, <1>4 DEF Attached

\* A connection without a file gets a socket that nobody served.
LEMMA AttachedNew ==
  ASSUME TypeOK, Attached, NEW c \in Conns, NEW s \in Socks, file[c] = NoSock,
         st[s] \notin Served, file' = [file EXCEPT ![c] = s], Alive(c)',
         \A t \in Socks : st'[t] \in Served <=> st[t] \in Served \/ t = s,
         \A d \in Conns : d # c /\ Alive(d) => Alive(d)'
  PROVE  Attached'
<1>1. file \in [Conns -> Socks \cup {NoSock}]
  BY DEF TypeOK, ConnTypes
<1>2. ASSUME NEW t \in Socks, st'[t] \in Served
      PROVE  \E d \in Conns : file'[d] = t /\ Alive(d)'
  <2>1. CASE t = s
    BY <1>1, <2>1
  <2>2. CASE t # s
    <3>1. PICK d \in Conns : file[d] = t /\ Alive(d)
      BY <1>2, <2>2 DEF Attached
    <3>2. d # c /\ file'[d] = t
      BY <1>1, <3>1, NullAssumption
    <3> QED
      BY <3>1, <3>2
  <2> QED
    BY <2>1, <2>2
<1>3. \A d \in Conns : file[d] # s
  BY <1>1, NullAssumption DEF Attached
<1>4. ASSUME NEW d \in Conns, file'[d] # NoSock
      PROVE  st'[file'[d]] \in Served
  BY <1>1, <1>4, NullAssumption DEF Attached
<1>5. \A d, e \in Conns : file'[d] = file'[e] /\ file'[d] # NoSock => d = e
  BY <1>1, <1>3 DEF Attached
<1> QED
  BY <1>2, <1>4, <1>5 DEF Attached

-----------------------------------------------------------------------------
(* The application tasks *)

\* What the tasks and uIP know of each other, the connections being left alone.
ConnPart == Attached /\ SpareHasNoFile /\ EstablishedHasSocket /\ AppcallState

\* A task that takes its socket neither in nor out of service.
LEMMA TaskConn ==
  ASSUME TypeOK, ConnPart, UNCHANGED <<connVars, mainVars>>,
         \A t \in Socks : st'[t] \in Served <=> st[t] \in Served,
         \A t \in Socks : mpc # "wait" /\ st[t] \in Listening => st'[t] \in Listening
  PROVE  ConnPart'
<1> USE DEF ConnPart
<1>1. Attached'
  BY AttachedSame
<1>2. SpareHasNoFile' /\ EstablishedHasSocket'
  BY DEF SpareHasNoFile, EstablishedHasSocket
<1>3. UpcallFlags' /\ UpcallConn'
  BY DEF AppcallState, UpcallFlags, UpcallConn, Told, Answered
<1>4. UpcallFile'
  BY DEF AppcallState, UpcallFile, TypeOK, MainTypes, Over
<1> QED
  BY <1>1, <1>2, <1>3, <1>4 DEF AppcallState

\* A step of a task keeps sockets and connections paired.
LEMMA AttachedTask ==
  ASSUME NEW s \in Socks, Inductive, Task(s)
  PROVE  ConnPart'
<1> USE DEF NotOurs, SameSlot, Enter, Return
<1>0. /\ TypeOK /\ ConnPart /\ CallState /\ UnusedNull
      /\ st \in [Socks -> SockStates] /\ call \in [Socks -> TaskCalls]
  BY DEF Inductive, ConnPart, TypeOK, SockTypes, TaskTypes
<1>1. CASE FlagGet(s) \/ ReadTimeout(s) \/ ListenUip(s)
  BY <1>0, <1>1, TaskConn DEF FlagGet, ReadTimeout, ListenUip
<1>2. CASE ReadCheck(s)
  <2>1. \A t \in Socks : st'[t] \in Served <=> st[t] \in Served
    BY <1>0, <1>2 DEF ReadCheck, WaitAgain, ReadReturn, CallState, Gone, Reading, Served
  <2>2. \A t \in Socks : mpc # "wait" /\ st[t] \in Listening => st'[t] \in Listening
    BY <1>0, <1>2 DEF ReadCheck, WaitAgain, ReadReturn, CallState, Gone, Reading, Listening
  <2>3. UNCHANGED <<connVars, mainVars>>
    BY <1>2 DEF ReadCheck
  <2> QED
    BY <1>0, <2>1, <2>2, <2>3, TaskConn
<1>3. CASE WriteCheck(s)
  <2>1. \A t \in Socks : st'[t] \in Served <=> st[t] \in Served
    BY <1>0, <1>3 DEF WriteCheck, WaitAgain, WriteReturn, CallState, Gone, Served
  <2>2. \A t \in Socks : mpc # "wait" /\ st[t] \in Listening => st'[t] \in Listening
    BY <1>0, <1>3 DEF WriteCheck, WaitAgain, WriteReturn, CallState, Gone, Listening
  <2>3. UNCHANGED <<connVars, mainVars>>
    BY <1>3 DEF WriteCheck
  <2> QED
    BY <1>0, <2>1, <2>2, <2>3, TaskConn
<1>4. ASSUME NEW state \in Reading, NEW m \in ReadMaxes, ReadStart(s, state, m)
       PROVE  ConnPart'
  <2>1. \A t \in Socks : st'[t] \in Served <=> st[t] \in Served
    BY <1>0, <1>4 DEF ReadStart, Reading, Served
  <2>2. \A t \in Socks : mpc # "wait" /\ st[t] \in Listening => st'[t] \in Listening
    BY <1>0, <1>4 DEF ReadStart, Reading, Listening
  <2>3. UNCHANGED <<connVars, mainVars>>
    BY <1>4 DEF ReadStart
  <2> QED
    BY <1>0, <2>1, <2>2, <2>3, TaskConn
<1>5. ASSUME NEW n \in WriteLens, WriteStart(s, n)
       PROVE  ConnPart'
  <2>1. \A t \in Socks : st'[t] \in Served <=> st[t] \in Served
    BY <1>0, <1>5 DEF WriteStart, Served
  <2>2. \A t \in Socks : mpc # "wait" /\ st[t] \in Listening => st'[t] \in Listening
    BY <1>0, <1>5 DEF WriteStart, Listening
  <2>3. UNCHANGED <<connVars, mainVars>>
    BY <1>5 DEF WriteStart
  <2> QED
    BY <1>0, <2>1, <2>2, <2>3, TaskConn
<1>6. CASE CloseStart(s)
  <2>1. \A t \in Socks : st'[t] \in Served <=> st[t] \in Served
    BY <1>0, <1>6 DEF CloseStart, Served
  <2>2. \A t \in Socks : mpc # "wait" /\ st[t] \in Listening => st'[t] \in Listening
    BY <1>0, <1>6 DEF CloseStart, Listening
  <2>3. UNCHANGED <<connVars, mainVars>>
    BY <1>6 DEF CloseStart
  <2> QED
    BY <1>0, <2>1, <2>2, <2>3, TaskConn
<1>7. CASE CloseCheck(s)
  <2>1. \A t \in Socks : st'[t] \in Served <=> st[t] \in Served
    BY <1>0, <1>7 DEF CloseCheck, WaitAgain, SockFree, ClearSock, CallState, Gone, Served
  <2>2. \A t \in Socks : mpc # "wait" /\ st[t] \in Listening => st'[t] \in Listening
    BY <1>0, <1>7 DEF CloseCheck, WaitAgain, SockFree, ClearSock, CallState, Gone, Listening
  <2>3. UNCHANGED <<connVars, mainVars>>
    BY <1>7 DEF CloseCheck
  <2> QED
    BY <1>0, <2>1, <2>2, <2>3, TaskConn
<1>8. CASE CloseUnlisten(s)
  <2>1. \A t \in Socks : st'[t] \in Served <=> st[t] \in Served
    BY <1>0, <1>8 DEF CloseUnlisten, UipFree, SockFree, ClearSock, CallState, Served
  <2>2. \A t \in Socks : mpc # "wait" /\ st[t] \in Listening => st'[t] \in Listening
    BY <1>0, <1>8 DEF CloseUnlisten, UipFree, SockFree, ClearSock, CallState, Listening
  <2>3. UNCHANGED <<connVars, mainVars>>
    BY <1>8 DEF CloseUnlisten
  <2> QED
    BY <1>0, <2>1, <2>2, <2>3, TaskConn
<1>9. ASSUME NEW p \in Ports, CreateTCPServer(s, p)
       PROVE  ConnPart'
  <2>1. \A t \in Socks : st'[t] \in Served <=> st[t] \in Served
    BY <1>0, <1>9 DEF CreateTCPServer, SockAlloc, FreeSlots, UnusedNull, Served
  <2>2. \A t \in Socks : mpc # "wait" /\ st[t] \in Listening => st'[t] \in Listening
    BY <1>0, <1>9 DEF CreateTCPServer, SockAlloc, FreeSlots, UnusedNull, Listening
  <2>3. UNCHANGED <<connVars, mainVars>>
    BY <1>9 DEF CreateTCPServer
  <2> QED
    BY <1>0, <2>1, <2>2, <2>3, TaskConn
<1>10. CASE ListenMark(s)
  <2>1. \A t \in Socks : st'[t] \in Served <=> st[t] \in Served
    BY <1>0, <1>10 DEF ListenMark, Served
  <2>2. \A t \in Socks : mpc # "wait" /\ st[t] \in Listening => st'[t] \in Listening
    BY <1>0, <1>10 DEF ListenMark, Listening
  <2>3. UNCHANGED <<connVars, mainVars>>
    BY <1>10 DEF ListenMark
  <2> QED
    BY <1>0, <2>1, <2>2, <2>3, TaskConn
<1>11. CASE AcceptStart(s)
  <2>1. \A t \in Socks : st'[t] \in Served <=> st[t] \in Served
    BY <1>0, <1>11 DEF AcceptStart, Served
  <2>2. \A t \in Socks : mpc # "wait" /\ st[t] \in Listening => st'[t] \in Listening
    BY <1>0, <1>11 DEF AcceptStart, Listening
  <2>3. UNCHANGED <<connVars, mainVars>>
    BY <1>11 DEF AcceptStart
  <2> QED
    BY <1>0, <2>1, <2>2, <2>3, TaskConn
<1>12. CASE AcceptCheck(s)
  <2>1. \A t \in Socks : st'[t] \in Served <=> st[t] \in Served
    BY <1>0, <1>12 DEF AcceptCheck, WaitAgain, AcceptReturn, CallState, Served
  <2>2. \A t \in Socks : mpc # "wait" /\ st[t] \in Listening => st'[t] \in Listening
    BY <1>0, <1>12 DEF AcceptCheck, WaitAgain, AcceptReturn, CallState, Listening
  <2>3. UNCHANGED <<connVars, mainVars>>
    BY <1>12 DEF AcceptCheck
  <2> QED
    BY <1>0, <2>1, <2>2, <2>3, TaskConn
<1>13. CASE CreateTCP(s)
  <2>1. \A t \in Socks : st'[t] \in Served <=> st[t] \in Served
    BY <1>0, <1>13 DEF CreateTCP, SockAlloc, FreeSlots, UnusedNull, Served
  <2>2. \A t \in Socks : mpc # "wait" /\ st[t] \in Listening => st'[t] \in Listening
    BY <1>0, <1>13 DEF CreateTCP, SockAlloc, FreeSlots, UnusedNull, Listening
  <2>3. UNCHANGED <<connVars, mainVars>>
    BY <1>13 DEF CreateTCP
  <2> QED
    BY <1>0, <2>1, <2>2, <2>3, TaskConn
<1>14. CASE ConnectCheck(s)
  <2>1. \A t \in Socks : st'[t] \in Served <=> st[t] \in Served
    BY <1>0, <1>14 DEF ConnectCheck, WaitAgain, ClearSock, CallState, Gone, Served
  <2>2. \A t \in Socks : mpc # "wait" /\ st[t] \in Listening => st'[t] \in Listening
    BY <1>0, <1>14 DEF ConnectCheck, WaitAgain, ClearSock, CallState, Gone, Listening
  <2>3. UNCHANGED <<connVars, mainVars>>
    BY <1>14 DEF ConnectCheck
  <2> QED
    BY <1>0, <2>1, <2>2, <2>3, TaskConn
<1>15. CASE CreateFail(s)
  <2>1. \A t \in Socks : st'[t] \in Served <=> st[t] \in Served
    BY <1>0, <1>15 DEF CreateFail, SockFree, ClearSock, CallState, Served
  <2>2. \A t \in Socks : mpc # "wait" /\ st[t] \in Listening => st'[t] \in Listening
    BY <1>0, <1>15 DEF CreateFail, SockFree, ClearSock, CallState, Listening
  <2>3. UNCHANGED <<connVars, mainVars>>
    BY <1>15 DEF CreateFail
  <2> QED
    BY <1>0, <2>1, <2>2, <2>3, TaskConn
<1>16. CASE ConnectStart(s)
  <2>1. mpc = "wait" /\ UNCHANGED mainVars /\ call[s] = "create" /\ st[s] = "UNDEF_TCP"
    BY <1>0, <1>16 DEF ConnectStart, UipFree, CallState
  <2>2. CASE Spare = {} /\ SockFree(s) /\ UNCHANGED connVars
    <3>1. \A t \in Socks : st'[t] \in Served <=> st[t] \in Served
      BY <1>0, <2>1, <2>2 DEF SockFree, ClearSock, Served
    <3> QED
      BY <1>0, <2>1, <2>2, <3>1, TaskConn
  <2>3. ASSUME NEW c \in Spare, NewConn(c, "SYN_SENT", NoPort), file' = [file EXCEPT ![c] = s],
               st' = [st EXCEPT ![s] = "CONNECT"]
        PROVE  ConnPart'
    <3>1. c \in Conns /\ tcp[c] \in {"CLOSED", "FINISHING"}
      BY DEF Spare
    <3>2. file[c] = NoSock
      BY <1>0, <2>1, <3>1 DEF ConnPart, SpareHasNoFile
    <3>3. tcp \in [Conns -> TcpStates] /\ tcp' = [tcp EXCEPT ![c] = "SYN_SENT"]
      BY <1>0, <2>3 DEF NewConn, TypeOK, ConnTypes
    <3>4. \A t \in Socks : st'[t] \in Served <=> st[t] \in Served \/ t = s
      BY <1>0, <2>3 DEF Served
    <3>5. Alive(c)' /\ \A d \in Conns : d # c /\ Alive(d) => Alive(d)'
      BY <2>1, <3>1, <3>3
    <3>6. st[s] \notin Served
      BY <2>1 DEF Served
    <3>7. Attached'
      BY <1>0, <2>3, <3>1, <3>2, <3>4, <3>5, <3>6, AttachedNew DEF ConnPart
    <3>8. SpareHasNoFile' /\ EstablishedHasSocket'
      BY <1>0, <2>1, <2>3, <3>1, <3>3 DEF ConnPart, SpareHasNoFile, EstablishedHasSocket, TypeOK,
         ConnTypes
    <3>9. AppcallState'
      BY <2>1 DEF AppcallState, UpcallFlags, UpcallConn, UpcallFile
    <3> QED
      BY <3>7, <3>8, <3>9 DEF ConnPart
  <2> QED
    BY <1>16, <2>2, <2>3 DEF ConnectStart
<1> QED
  BY <1>1, <1>2, <1>3, <1>4, <1>5, <1>6, <1>7, <1>8, <1>9, <1>10, <1>11, <1>12, <1>13, <1>14,
     <1>15, <1>16 DEF Task

-----------------------------------------------------------------------------
(* The main loop, and uip_process up to its appcall *)

Between == {"wait", "clear", "scan", "next"}

\* Nobody is called upon; at most a connection without a socket moves on.
LEMMA QuietConn ==
  ASSUME TypeOK, ConnPart, mpc \in Between, mpc' \in Between, UNCHANGED <<file, st>>,
         \A c \in Conns : \/ tcp'[c] = tcp[c]
                          \/ /\ tcp[c] \in {"CLOSED", "FINISHING"}
                             /\ tcp'[c] \in {"CLOSED", "SYN_RCVD"}
  PROVE  ConnPart'
<1> USE DEF ConnPart, Between
<1>1. \A c \in Conns : file[c] # NoSock /\ Alive(c) => Alive(c)'
  OBVIOUS
<1>2. Attached'
  BY <1>1, AttachedSame
<1>3. SpareHasNoFile'
  BY DEF SpareHasNoFile
<1>4. EstablishedHasSocket'
  BY DEF EstablishedHasSocket
<1>5. AppcallState'
  BY DEF AppcallState, UpcallFlags, UpcallConn, UpcallFile
<1> QED
  BY <1>2, <1>3, <1>4, <1>5

\* uip_process calls upon the application about connection c.
LEMMA CallUp ==
  ASSUME TypeOK, TypeOK', ConnPart, mpc = "scan", mpc' = "appcall", UNCHANGED <<file, st>>,
         NEW c \in Conns, ci' = c, \A d \in Conns : d # c => tcp'[d] = tcp[d],
         Told', dataLeft' # 0 => "NEWDATA" \in flags',
         after' \in {"appsend", "apprexmit", "lastack"} => tcp'[c] = "ESTABLISHED",
         after' = "drop" => tcp'[c] = "CLOSED",
         after' \in {"appsend", "apprexmit"} /\ "CONNECTED" \notin flags' => file[c] # NoSock
  PROVE  ConnPart'
<1> USE DEF ConnPart
<1>1. \A d \in Conns : file[d] # NoSock /\ Alive(d) => Alive(d)'
  OBVIOUS
<1>2. Attached'
  BY <1>1, AttachedSame
<1>3. SpareHasNoFile'
  BY DEF SpareHasNoFile
<1>4. EstablishedHasSocket'
  BY DEF EstablishedHasSocket
<1>5. AppcallState'
  BY DEF AppcallState, UpcallFlags, UpcallConn, UpcallFile
<1> QED
  BY <1>2, <1>3, <1>4, <1>5

\* The main loop, input and timers keep them paired.
LEMMA AttachedLoop ==
  ASSUME TypeOK, ConnPart, MainLoop \/ Input \/ TimerStep
  PROVE  ConnPart'
<1> USE DEF NotUip, Appcall, Quiet, Scanning
<1>0. /\ TypeOK' /\ ci \in Conns /\ tcp \in [Conns -> TcpStates]
      /\ \A c \in Conns : mpc = "scan" /\ tcp[c] = "ESTABLISHED" => file[c] # NoSock
  BY TypeLoop DEF TypeOK, ConnTypes, MainTypes, ConnPart, EstablishedHasSocket
<1>1. CASE SemaWait \/ ClearRequest \/ NextConn \/ Skip \/ NoPacket
  <2>1. mpc \in Between /\ mpc' \in Between
    BY <1>1 DEF SemaWait, ClearRequest, NextConn, Skip, NoPacket, Between
  <2>2. UNCHANGED <<file, st, tcp>>
    BY <1>1 DEF SemaWait, ClearRequest, NextConn, Skip, NoPacket
  <2> QED
    BY <2>1, <2>2, QuietConn
<1>2. CASE Poll
  <2>1. /\ mpc = "scan" /\ mpc' = "appcall" /\ ci' = ci /\ UNCHANGED <<file, st>>
        /\ \A d \in Conns : d # ci => tcp'[d] = tcp[d]
    BY <1>0, <1>2 DEF Poll
  <2>2. Told' /\ (dataLeft' # 0 => "NEWDATA" \in flags')
    BY <1>2, LengthAssumption DEF Poll, Told
  <2>3. /\ after' \in {"appsend", "apprexmit", "lastack"} => tcp'[ci] = "ESTABLISHED"
        /\ after' = "drop" => tcp'[ci] = "CLOSED"
        /\ after' \in {"appsend", "apprexmit"} /\ "CONNECTED" \notin flags' => file[ci] # NoSock
    BY <1>0, <1>2 DEF Poll
  <2> QED
    BY <1>0, <2>1, <2>2, <2>3, CallUp
<1>3. ASSUME NEW c \in Conns, RecvSynAck(c)
       PROVE  ConnPart'
  <2>1. /\ mpc = "scan" /\ mpc' = "appcall" /\ ci' = c /\ UNCHANGED <<file, st>>
        /\ \A d \in Conns : d # c => tcp'[d] = tcp[d]
    BY <1>0, <1>3 DEF RecvSynAck
  <2>2. Told' /\ (dataLeft' # 0 => "NEWDATA" \in flags')
    BY <1>3, LengthAssumption DEF RecvSynAck, Told
  <2>3. /\ after' \in {"appsend", "apprexmit", "lastack"} => tcp'[c] = "ESTABLISHED"
        /\ after' = "drop" => tcp'[c] = "CLOSED"
        /\ after' \in {"appsend", "apprexmit"} /\ "CONNECTED" \notin flags' => file[c] # NoSock
    BY <1>0, <1>3 DEF RecvSynAck
  <2> QED
    BY <1>0, <2>1, <2>2, <2>3, CallUp
<1>4. ASSUME NEW c \in Conns, RecvSynSentBad(c)
       PROVE  ConnPart'
  <2>1. /\ mpc = "scan" /\ mpc' = "appcall" /\ ci' = c /\ UNCHANGED <<file, st>>
        /\ \A d \in Conns : d # c => tcp'[d] = tcp[d]
    BY <1>0, <1>4 DEF RecvSynSentBad
  <2>2. Told' /\ (dataLeft' # 0 => "NEWDATA" \in flags')
    BY <1>4, LengthAssumption DEF RecvSynSentBad, Told
  <2>3. /\ after' \in {"appsend", "apprexmit", "lastack"} => tcp'[c] = "ESTABLISHED"
        /\ after' = "drop" => tcp'[c] = "CLOSED"
        /\ after' \in {"appsend", "apprexmit"} /\ "CONNECTED" \notin flags' => file[c] # NoSock
    BY <1>0, <1>4 DEF RecvSynSentBad
  <2> QED
    BY <1>0, <2>1, <2>2, <2>3, CallUp
<1>5. ASSUME NEW c \in Conns, RecvRst(c)
       PROVE  ConnPart'
  <2>1. /\ mpc = "scan" /\ mpc' = "appcall" /\ ci' = c /\ UNCHANGED <<file, st>>
        /\ \A d \in Conns : d # c => tcp'[d] = tcp[d]
    BY <1>0, <1>5 DEF RecvRst
  <2>2. Told' /\ (dataLeft' # 0 => "NEWDATA" \in flags')
    BY <1>5, LengthAssumption DEF RecvRst, Told
  <2>3. /\ after' \in {"appsend", "apprexmit", "lastack"} => tcp'[c] = "ESTABLISHED"
        /\ after' = "drop" => tcp'[c] = "CLOSED"
        /\ after' \in {"appsend", "apprexmit"} /\ "CONNECTED" \notin flags' => file[c] # NoSock
    BY <1>0, <1>5 DEF RecvRst
  <2> QED
    BY <1>0, <2>1, <2>2, <2>3, CallUp
<1>6. CASE TimerExpire
  <2>1. /\ mpc = "scan" /\ mpc' = "appcall" /\ ci' = ci /\ UNCHANGED <<file, st>>
        /\ \A d \in Conns : d # ci => tcp'[d] = tcp[d]
    BY <1>0, <1>6 DEF TimerExpire
  <2>2. Told' /\ (dataLeft' # 0 => "NEWDATA" \in flags')
    BY <1>6, LengthAssumption DEF TimerExpire, Told
  <2>3. /\ after' \in {"appsend", "apprexmit", "lastack"} => tcp'[ci] = "ESTABLISHED"
        /\ after' = "drop" => tcp'[ci] = "CLOSED"
        /\ after' \in {"appsend", "apprexmit"} /\ "CONNECTED" \notin flags' => file[ci] # NoSock
    BY <1>0, <1>6 DEF TimerExpire
  <2> QED
    BY <1>0, <2>1, <2>2, <2>3, CallUp
<1>7. ASSUME NEW c \in Conns, NEW n \in SegLens \cup {0}, RecvSynRcvd(c, n)
       PROVE  ConnPart'
  <2>1. /\ mpc = "scan" /\ mpc' = "appcall" /\ ci' = c /\ UNCHANGED <<file, st>>
        /\ \A d \in Conns : d # c => tcp'[d] = tcp[d]
    BY <1>0, <1>7 DEF RecvSynRcvd
  <2>2. Told' /\ (dataLeft' # 0 => "NEWDATA" \in flags')
    BY <1>7, LengthAssumption DEF RecvSynRcvd, NewData, Told
  <2>3. /\ after' \in {"appsend", "apprexmit", "lastack"} => tcp'[c] = "ESTABLISHED"
        /\ after' = "drop" => tcp'[c] = "CLOSED"
        /\ after' \in {"appsend", "apprexmit"} /\ "CONNECTED" \notin flags' => file[c] # NoSock
    BY <1>0, <1>7 DEF RecvSynRcvd
  <2> QED
    BY <1>0, <2>1, <2>2, <2>3, CallUp
<1>8. ASSUME NEW c \in Conns, NEW n \in SegLens \cup {0}, NEW acks \in BOOLEAN,
              RecvFin(c, n, acks)
       PROVE  ConnPart'
  <2>1. /\ mpc = "scan" /\ mpc' = "appcall" /\ ci' = c /\ UNCHANGED <<file, st>>
        /\ \A d \in Conns : d # c => tcp'[d] = tcp[d]
    BY <1>0, <1>8 DEF RecvFin
  <2>2. Told' /\ (dataLeft' # 0 => "NEWDATA" \in flags')
    <3>1. /\ dataLeft' = n /\ after' = "lastack"
          /\ flags' = {"CLOSE"} \cup NewData(n) \cup AckData(acks)
      BY <1>8 DEF RecvFin
    <3>2. Told'
      BY <3>1 DEF NewData, AckData, Told
    <3>3. dataLeft' # 0 => "NEWDATA" \in flags'
      BY <3>1, LengthAssumption DEF NewData
    <3> QED
      BY <3>2, <3>3
  <2>3. /\ after' \in {"appsend", "apprexmit", "lastack"} => tcp'[c] = "ESTABLISHED"
        /\ after' = "drop" => tcp'[c] = "CLOSED"
        /\ after' \in {"appsend", "apprexmit"} /\ "CONNECTED" \notin flags' => file[c] # NoSock
    BY <1>0, <1>8 DEF RecvFin
  <2> QED
    BY <1>0, <2>1, <2>2, <2>3, CallUp
<1>9. CASE TimerRexmit
  <2>1. CASE tcp[ci] = "ESTABLISHED"
    <3>1. /\ mpc = "scan" /\ mpc' = "appcall" /\ ci' = ci /\ UNCHANGED <<file, st, tcp>>
          /\ Told' /\ after' = "apprexmit" /\ dataLeft' = 0
      BY <1>9, <2>1 DEF TimerRexmit, Told
    <3> QED
      BY <1>0, <2>1, <3>1, CallUp
  <2>2. CASE tcp[ci] # "ESTABLISHED"
    BY <1>9, <2>2, QuietConn DEF TimerRexmit, Between
  <2> QED
    BY <2>1, <2>2
<1>10. ASSUME NEW c \in Conns, NEW n \in SegLens \cup {0}, NEW acks \in BOOLEAN,
              RecvData(c, n, acks)
       PROVE  ConnPart'
  <2>1. CASE n > 0 \/ acks
    <3>1. /\ mpc = "scan" /\ mpc' = "appcall" /\ ci' = c /\ UNCHANGED <<file, st, tcp>>
          /\ after' = "appsend" /\ tcp[c] = "ESTABLISHED"
      BY <1>10, <2>1 DEF RecvData
    <3>2. dataLeft' = n /\ flags' = NewData(n) \cup AckData(acks)
      BY <1>10, <2>1 DEF RecvData
    <3>3. Told'
      BY <3>1, <3>2 DEF NewData, AckData, Told
    <3>4. dataLeft' # 0 => "NEWDATA" \in flags'
      BY <3>2, LengthAssumption DEF NewData
    <3> QED
      BY <1>0, <3>1, <3>3, <3>4, CallUp
  <2>2. CASE ~(n > 0 \/ acks)
    BY <1>10, <2>2, QuietConn DEF RecvData, Between
  <2> QED
    BY <2>1, <2>2
<1>11. ASSUME NEW c \in Conns, NEW p \in Ports, RecvSyn(c, p)
       PROVE  ConnPart'
  <2>1. tcp[c] \in {"CLOSED", "FINISHING"} /\ tcp' = [tcp EXCEPT ![c] = "SYN_RCVD"]
    BY <1>11 DEF RecvSyn, Spare, NewConn
  <2>2. mpc \in Between /\ mpc' \in Between /\ UNCHANGED <<file, st>>
    BY <1>11 DEF RecvSyn, Between
  <2> QED
    BY <1>0, <2>1, <2>2, QuietConn
<1>12. ASSUME NEW c \in Conns, Finish(c)
       PROVE  ConnPart'
  <2>1. tcp[c] = "FINISHING" /\ tcp' = [tcp EXCEPT ![c] = "CLOSED"]
    BY <1>12 DEF Finish
  <2>2. mpc \in Between /\ mpc' \in Between /\ UNCHANGED <<file, st>>
    BY <1>12 DEF Finish, Between
  <2> QED
    BY <1>0, <2>1, <2>2, QuietConn
<1> QED
  BY <1>0, <1>1, <1>2, <1>3, <1>4, <1>5, <1>6, <1>7, <1>8, <1>9, <1>10, <1>11, <1>12 DEF
     MainLoop, Input, TimerStep

-----------------------------------------------------------------------------
(* netTcpAppcall *)

\* One step of an appcall: uip_process waits, and only its own connection may
\* get or lose a file.
LEMMA WithinConn ==
  ASSUME TypeOK, TypeOK', ConnPart, InAppcall \/ mpc = "appcall",
         InAppcall' \/ mpc' = "after",
         UNCHANGED <<tcp, ci, after>>, \A c \in Conns : c # ci => file'[c] = file[c],
         Attached', UpcallFlags', UpcallFile'
  PROVE  ConnPart'
<1> USE DEF ConnPart
<1>1. SpareHasNoFile' /\ EstablishedHasSocket'
  BY DEF SpareHasNoFile, EstablishedHasSocket
<1>2. UpcallConn'
  BY DEF AppcallState, UpcallConn
<1> QED
  BY <1>1, <1>2 DEF AppcallState

\* A step that leaves the files alone and no socket in or out of service.
LEMMA SameFiles ==
  ASSUME TypeOK, TypeOK', ConnPart, InAppcall \/ mpc = "appcall",
         InAppcall' \/ mpc' = "after",
         UNCHANGED <<tcp, ci, after, file>>,
         \A s \in Socks : st'[s] \in Served <=> st[s] \in Served,
         UpcallFlags', UpcallFile'
  PROVE  ConnPart'
<1>1. Attached'
  BY AttachedSame DEF ConnPart
<1> QED
  BY <1>1, WithinConn

\* The search of an appcall for its socket keeps them paired.
LEMMA AttachedAppcall ==
  ASSUME TypeOK, ConnPart, UnusedNull, AppcallStep
  PROVE  ConnPart'
<1> USE DEF AppcallFrame, SameCall, SameSocks, Connected, Cur
<1>0. /\ TypeOK' /\ ci \in Conns /\ file \in [Conns -> Socks \cup {NoSock}]
      /\ st \in [Socks -> SockStates] /\ mpc \in MpcValues
      /\ UpcallFlags /\ UpcallFile
  BY TypeAppcall DEF TypeOK, ConnTypes, SockTypes, MainTypes, ConnPart, AppcallState
<1>1. CASE ConnectedRefuse \/ ListenFull \/ ListenExpire \/ \E s \in Socks : HookRefuse(s)
  <2>1. /\ mpc \in WithListener \cup {"appcall"}
        /\ mpc' = "after" /\ flags' = {"ABORT"} /\ "CONNECTED" \in flags
        /\ UNCHANGED <<tcp, ci, after, file, st>> /\ file[ci] = NoSock
    BY <1>0, <1>1 DEF ConnectedRefuse, ListenFull, ListenExpire, HookRefuse, ListenLocked, Abort,
       UpcallFile
  <2>2. after = "appsend"
    BY <1>0, <2>1 DEF UpcallFlags, Told, TypeOK, MainTypes
  <2>3. UpcallFlags' /\ UpcallFile'
    BY <1>0, <2>1, <2>2 DEF UpcallFlags, UpcallFile, Answered, Over, Stopped
  <2> QED
    BY <1>0, <2>1, <2>3, SameFiles
<1>2. CASE (\E s \in Socks : FindListener(s)) \/ ListenCheck \/ ListenWait
  <2>1. /\ mpc \in WithListener \cup {"appcall"}
        /\ mpc' \in WithListener
        /\ UNCHANGED <<tcp, ci, after, file, st, flags, dataLeft>>
        /\ "CONNECTED" \in flags /\ file[ci] = NoSock /\ st'[lsock'] \in Listening
    BY <1>0, <1>2 DEF FindListener, ListenCheck, ListenWait, MainWait, ListenLocked, UpcallFile,
       Listens
  <2>2. UpcallFlags'
    BY <1>0, <2>1 DEF UpcallFlags, Told
  <2>3. UpcallFile'
    BY <1>0, <2>1 DEF UpcallFile
  <2> QED
    BY <1>0, <2>1, <2>2, <2>3, SameFiles
<1>3. CASE NoSocket
  <2>1. /\ mpc = "appcall" /\ mpc' = "after"
        /\ UNCHANGED <<tcp, ci, after, file, st, flags>>
        /\ "CONNECTED" \notin flags /\ file[ci] = NoSock
    BY <1>3 DEF NoSocket
  <2>2. after \notin {"appsend", "apprexmit"}
    BY <1>0, <2>1 DEF UpcallFile
  <2>3. UpcallFlags' /\ UpcallFile'
    BY <1>0, <2>1, <2>2 DEF UpcallFlags, UpcallFile, Told, Over, TypeOK, MainTypes
  <2> QED
    BY <1>0, <2>1, <2>3, SameFiles
<1>4. CASE ConnectOk
  <2>1. /\ mpc = "appcall" /\ mpc' = "lock" /\ UNCHANGED <<tcp, ci, after, file, flags, dataLeft>>
        /\ "CONNECTED" \in flags /\ file[ci] # NoSock
    BY <1>4 DEF ConnectOk
  <2>2. \A s \in Socks : st'[s] \in Served <=> st[s] \in Served
    BY <1>0, <1>4 DEF ConnectOk, Announce, Served
  <2>3. UpcallFlags' /\ UpcallFile'
    BY <1>0, <2>1 DEF UpcallFlags, UpcallFile, Told
  <2> QED
    BY <1>0, <2>1, <2>2, <2>3, SameFiles
<1>5. CASE LockSock
  <2>1. /\ mpc = "lock" \/ mpc = "appcall"
        /\ mpc' = "body" /\ UNCHANGED <<tcp, ci, after, file, st, flags, dataLeft>>
        /\ msock' = file[ci]
    BY <1>5 DEF LockSock
  <2>2. UpcallFlags' /\ UpcallFile'
    BY <1>0, <2>1 DEF UpcallFlags, UpcallFile, Told
  <2> QED
    BY <1>0, <2>1, <2>2, SameFiles
<1>6. ASSUME NEW s \in Socks, HookAccept(s) \/ ListenAccept(s)
      PROVE  ConnPart'
  <2>1. /\ mpc \in WithListener \cup {"appcall"}
        /\ mpc' = "lock" /\ UNCHANGED <<tcp, ci, after, flags, dataLeft>>
        /\ file[ci] = NoSock /\ file' = [file EXCEPT ![ci] = s] /\ "CONNECTED" \in flags
        /\ ~used[s]
    BY <1>0, <1>6 DEF HookAccept, ListenAccept, NewSock, FreeSlots, ListenLocked, UpcallFile
  <2>2. st[s] = "NULL"
    BY <2>1 DEF UnusedNull
  <2>3. \A t \in Socks : st'[t] \in Served <=> st[t] \in Served \/ t = s
    BY <1>0, <1>6, <2>2 DEF HookAccept, ListenAccept, ListenLocked, Served
  <2>4. Attached'
    BY <1>0, <2>1, <2>2, <2>3, AttachedNew DEF ConnPart, Served
  <2>5. file'[ci'] # NoSock
    BY <1>0, <2>1, NullAssumption
  <2>6. UpcallFlags'
    BY <1>0, <2>1 DEF UpcallFlags, Told
  <2>7. UpcallFile'
    BY <2>1, <2>5 DEF UpcallFile
  <2> QED
    BY <1>0, <2>1, <2>4, <2>6, <2>7, WithinConn
<1> QED
  BY <1>1, <1>2, <1>3, <1>4, <1>5, <1>6 DEF AppcallStep

-----------------------------------------------------------------------------
(* netTcpAppcallMutex *)

\* So does each part of netTcpAppcallMutex.
LEMMA AttachedBody ==
  ASSUME TypeOK, ConnPart, BodyStep
  PROVE  ConnPart'
<1> USE DEF AppcallFrame, BodyFrame, SameCall, SameSocks
<1>0. /\ TypeOK' /\ ci \in Conns /\ file \in [Conns -> Socks \cup {NoSock}]
      /\ st \in [Socks -> SockStates] /\ mpc \in MpcValues
      /\ UpcallFlags /\ UpcallFile /\ (mpc \in WithSock => msock \in Socks /\ msock # NoSock)
  BY TypeBody, NullAssumption DEF TypeOK, ConnTypes, SockTypes, MainTypes, ConnPart, AppcallState
<1>1. CASE BodyAborted
  <2>1. /\ mpc = "body" /\ mpc' = "rx" /\ flags \cap Ended # {}
        /\ UNCHANGED <<tcp, ci, after, flags, dataLeft, msock>>
        /\ file' = [file EXCEPT ![ci] = NoSock] /\ st' = [st EXCEPT ![msock] = "PEER_ABORTED"]
    BY <1>1 DEF BodyAborted, AppcallClose, Announce, Ended
  <2>2. file[ci] = msock /\ msock \in Socks
    BY <1>0, <2>1 DEF UpcallFile
  <2>3. Attached'
    <3>1. \A t \in Socks : st'[t] \in Served <=> st[t] \in Served /\ t # msock
      BY <1>0, <2>1 DEF Served
    <3> QED
      BY <1>0, <2>1, <2>2, <3>1, AttachedDrop DEF ConnPart
  <2>4. UpcallFlags' /\ UpcallFile'
    BY <1>0, <2>1 DEF UpcallFlags, UpcallFile, Told
  <2> QED
    BY <1>0, <2>1, <2>3, <2>4, WithinConn
<1>2. CASE BodyAcked \/ BodyPlain
  <2>1. /\ mpc = "body" /\ mpc' = "rx" /\ flags \cap Ended = {}
        /\ UNCHANGED <<tcp, ci, after, file, flags, dataLeft, msock>>
    <3>1. CASE BodyAcked
      <4>1. flags \cap Ended = {}
        BY <1>0, <3>1 DEF BodyAcked, UpcallFlags, Told, Ended, TypeOK, MainTypes
      <4> QED
        BY <3>1, <4>1 DEF BodyAcked
    <3>2. CASE BodyPlain
      BY <3>2 DEF BodyPlain, Ended
    <3> QED
      BY <1>2, <3>1, <3>2
  <2>2. \A t \in Socks : st'[t] \in Served <=> st[t] \in Served
    BY <1>0, <1>2 DEF BodyAcked, BodyPlain, Announce, Served
  <2>3. UpcallFlags' /\ UpcallFile'
    BY <1>0, <2>1 DEF UpcallFlags, UpcallFile, Told
  <2> QED
    BY <1>0, <2>1, <2>2, <2>3, SameFiles
<1>3. CASE RxBlock \/ RxWait \/ RxLock
  <2>1. /\ mpc \in {"rx", "rxWait", "rxLock"} /\ mpc' \in {"rxWait", "rxLock", "rxExpired", "rx"}
        /\ mpc = "rx" => dataLeft # 0
        /\ UNCHANGED <<tcp, ci, after, file, flags, dataLeft, msock, st>>
    BY <1>3 DEF RxBlock, RxWait, RxLock, MainWait
  <2>2. "NEWDATA" \in flags /\ Told
    BY <1>0, <2>1 DEF UpcallFlags, UpcallFile
  <2>3. flags \cap Ended = {}
    BY <2>2 DEF Told, Ended, TypeOK, MainTypes
  <2>4. file[ci] = msock
    BY <1>0, <2>1, <2>3 DEF UpcallFile
  <2>5. UpcallFlags' /\ UpcallFile'
    BY <1>0, <2>1, <2>2, <2>3, <2>4 DEF UpcallFlags, UpcallFile, Told
  <2> QED
    BY <1>0, <2>1, <2>5, SameFiles
<1>4. CASE RxExpire
  <2>1. /\ mpc = "rxExpired" /\ mpc' = "tail" /\ flags' = {"ABORT"} /\ dataLeft' = 0
        /\ UNCHANGED <<tcp, ci, after, msock>>
        /\ file' = [file EXCEPT ![ci] = NoSock] /\ st' = [st EXCEPT ![msock] = "PEER_ABORTED"]
    BY <1>4 DEF RxExpire, AppcallClose, Announce
  <2>2. file[ci] = msock /\ msock \in Socks /\ "NEWDATA" \in flags /\ Told
    BY <1>0, <2>1 DEF UpcallFile, UpcallFlags
  <2>3. Attached'
    <3>1. \A t \in Socks : st'[t] \in Served <=> st[t] \in Served /\ t # msock
      BY <1>0, <2>1 DEF Served
    <3> QED
      BY <1>0, <2>1, <2>2, <3>1, AttachedDrop DEF ConnPart
  <2>4. after \in {"appsend", "lastack"}
    BY <2>2 DEF Told, TypeOK, MainTypes
  <2>5. UpcallFlags' /\ UpcallFile'
    BY <1>0, <2>1, <2>4 DEF UpcallFlags, UpcallFile, Answered, Ended
  <2> QED
    BY <1>0, <2>1, <2>3, <2>5, WithinConn
<1>5. CASE \/ RxRead
           \/ \E take, keep \in 0..dataLeft, nl \in BOOLEAN : RxLine(take, keep, nl)
  <2>1. /\ mpc = "rx" /\ mpc' = "rx" /\ dataLeft > 0
        /\ UNCHANGED <<tcp, ci, after, file, flags, msock>>
    BY <1>5 DEF RxRead, RxLine
  <2>2. dataLeft # 0
    BY <2>1
  <2>3. \A t \in Socks : st'[t] \in Served <=> st[t] \in Served
    BY <1>0, <1>5 DEF RxRead, RxLine, Announce, Served
  <2>4. UpcallFlags' /\ UpcallFile'
    BY <1>0, <2>1, <2>2 DEF UpcallFlags, UpcallFile, Told
  <2> QED
    BY <1>0, <2>1, <2>3, <2>4, SameFiles
<1>6. CASE RxDone
  <2>1. /\ mpc = "rx" /\ mpc' = "tail"
        /\ UNCHANGED <<tcp, ci, after, file, flags, msock, st>>
    BY <1>6 DEF RxDone
  <2>2. UpcallFlags' /\ UpcallFile'
    BY <1>0, <2>1 DEF UpcallFlags, UpcallFile, Told
  <2> QED
    BY <1>0, <2>1, <2>2, SameFiles
<1>7. CASE TailSend \/ TailPlain
  <2>1. /\ mpc = "tail" /\ mpc' = "after"
        /\ UNCHANGED <<tcp, ci, after, file, flags, msock, st>>
        /\ flags \cap {"REXMIT", "CLOSE"} = {} \/ flags \cap {"REXMIT", "POLL"} # {}
    BY <1>7 DEF TailSend, TailPlain, TailUnlock
  <2>2. file[ci] = NoSock <=> Over
    <3>1. file[ci] = NoSock <=> flags \cap Ended # {}
      BY <1>0, <2>1 DEF UpcallFile
    <3>2. Told \/ (Answered /\ flags = {"ABORT"})
      BY <1>0, <2>1 DEF UpcallFlags
    <3> QED
      BY <2>1, <3>1, <3>2 DEF Told, Answered, Over, Ended, Stopped, TypeOK, MainTypes
  <2>3. UpcallFlags' /\ UpcallFile'
    BY <1>0, <2>1, <2>2 DEF UpcallFlags, UpcallFile, Told, Answered, Over
  <2> QED
    BY <1>0, <2>1, <2>3, SameFiles
<1>8. CASE TailPeerClosed \/ TailClose
  <2>1. /\ mpc = "tail" /\ mpc' = "after" /\ UNCHANGED <<tcp, ci, after>>
        /\ file' = [file EXCEPT ![ci] = NoSock]
        /\ \E state \in {"PEER_CLOSED", "CLOSE_OK"} : st' = [st EXCEPT ![msock] = state]
        /\ \/ "CLOSE" \in flags /\ flags' = flags
           \/ "POLL" \in flags /\ flags' = {"CLOSE"}
    BY <1>8 DEF TailPeerClosed, TailClose, TailUnlock, AppcallClose, Announce
  <2>2. Told /\ flags \cap Ended = {} /\ Over' /\ (Told' \/ Answered')
    <3>1. Told
      BY <1>0, <2>1 DEF UpcallFlags
    <3>2. CASE "CLOSE" \in flags /\ flags' = flags
      BY <2>1, <3>1, <3>2 DEF Told, Over, Ended, Stopped, TypeOK, MainTypes
    <3>3. CASE "POLL" \in flags /\ flags' = {"CLOSE"}
      BY <2>1, <3>1, <3>3 DEF Told, Answered, Over, Ended, Stopped, TypeOK, MainTypes
    <3> QED
      BY <2>1, <3>1, <3>2, <3>3
  <2>3. file[ci] = msock /\ msock \in Socks
    BY <1>0, <2>1, <2>2 DEF UpcallFile
  <2>4. Attached'
    <3>1. \A t \in Socks : st'[t] \in Served <=> st[t] \in Served /\ t # msock
      BY <1>0, <2>1 DEF Served
    <3> QED
      BY <1>0, <2>1, <2>3, <3>1, AttachedDrop DEF ConnPart
  <2>5. UpcallFlags' /\ UpcallFile'
    BY <1>0, <2>1, <2>2 DEF UpcallFlags, UpcallFile
  <2> QED
    BY <1>0, <2>1, <2>4, <2>5, WithinConn
<1> QED
  BY <1>1, <1>2, <1>3, <1>4, <1>5, <1>6, <1>7, <1>8 DEF BodyStep

-----------------------------------------------------------------------------
(* uip_process behind the appcall *)

\* So does what uip_process makes of the answer.
LEMMA AttachedAfter ==
  ASSUME TypeOK, ConnPart, AfterStep
  PROVE  ConnPart'
<1> USE DEF Resume, NotUip, ConnPart
<1>0. /\ mpc = "after" /\ mpc' = "next" /\ UNCHANGED <<file, st, ci>>
      /\ ci \in Conns /\ tcp \in [Conns -> TcpStates]
      /\ UpcallFlags /\ UpcallConn /\ UpcallFile
  BY DEF AfterStep, AppAbort, AppClose, AppSend, AppLastAck, AppSynFail, AppDrop, TypeOK,
     ConnTypes, MainTypes, AppcallState
<1>1. /\ file[ci] # NoSock => tcp'[ci] = "ESTABLISHED"
      /\ file[ci] = NoSock => tcp'[ci] \in {"CLOSED", "FINISHING"}
  <2>1. file[ci] = NoSock <=> Over
    BY <1>0 DEF UpcallFile
  <2>2. CASE AppAbort \/ AppClose \/ AppLastAck \/ AppSynFail
    BY <1>0, <2>1, <2>2 DEF AppAbort, AppClose, AppLastAck, AppSynFail, Over, Stopped
  <2>3. CASE AppSend
    BY <1>0, <2>1, <2>3 DEF AppSend, Over, Stopped, UpcallConn
  <2>4. CASE AppDrop
    <3>1. after = "apprexmit" => flags \cap Stopped = {}
      BY <1>0, <2>4 DEF AppDrop, UpcallFlags, Told, Answered, Stopped
    <3> QED
      BY <1>0, <2>1, <2>4, <3>1 DEF AppDrop, Over, UpcallConn
  <2> QED
    BY <2>2, <2>3, <2>4 DEF AfterStep
<1>2. \A c \in Conns : c # ci => tcp'[c] = tcp[c]
  BY <1>0 DEF AfterStep, AppAbort, AppClose, AppSend, AppLastAck, AppSynFail, AppDrop
<1>3. Attached'
  BY <1>0, <1>1, <1>2, AttachedSame
<1>4. SpareHasNoFile'
  BY <1>0, <1>1, <1>2 DEF SpareHasNoFile
<1>5. EstablishedHasSocket'
  BY <1>0, <1>1, <1>2 DEF EstablishedHasSocket
<1>6. AppcallState'
  BY <1>0 DEF AppcallState, UpcallFlags, UpcallConn, UpcallFile
<1> QED
  BY <1>3, <1>4, <1>5, <1>6

-----------------------------------------------------------------------------
(* The calls of the tasks and the states of their sockets *)

TaskPart == CallState /\ UnusedNull

\* A step that changes neither.
LEMMA SameCalls ==
  ASSUME TaskPart, UNCHANGED <<used, st, call>>
  PROVE  TaskPart'
  BY DEF TaskPart, CallState, UnusedNull

\* After a step of a task each socket's state fits the call that waits for it.
LEMMA CallsTask ==
  ASSUME NEW s \in Socks, Inductive, Task(s)
  PROVE  TaskPart'
<1> USE DEF Enter, Return, NotOurs, SameSlot
<1>0. /\ TaskPart /\ CallState /\ UnusedNull
      /\ st \in [Socks -> SockStates] /\ call \in [Socks -> TaskCalls]
      /\ used \in [Socks -> BOOLEAN]
  BY DEF Inductive, TaskPart, TypeOK, SockTypes, TaskTypes
<1>1. CASE FlagGet(s) \/ ReadTimeout(s)
  BY <1>0, <1>1, SameCalls DEF FlagGet, ReadTimeout
<1>2. CASE ReadCheck(s)
  <2>1. CallState'
    BY <1>0, <1>2 DEF ReadCheck, WaitAgain, ReadReturn, CallState, Gone
  <2>2. UnusedNull'
    BY <1>0, <1>2 DEF ReadCheck, WaitAgain, ReadReturn, CallState, UnusedNull
  <2> QED
    BY <2>1, <2>2 DEF TaskPart
<1>3. CASE WriteCheck(s)
  <2>1. CallState'
    BY <1>0, <1>3 DEF WriteCheck, WaitAgain, WriteReturn, CallState, Gone
  <2>2. UnusedNull'
    BY <1>0, <1>3 DEF WriteCheck, WaitAgain, WriteReturn, CallState, UnusedNull
  <2> QED
    BY <2>1, <2>2 DEF TaskPart
<1>4. ASSUME NEW state \in Reading, NEW m \in ReadMaxes, ReadStart(s, state, m)
       PROVE  TaskPart'
  <2>1. CallState'
    BY <1>0, <1>4 DEF ReadStart, Reading, CallState, Gone
  <2>2. UnusedNull'
    BY <1>0, <1>4 DEF ReadStart, Reading, CallState, UnusedNull
  <2> QED
    BY <2>1, <2>2 DEF TaskPart
<1>5. ASSUME NEW n \in WriteLens, WriteStart(s, n)
       PROVE  TaskPart'
  <2>1. CallState'
    BY <1>0, <1>5 DEF WriteStart, CallState, Gone
  <2>2. UnusedNull'
    BY <1>0, <1>5 DEF WriteStart, CallState, UnusedNull
  <2> QED
    BY <2>1, <2>2 DEF TaskPart
<1>6. CASE CloseStart(s)
  <2>1. CallState'
    BY <1>0, <1>6 DEF CloseStart, CallState, Gone
  <2>2. UnusedNull'
    BY <1>0, <1>6 DEF CloseStart, CallState, UnusedNull
  <2> QED
    BY <2>1, <2>2 DEF TaskPart
<1>7. CASE CloseCheck(s)
  <2>1. CallState'
    BY <1>0, <1>7 DEF CloseCheck, WaitAgain, SockFree, ClearSock, CallState, Gone
  <2>2. UnusedNull'
    BY <1>0, <1>7 DEF CloseCheck, WaitAgain, SockFree, ClearSock, CallState, UnusedNull
  <2> QED
    BY <2>1, <2>2 DEF TaskPart
<1>8. CASE CloseUnlisten(s)
  <2>1. CallState'
    BY <1>0, <1>8 DEF CloseUnlisten, SockFree, ClearSock, CallState, Gone
  <2>2. UnusedNull'
    BY <1>0, <1>8 DEF CloseUnlisten, SockFree, ClearSock, CallState, UnusedNull
  <2> QED
    BY <2>1, <2>2 DEF TaskPart
<1>9. ASSUME NEW p \in Ports, CreateTCPServer(s, p)
       PROVE  TaskPart'
  <2>1. CallState'
    BY <1>0, <1>9 DEF CreateTCPServer, SockAlloc, CallState, Gone
  <2>2. UnusedNull'
    BY <1>0, <1>9 DEF CreateTCPServer, SockAlloc, CallState, UnusedNull
  <2> QED
    BY <2>1, <2>2 DEF TaskPart
<1>10. CASE ListenMark(s)
  <2>1. CallState'
    BY <1>0, <1>10 DEF ListenMark, CallState, Gone
  <2>2. UnusedNull'
    BY <1>0, <1>10 DEF ListenMark, CallState, UnusedNull
  <2> QED
    BY <2>1, <2>2 DEF TaskPart
<1>11. CASE ListenUip(s)
  <2>1. CallState'
    BY <1>0, <1>11 DEF ListenUip, CallState, Gone
  <2>2. UnusedNull'
    BY <1>0, <1>11 DEF ListenUip, CallState, UnusedNull
  <2> QED
    BY <2>1, <2>2 DEF TaskPart
<1>12. CASE AcceptStart(s)
  <2>1. CallState'
    BY <1>0, <1>12 DEF AcceptStart, CallState, Gone
  <2>2. UnusedNull'
    BY <1>0, <1>12 DEF AcceptStart, CallState, UnusedNull
  <2> QED
    BY <2>1, <2>2 DEF TaskPart
<1>13. CASE AcceptCheck(s)
  <2>1. CallState'
    BY <1>0, <1>13 DEF AcceptCheck, WaitAgain, AcceptReturn, CallState, Gone
  <2>2. UnusedNull'
    <3>1. \A c \in Conns : file[c] # NoSock => used[file[c]] /\ file[c] \in Socks
      BY <1>0 DEF Inductive, Attached, UnusedNull, Served, TypeOK, ConnTypes
    <3>2. \A t \in Socks : ~used[t] => call'[t] = "none"
      BY <1>0, <1>13, <3>1, NullAssumption DEF AcceptCheck, WaitAgain, AcceptReturn, UnusedNull,
         Inductive, TypeOK, SockTypes
    <3>3. \A t \in Socks : ~used[t] => st'[t] = "NULL"
      BY <1>0, <1>13 DEF AcceptCheck, WaitAgain, AcceptReturn, UnusedNull
    <3> QED
      BY <1>13, <3>2, <3>3 DEF AcceptCheck, WaitAgain, AcceptReturn, UnusedNull
  <2> QED
    BY <2>1, <2>2 DEF TaskPart
<1>14. CASE CreateTCP(s)
  <2>1. CallState'
    BY <1>0, <1>14 DEF CreateTCP, SockAlloc, CallState, Gone
  <2>2. UnusedNull'
    BY <1>0, <1>14 DEF CreateTCP, SockAlloc, CallState, UnusedNull
  <2> QED
    BY <2>1, <2>2 DEF TaskPart
<1>15. CASE ConnectStart(s)
  <2>1. CallState'
    BY <1>0, <1>15 DEF ConnectStart, SockFree, ClearSock, CallState, Gone
  <2>2. UnusedNull'
    BY <1>0, <1>15 DEF ConnectStart, SockFree, ClearSock, CallState, UnusedNull
  <2> QED
    BY <2>1, <2>2 DEF TaskPart
<1>16. CASE ConnectCheck(s)
  <2>1. CallState'
    BY <1>0, <1>16 DEF ConnectCheck, WaitAgain, ClearSock, CallState, Gone
  <2>2. UnusedNull'
    BY <1>0, <1>16 DEF ConnectCheck, WaitAgain, ClearSock, CallState, UnusedNull
  <2> QED
    BY <2>1, <2>2 DEF TaskPart
<1>17. CASE CreateFail(s)
  <2>1. CallState'
    BY <1>0, <1>17 DEF CreateFail, SockFree, ClearSock, CallState, Gone
  <2>2. UnusedNull'
    BY <1>0, <1>17 DEF CreateFail, SockFree, ClearSock, CallState, UnusedNull
  <2> QED
    BY <2>1, <2>2 DEF TaskPart
<1> QED
  BY <1>1, <1>2, <1>3, <1>4, <1>5, <1>6, <1>7, <1>8, <1>9, <1>10, <1>11, <1>12, <1>13, <1>14,
     <1>15, <1>16, <1>17 DEF Task

\* So it does after a step of the main thread.
LEMMA CallsMain ==
  ASSUME Inductive, Main
  PROVE  TaskPart'
<1> USE DEF NotUip, Quiet, Appcall, AppcallFrame, BodyFrame, SameCall, SameSocks
<1>0. /\ TaskPart /\ CallState /\ UnusedNull
      /\ st \in [Socks -> SockStates] /\ call \in [Socks -> TaskCalls]
      /\ used \in [Socks -> BOOLEAN]
      /\ mpc \in WithSock => msock \in Socks
      /\ mpc \in WithListener => lsock \in Socks /\ st[lsock] \in Listening
      /\ mpc \in {"body", "rxExpired"} => file[ci] = msock
      /\ \A c \in Conns : file[c] # NoSock => st[file[c]] \in Served
      /\ ci \in Conns /\ file \in [Conns -> Socks \cup {NoSock}]
  BY DEF Inductive, TaskPart, TypeOK, SockTypes, TaskTypes, MainTypes, ConnTypes, AppcallState,
     UpcallFile, Attached
<1>1. CASE MainLoop \/ Input \/ TimerStep \/ AfterStep
  <2>1. UNCHANGED <<used, st, call>>
    <3>1. CASE MainLoop
      BY <3>1 DEF MainLoop, SemaWait, ClearRequest, NextConn, Poll, Skip
    <3>2. CASE Input \/ TimerStep
      BY <3>2 DEF Input, TimerStep, NoPacket, RecvSyn, RecvSynRcvd, RecvSynAck, RecvSynSentBad,
         RecvRst, RecvData, RecvFin, Finish, TimerRexmit, TimerExpire
    <3>3. CASE AfterStep
      BY <3>3 DEF AfterStep, AppAbort, AppClose, AppSend, AppLastAck, AppSynFail, AppDrop, Resume
    <3> QED
      BY <1>1, <3>1, <3>2, <3>3
  <2> QED
    BY <1>0, <2>1, SameCalls
<1>2. CASE ConnectedRefuse \/ ListenFull \/ ListenExpire \/ ListenCheck \/ ListenWait \/ NoSocket
           \/ LockSock \/ \E s \in Socks : FindListener(s)
  BY <1>0, <1>2, SameCalls DEF ConnectedRefuse, ListenFull, ListenExpire, ListenCheck, ListenWait,
     MainWait, NoSocket, LockSock, FindListener
<1>3. ASSUME NEW s \in Socks, HookRefuse(s)
      PROVE  TaskPart'
  BY <1>0, <1>3 DEF HookRefuse, TaskPart, CallState, UnusedNull
<1>4. ASSUME NEW s \in Socks, HookAccept(s)
      PROVE  TaskPart'
  BY <1>0, <1>4 DEF HookAccept, NewSock, FreeSlots, TaskPart, CallState, UnusedNull
<1>5. ASSUME NEW s \in Socks, ListenAccept(s)
      PROVE  TaskPart'
  <2>1. /\ lsock \in Socks /\ st[lsock] = "ACCEPTING" /\ ~used[s]
        /\ st' = [st EXCEPT ![s] = "BUSY", ![lsock] = "ACCEPTED"]
        /\ used' = [used EXCEPT ![s] = TRUE] /\ call' = call
    BY <1>0, <1>5 DEF ListenAccept, ListenLocked, NewSock, FreeSlots
  <2>2. s # lsock /\ call[s] = "none"
    BY <1>0, <2>1 DEF UnusedNull
  <2>3. CallState'
    <3>1. call[lsock] \notin {"read", "write", "connect", "close", "listen", "unlisten", "create",
                           "createFail"}
      BY <1>0, <2>1 DEF CallState, Reading, Gone
    <3>2. st'[lsock] = "ACCEPTED" /\ \A t \in Socks : t # s /\ t # lsock => st'[t] = st[t]
      BY <1>0, <2>1, <2>2
    <3> QED
      BY <1>0, <2>1, <2>2, <3>1, <3>2 DEF CallState
  <2>4. UnusedNull'
    BY <1>0, <2>1 DEF UnusedNull
  <2> QED
    BY <2>3, <2>4 DEF TaskPart
<1>6. CASE ConnectOk
  <2>1. file[ci] \in Socks
    BY <1>0, <1>6 DEF ConnectOk, Cur
  <2> QED
    BY <1>0, <1>6, <2>1 DEF ConnectOk, Cur, Announce, TaskPart, CallState, UnusedNull, Reading, Gone
<1>7. CASE BodyPlain \/ RxBlock \/ RxWait \/ RxLock \/ RxDone \/ TailSend \/ TailPlain
  BY <1>0, <1>7, SameCalls DEF BodyPlain, RxBlock, RxWait, MainWait, RxLock, RxDone, TailSend,
     TailPlain, TailUnlock
<1>8. CASE BodyAcked
  <2>1. /\ msock \in Socks /\ st[msock] = "WRITING" /\ UNCHANGED <<used, call>>
        /\ st' = st \/ st' = [st EXCEPT ![msock] = "WRITE_OK"]
    BY <1>0, <1>8 DEF BodyAcked, Announce
  <2> QED
    BY <1>0, <2>1 DEF TaskPart, CallState, UnusedNull, Reading, Gone
<1>9. CASE \/ RxRead
           \/ \E take, keep \in 0..dataLeft, nl \in BOOLEAN : RxLine(take, keep, nl)
  <2>1. /\ msock \in Socks /\ st[msock] \in Reading /\ UNCHANGED <<used, call>>
        /\ st' = st \/ st' = [st EXCEPT ![msock] = "READ_OK"]
    BY <1>0, <1>9 DEF RxRead, RxLine, Announce, Reading
  <2> QED
    BY <1>0, <2>1 DEF TaskPart, CallState, UnusedNull, Reading, Gone
<1>10. CASE BodyAborted \/ RxExpire \/ TailPeerClosed
  <2>1. /\ msock \in Socks /\ st[msock] \in Served /\ UNCHANGED <<used, call>>
        /\ \E state \in Gone : st' = [st EXCEPT ![msock] = state]
    <3>1. CASE BodyAborted \/ RxExpire
      BY <1>0, <3>1, NullAssumption
         DEF BodyAborted, RxExpire, AppcallClose, Announce, Gone
    <3>2. CASE TailPeerClosed
      <4>1. mpc = "tail" /\ "CLOSE" \in flags
        BY <3>2 DEF TailPeerClosed, TailUnlock
      <4>2. file[ci] = msock
        BY <4>1 DEF Inductive, AppcallState, UpcallFlags, UpcallFile, Told, Ended, TypeOK,
           MainTypes
      <4> QED
        BY <1>0, <3>2, <4>1, <4>2, NullAssumption
           DEF TailPeerClosed, TailUnlock, AppcallClose, Announce, Gone
    <3> QED
      BY <1>10, <3>1, <3>2
  <2> QED
    BY <1>0, <2>1 DEF TaskPart, CallState, UnusedNull, Reading, Gone, Served
<1>11. CASE TailClose
  <2>1. /\ msock \in Socks /\ st[msock] = "CLOSE" /\ UNCHANGED <<used, call>>
        /\ st' = [st EXCEPT ![msock] = "CLOSE_OK"]
    BY <1>0, <1>11 DEF TailClose, TailUnlock, AppcallClose, Announce
  <2> QED
    BY <1>0, <2>1 DEF TaskPart, CallState, UnusedNull, Reading, Gone
<1> QED
  BY <1>1, <1>2, <1>3, <1>4, <1>5, <1>6, <1>7, <1>8, <1>9, <1>10, <1>11
     DEF Main, AppcallStep, BodyStep

-----------------------------------------------------------------------------
LEMMA InductiveInit == Init => Inductive
<1> SUFFICES ASSUME Init
             PROVE  Inductive
  OBVIOUS
<1>1. Attached /\ SpareHasNoFile /\ EstablishedHasSocket
  BY NullAssumption DEF Init, Attached, SpareHasNoFile, EstablishedHasSocket, Served
<1>2. CallState /\ UnusedNull
  BY DEF Init, CallState, UnusedNull
<1>3. AppcallState
  BY DEF Init, AppcallState, UpcallFlags, UpcallConn, UpcallFile
<1> QED
  BY <1>1, <1>2, <1>3, TypeInit DEF Inductive

\* The inductive invariant holds after every step.
LEMMA InductiveNext == Inductive /\ [Next]_vars => Inductive'
<1> SUFFICES ASSUME Inductive, [Next]_vars
             PROVE  Inductive'
  OBVIOUS
<1>0. TypeOK /\ TypeOK' /\ ConnPart /\ TaskPart /\ UnusedNull
  BY TypeNext DEF Inductive, ConnPart, TaskPart
<1>1. CASE Interrupt \/ PeriodicTick \/ UNCHANGED vars
  <2>1. UNCHANGED <<sockVars, taskVars, connVars, mainVars>>
    BY <1>1 DEF Interrupt, PeriodicTick
  <2> QED
    BY <1>0, <2>1, TaskConn, SameCalls DEF Inductive, ConnPart, TaskPart
<1>2. ASSUME NEW s \in Socks, Task(s)
      PROVE  Inductive'
  BY <1>0, <1>2, AttachedTask, CallsTask DEF Inductive, ConnPart, TaskPart
<1>3. CASE Main
  <2>1. ConnPart'
    BY <1>0, <1>3, AttachedLoop, AttachedAppcall, AttachedBody, AttachedAfter DEF Main
  <2> QED
    BY <1>0, <1>3, <2>1, CallsMain DEF Inductive, ConnPart, TaskPart
<1> QED
  BY <1>1, <1>2, <1>3 DEF Next

\* A socket in service has exactly one connection, alive until the socket has
\* been told otherwise, and a freed socket is never the file of any.
THEOREM AttachedAlways == Spec => []Attached
<1>1. Spec => []Inductive
  BY InductiveInit, InductiveNext, PTL DEF Spec
<1>2. Inductive => Attached
  BY DEF Inductive
<1> QED
  BY <1>1, <1>2, PTL

\* uIP never goes on with an established connection that has no socket.
THEOREM EstablishedAlways == Spec => []EstablishedHasSocket
<1>1. Spec => []Inductive
  BY InductiveInit, InductiveNext, PTL DEF Spec
<1>2. Inductive => EstablishedHasSocket
  BY DEF Inductive
<1> QED
  BY <1>1, <1>2, PTL

-----------------------------------------------------------------------------
(***************************************************************************)
(* Nobody works on a freed socket and nobody sleeps through an answer: the *)
(* mutexes and the flags of the sockets.  A socket is a rendezvous of its  *)
(* task with the network.                                                  *)
(***************************************************************************)
USE DEF InAppcall, Upcall

\* What the socket layer rests on.
THEOREM InductiveAlways == Spec => []Inductive
  BY InductiveInit, InductiveNext, PTL DEF Spec

\* What every proof about a step begins with.
LEMMA InductiveTypes ==
  ASSUME Inductive
  PROVE  /\ used \in [Socks -> BOOLEAN] /\ st \in [Socks -> SockStates]
         /\ mutex \in [Socks -> {"null", "free", "app", "main"}]
         /\ sockChange \in [Socks -> BOOLEAN] /\ uipChange \in [Socks -> BOOLEAN]
         /\ len \in [Socks -> Nat] /\ max \in [Socks -> Nat]
         /\ call \in [Socks -> TaskCalls] /\ wake \in [Socks -> {"wait", "woken", "expired"}]
         /\ tcp \in [Conns -> TcpStates] /\ file \in [Conns -> Socks \cup {NoSock}]
         /\ out \in [Conns -> Nat] /\ mss \in [Conns -> Windows]
         /\ ci \in Conns /\ dataLeft \in Nat /\ slen \in Nat
         /\ (mpc \in WithSock => msock \in Socks) /\ (mpc \in WithListener => lsock \in Socks)
         /\ owed \in [Socks -> Int] /\ resized \in [Socks -> BOOLEAN]
         /\ unread \in [Socks -> Int]
  BY DEF Inductive, TypeOK, SockTypes, TaskTypes, ConnTypes, MainTypes, GhostTypes

-----------------------------------------------------------------------------
(* Mutexes *)

\* A step that leaves mutexes, slots and the place of the main thread alone.
LEMMA MutexSame ==
  ASSUME MutexState, UNCHANGED <<used, mutex, mpc, msock>>,
         \A s \in Socks : mutex[s] = "null" => st'[s] = st[s],
         \A s \in Socks : call'[s] = "createFail" => call[s] = "createFail"
  PROVE  MutexState'
  BY DEF MutexState

\* A task takes its own mutex only, and only when it is free or its own.
LEMMA MutexTask ==
  ASSUME NEW s \in Socks, Inductive, MutexState, Task(s)
  PROVE  MutexState'
<1> USE DEF Enter, Return, NotOurs, SameSlot
<1>0. /\ used \in [Socks -> BOOLEAN] /\ st \in [Socks -> SockStates]
      /\ mutex \in [Socks -> {"null", "free", "app", "main"}]
      /\ call \in [Socks -> TaskCalls] /\ CallState /\ UnusedNull
      /\ (mpc \in WithSock => msock \in Socks)
      /\ UNCHANGED <<mpc, msock>>
  <2>1. UNCHANGED <<mpc, msock>>
    BY DEF Task, FlagGet, ReadTimeout, ReadCheck, WriteCheck, ReadStart, WriteStart, CloseStart,
       CloseCheck, CloseUnlisten, CreateTCPServer, ListenMark, ListenUip, AcceptStart, AcceptCheck,
       CreateTCP, ConnectStart, ConnectCheck, CreateFail
  <2> QED
    BY <2>1, InductiveTypes DEF Inductive
<1>1. CASE FlagGet(s) \/ ReadTimeout(s) \/ ListenUip(s)
  BY <1>0, <1>1, MutexSame DEF FlagGet, ReadTimeout, ListenUip
<1>2. CASE ReadCheck(s) \/ WriteCheck(s)
  BY <1>0, <1>2, MutexSame DEF ReadCheck, WriteCheck, WaitAgain, ReadReturn, WriteReturn, TaskLocks
<1>3. CASE \/ \E state \in Reading, m \in ReadMaxes : ReadStart(s, state, m)
           \/ \E n \in WriteLens : WriteStart(s, n)
           \/ CloseStart(s) \/ ListenMark(s) \/ AcceptStart(s)
  BY <1>0, <1>3, MutexSame DEF ReadStart, WriteStart, CloseStart, ListenMark, AcceptStart, TaskLocks
<1>4. CASE AcceptCheck(s)
  BY <1>0, <1>4, MutexSame DEF AcceptCheck, WaitAgain, AcceptReturn, TaskLocks
<1>5. CASE CloseCheck(s)
  BY <1>0, <1>5 DEF CloseCheck, WaitAgain, SockFree, ClearSock, TaskLocks, MutexState
<1>6. CASE CloseUnlisten(s)
  BY <1>0, <1>6 DEF CloseUnlisten, UipFree, SockFree, ClearSock, MutexState
<1>7. CASE CreateTCP(s) \/ \E p \in Ports : CreateTCPServer(s, p)
  BY <1>0, <1>7 DEF CreateTCP, CreateTCPServer, SockAlloc, FreeSlots, UnusedNull, MutexState
<1>8. CASE ConnectStart(s)
  <2>1. mpc = "wait" /\ mutex[s] # "null" /\ call[s] # "createFail"
    BY <1>0, <1>8 DEF ConnectStart, UipFree, CallState, MutexState
  <2> QED
    BY <1>0, <1>8, <2>1 DEF ConnectStart, SockFree, ClearSock, MutexState
<1>9. CASE ConnectCheck(s)
  BY <1>0, <1>9 DEF ConnectCheck, WaitAgain, ClearSock, TaskLocks, MutexState
<1>10. CASE CreateFail(s)
  BY <1>0, <1>10 DEF CreateFail, SockFree, ClearSock, MutexState
<1> QED
  BY <1>1, <1>2, <1>3, <1>4, <1>5, <1>6, <1>7, <1>8, <1>9, <1>10 DEF Task

\* The main loop and uip_process leave the sockets alone.
LEMMA MainElsewhere ==
  ASSUME MainLoop \/ Input \/ TimerStep \/ AfterStep
  PROVE  UNCHANGED <<sockVars, taskVars>> /\ mpc' \in {"wait", "clear", "scan", "next", "appcall"}
<1> USE DEF NotUip, Quiet, Appcall
<1>1. CASE MainLoop
  BY <1>1 DEF MainLoop, SemaWait, ClearRequest, NextConn, Poll, Skip
<1>2. CASE Input \/ TimerStep
  BY <1>2 DEF Input, TimerStep, NoPacket, RecvSyn, RecvSynRcvd, RecvSynAck, RecvSynSentBad, RecvRst,
     RecvData, RecvFin, Finish, TimerRexmit, TimerExpire
<1>3. CASE AfterStep
  BY <1>3 DEF AfterStep, AppAbort, AppClose, AppSend, AppLastAck, AppSynFail, AppDrop, Resume
<1> QED
  BY <1>1, <1>2, <1>3

\* The main thread takes the mutex of a socket that is free, and changes a socket
\* only when it has its mutex.
LEMMA MutexMain ==
  ASSUME Inductive, MutexState, Main
  PROVE  MutexState'
<1> USE DEF AppcallFrame, BodyFrame, SameCall, SameSocks, Connected, Cur
<1>0. /\ used \in [Socks -> BOOLEAN] /\ st \in [Socks -> SockStates]
      /\ mutex \in [Socks -> {"null", "free", "app", "main"}]
      /\ call \in [Socks -> TaskCalls] /\ UnusedNull
      /\ file \in [Conns -> Socks \cup {NoSock}] /\ ci \in Conns
      /\ (mpc \in WithSock => msock \in Socks) /\ (mpc \in WithListener => lsock \in Socks)
  BY InductiveTypes DEF Inductive
<1>1. CASE MainLoop \/ Input \/ TimerStep \/ AfterStep
  BY <1>1, MainElsewhere DEF MutexState
<1>2. CASE ConnectedRefuse \/ ListenFull \/ ListenExpire \/ ListenCheck \/ ListenWait \/ NoSocket
           \/ \E s \in Socks : HookRefuse(s) \/ FindListener(s)
  BY <1>0, <1>2 DEF ConnectedRefuse, ListenFull, ListenExpire, ListenCheck, ListenLocked, ListenWait,
     MainWait, NoSocket, HookRefuse, FindListener, Abort, MutexState
<1>3. ASSUME NEW s \in Socks, HookAccept(s) \/ ListenAccept(s)
      PROVE  MutexState'
  <2>1. ~used[s] /\ call[s] = "none" /\ st[s] = "NULL"
    BY <1>3 DEF HookAccept, ListenAccept, NewSock, FreeSlots, UnusedNull, Inductive
  <2>2. /\ mpc' = "lock" /\ used' = [used EXCEPT ![s] = TRUE]
        /\ mutex' = [mutex EXCEPT ![s] = "free"]
        /\ \A t \in Socks : call'[t] = call[t] \/ call'[t] = "idle"
    BY <1>0, <1>3 DEF HookAccept, ListenAccept, NewSock
  <2>3. \A t \in Socks : mutex[t] = "null" /\ t # s => st'[t] = st[t]
    BY <1>0, <1>3, <2>1 DEF HookAccept, ListenAccept, ListenLocked, NewSock
  <2> QED
    BY <1>0, <2>1, <2>2, <2>3 DEF MutexState
<1>4. CASE ConnectOk \/ LockSock
  BY <1>0, <1>4 DEF ConnectOk, Announce, LockSock, MutexState
<1>5. CASE BodyAborted \/ BodyAcked \/ BodyPlain
  BY <1>0, <1>5 DEF BodyAborted, BodyAcked, BodyPlain, AppcallClose, Announce, MutexState
<1>6. CASE RxBlock \/ RxWait \/ RxLock \/ RxExpire \/ RxDone
  BY <1>0, <1>6 DEF RxBlock, RxWait, MainWait, RxLock, RxExpire, RxDone, AppcallClose, Announce,
     MutexState
<1>7. CASE RxRead \/ \E take, keep \in 0..dataLeft, nl \in BOOLEAN : RxLine(take, keep, nl)
  BY <1>0, <1>7 DEF RxRead, RxLine, Announce, MutexState
<1>8. CASE TailSend \/ TailPeerClosed \/ TailClose \/ TailPlain
  BY <1>0, <1>8 DEF TailSend, TailPeerClosed, TailClose, TailPlain, TailUnlock, AppcallClose, Announce,
     MutexState
<1> QED
  BY <1>1, <1>2, <1>3, <1>4, <1>5, <1>6, <1>7, <1>8 DEF Main, AppcallStep, BodyStep

\* No step breaks what is known of the mutexes.
LEMMA MutexNext == Inductive /\ MutexState /\ [Next]_vars => MutexState'
<1>1. ASSUME MutexState, Interrupt \/ PeriodicTick \/ UNCHANGED vars
      PROVE  MutexState'
  <2>1. UNCHANGED <<sockVars, taskVars, mainVars>>
    BY <1>1 DEF Interrupt, PeriodicTick
  <2> QED
    BY <1>1, <2>1, MutexSame
<1> QED
  BY <1>1, MutexTask, MutexMain DEF Next

\* What is known of the mutexes is always true.
LEMMA MutexAlways == Spec => []MutexState
<1>1. Init => MutexState
  BY DEF Init, MutexState
<1> QED
  BY <1>1, MutexNext, InductiveAlways, PTL DEF Spec

\* While netTcpAppcall works on a socket or on a listening one, across all its
\* waits with the mutexes released, no task frees it.
THEOREM NoUseAfterFreeAlways == Spec => []NoUseAfterFree
<1>1. Inductive /\ MutexState => NoUseAfterFree
  <2> SUFFICES ASSUME Inductive, MutexState
               PROVE  NoUseAfterFree
    OBVIOUS
  <2>1. mpc \in WithListener => mutex[lsock] # "null"
    BY InductiveTypes DEF Inductive, AppcallState, UpcallFile, MutexState, Listening
  <2>2. mpc \in {"rxWait", "rxLock", "rxExpired"} => mutex[msock] # "null"
    <3>1. mpc \in {"rxWait", "rxLock", "rxExpired"} => st[msock] \in Served
      BY InductiveTypes, NullAssumption DEF Inductive, AppcallState, UpcallFile, Attached
    <3> QED
      BY <3>1, InductiveTypes DEF MutexState, Served
  <2>3. mpc \in {"body", "rx", "tail"} => mutex[msock] # "null"
    BY DEF MutexState
  <2> QED
    BY <2>1, <2>2, <2>3 DEF NoUseAfterFree
<1> QED
  BY <1>1, InductiveAlways, MutexAlways, PTL

-----------------------------------------------------------------------------
(* Flags *)

\* A step that touches neither the waits of the tasks nor those of the main thread.
LEMMA WaitsSame ==
  ASSUME NoLostWakeup, UNCHANGED <<st, sockChange, uipChange, call, wake>>,
         mpc' \notin {"rxWait", "listenWait"} \/ UNCHANGED <<mpc, msock, lsock>>
  PROVE  NoLostWakeup'
  BY DEF NoLostWakeup

\* A task asks before it waits, and raises the flag of whoever waits for it.
LEMMA WaitsTask ==
  ASSUME NEW s \in Socks, Inductive, NoLostWakeup, Task(s)
  PROVE  NoLostWakeup'
<1> USE DEF Enter, Return, NotOurs, SameSlot, Waiting
<1>0. /\ st \in [Socks -> SockStates] /\ sockChange \in [Socks -> BOOLEAN]
      /\ uipChange \in [Socks -> BOOLEAN] /\ call \in [Socks -> TaskCalls]
      /\ wake \in [Socks -> {"wait", "woken", "expired"}] /\ CallState
      /\ (mpc \in WithSock => msock \in Socks) /\ (mpc \in WithListener => lsock \in Socks)
  BY InductiveTypes DEF Inductive
<1>1. CASE FlagGet(s) \/ ReadTimeout(s) \/ ListenUip(s)
  BY <1>0, <1>1 DEF FlagGet, ReadTimeout, ListenUip, NoLostWakeup
<1>2. CASE ReadCheck(s)
  BY <1>0, <1>2 DEF ReadCheck, WaitAgain, ReadReturn, NoLostWakeup, Reading, Gone
<1>3. CASE WriteCheck(s)
  BY <1>0, <1>3 DEF WriteCheck, WaitAgain, WriteReturn, NoLostWakeup, Reading, Gone
<1>4. CASE \E state \in Reading, m \in ReadMaxes : ReadStart(s, state, m)
  BY <1>0, <1>4 DEF ReadStart, NoLostWakeup, Reading
<1>5. CASE \E n \in WriteLens : WriteStart(s, n)
  BY <1>0, <1>5 DEF WriteStart, NoLostWakeup, Reading
<1>6. CASE CloseStart(s)
  BY <1>0, <1>6 DEF CloseStart, NoLostWakeup, Reading
<1>7. CASE CloseCheck(s)
  BY <1>0, <1>7 DEF CloseCheck, WaitAgain, SockFree, ClearSock, NoLostWakeup, Reading
<1>8. CASE CloseUnlisten(s) \/ CreateFail(s)
  BY <1>0, <1>8 DEF CloseUnlisten, CreateFail, SockFree, ClearSock, NoLostWakeup, Reading
<1>9. CASE CreateTCP(s) \/ \E p \in Ports : CreateTCPServer(s, p)
  BY <1>0, <1>9 DEF CreateTCP, CreateTCPServer, SockAlloc, NoLostWakeup, Reading
<1>10. CASE ListenMark(s) \/ AcceptStart(s)
  BY <1>0, <1>10 DEF ListenMark, AcceptStart, NoLostWakeup, Reading
<1>11. CASE AcceptCheck(s)
  BY <1>0, <1>11 DEF AcceptCheck, WaitAgain, AcceptReturn, NoLostWakeup, Reading
<1>12. CASE ConnectStart(s)
  BY <1>0, <1>12 DEF ConnectStart, SockFree, ClearSock, NoLostWakeup, Reading
<1>13. CASE ConnectCheck(s)
  BY <1>0, <1>13 DEF ConnectCheck, WaitAgain, ClearSock, NoLostWakeup, Reading
<1> QED
  BY <1>1, <1>2, <1>3, <1>4, <1>5, <1>6, <1>7, <1>8, <1>9, <1>10, <1>11, <1>12, <1>13 DEF Task

\* The main thread raises the flag with every answer, and waits only after it has
\* seen that nobody asks.
LEMMA WaitsMain ==
  ASSUME Inductive, NoLostWakeup, Main
  PROVE  NoLostWakeup'
<1> USE DEF AppcallFrame, BodyFrame, SameCall, SameSocks, Connected, Cur
<1>0. /\ st \in [Socks -> SockStates] /\ sockChange \in [Socks -> BOOLEAN]
      /\ uipChange \in [Socks -> BOOLEAN] /\ call \in [Socks -> TaskCalls]
      /\ file \in [Conns -> Socks \cup {NoSock}] /\ ci \in Conns
      /\ (mpc \in WithSock => msock \in Socks) /\ (mpc \in WithListener => lsock \in Socks)
      /\ UnusedNull
  BY InductiveTypes DEF Inductive
<1>1. CASE MainLoop \/ Input \/ TimerStep \/ AfterStep
  BY <1>1, MainElsewhere, WaitsSame
<1>2. CASE ConnectedRefuse \/ ListenFull \/ ListenExpire \/ NoSocket
           \/ \E s \in Socks : HookRefuse(s) \/ FindListener(s)
  BY <1>2, WaitsSame DEF ConnectedRefuse, ListenFull, ListenExpire, NoSocket, HookRefuse,
     FindListener, Abort
<1>3. CASE ListenCheck
  BY <1>3 DEF ListenCheck, NoLostWakeup
<1>4. CASE ListenWait \/ RxWait
  BY <1>4 DEF ListenWait, RxWait, MainWait, NoLostWakeup
<1>5. ASSUME NEW s \in Socks, HookAccept(s) \/ ListenAccept(s)
      PROVE  NoLostWakeup'
  <2>1. mpc' = "lock" /\ call[s] = "none" /\ UNCHANGED wake
    BY <1>5 DEF HookAccept, ListenAccept, NewSock, FreeSlots, UnusedNull, Inductive
  <2>2. CASE HookAccept(s)
    BY <1>0, <2>1, <2>2 DEF HookAccept, NewSock, NoLostWakeup, Waiting
  <2>3. CASE ListenAccept(s)
    BY <1>0, <2>1, <2>3 DEF ListenAccept, ListenLocked, NewSock, NoLostWakeup, Waiting
  <2> QED
    BY <1>5, <2>2, <2>3
<1>6. CASE ConnectOk \/ LockSock
  BY <1>0, <1>6 DEF ConnectOk, Announce, LockSock, NoLostWakeup
<1>7. CASE BodyAborted \/ BodyAcked \/ BodyPlain
  BY <1>0, <1>7 DEF BodyAborted, BodyAcked, BodyPlain, AppcallClose, Announce, NoLostWakeup
<1>8. CASE RxBlock \/ RxLock \/ RxExpire \/ RxDone
  BY <1>0, <1>8 DEF RxBlock, RxLock, RxExpire, RxDone, AppcallClose, Announce, NoLostWakeup
<1>9. CASE RxRead \/ \E take, keep \in 0..dataLeft, nl \in BOOLEAN : RxLine(take, keep, nl)
  BY <1>0, <1>9 DEF RxRead, RxLine, Announce, NoLostWakeup
<1>10. CASE TailSend \/ TailPeerClosed \/ TailClose \/ TailPlain
  BY <1>0, <1>10 DEF TailSend, TailPeerClosed, TailClose, TailPlain, TailUnlock, AppcallClose,
     Announce, NoLostWakeup
<1> QED
  BY <1>1, <1>2, <1>3, <1>4, <1>5, <1>6, <1>7, <1>8, <1>9, <1>10 DEF Main, AppcallStep, BodyStep

\* A task that waits without its flag is still to be answered, and the main thread
\* waits for a reader or an acceptor only while there is none.
THEOREM NoLostWakeupAlways == Spec => []NoLostWakeup
<1>1. Init => NoLostWakeup
  BY DEF Init, NoLostWakeup, Waiting
<1>2. Inductive /\ NoLostWakeup /\ [Next]_vars => NoLostWakeup'
  <2>1. ASSUME NoLostWakeup, Interrupt \/ PeriodicTick \/ UNCHANGED vars
        PROVE  NoLostWakeup'
    <3>1. UNCHANGED <<sockVars, taskVars, mainVars>>
      BY <2>1 DEF Interrupt, PeriodicTick
    <3> QED
      BY <2>1, <3>1, WaitsSame
  <2> QED
    BY <2>1, WaitsTask, WaitsMain DEF Next
<1> QED
  BY <1>1, <1>2, InductiveAlways, PTL DEF Spec

-----------------------------------------------------------------------------
(* The assertions *)

\* No step of a task breaks what the assertions need.
LEMMA AssertTask ==
  ASSUME "closeBound" \notin Calls, NEW s \in Socks, Inductive, AssertState, Task(s)
  PROVE  AssertState'
<1> USE DEF Enter, Return, NotOurs, SameSlot, Waiting
<1>0. /\ st \in [Socks -> SockStates] /\ call \in [Socks -> TaskCalls]
      /\ newConn \in [Socks -> Conns \cup {NoConn}] /\ CallState
  BY InductiveTypes DEF Inductive, TypeOK, SockTypes
<1>1. CASE FlagGet(s) \/ ReadTimeout(s) \/ ListenUip(s)
  BY <1>0, <1>1 DEF FlagGet, ReadTimeout, ListenUip, CallState, AssertState
<1>2. CASE ReadCheck(s) \/ WriteCheck(s)
  BY <1>0, <1>2 DEF ReadCheck, WriteCheck, WaitAgain, ReadReturn, WriteReturn, AssertState, Gone
<1>3. CASE \/ \E state \in Reading, m \in ReadMaxes : ReadStart(s, state, m)
           \/ \E n \in WriteLens : WriteStart(s, n)
  BY <1>0, <1>3 DEF ReadStart, WriteStart, AssertState, Reading
<1>4. CASE CloseStart(s) \/ CloseCheck(s)
  BY <1>0, <1>4 DEF CloseStart, CloseCheck, WaitAgain, SockFree, ClearSock, AssertState, Gone
<1>5. CASE CloseUnlisten(s) \/ CreateFail(s)
  BY <1>0, <1>5 DEF CloseUnlisten, CreateFail, SockFree, ClearSock, AssertState
<1>6. CASE CreateTCP(s) \/ \E p \in Ports : CreateTCPServer(s, p)
  BY <1>0, <1>6 DEF CreateTCP, CreateTCPServer, SockAlloc, AssertState
<1>7. CASE ListenMark(s) \/ AcceptStart(s)
  BY <1>0, <1>7 DEF ListenMark, AcceptStart, AssertState
<1>8. CASE AcceptCheck(s)
  <2>1. st[s] = "ACCEPTING"
    BY <1>0, <1>8 DEF AcceptCheck, CallState, AssertState
  <2> QED
    BY <1>0, <1>8, <2>1 DEF AcceptCheck, WaitAgain, AssertState
<1>9. CASE ConnectStart(s)
  BY <1>0, <1>9 DEF ConnectStart, SockFree, ClearSock, AssertState
<1>10. CASE ConnectCheck(s)
  BY <1>0, <1>10 DEF ConnectCheck, WaitAgain, ClearSock, AssertState
<1> QED
  BY <1>1, <1>2, <1>3, <1>4, <1>5, <1>6, <1>7, <1>8, <1>9, <1>10 DEF Task

\* Nor does a step of the main thread.
LEMMA AssertMain ==
  ASSUME AcceptHook, Inductive, AssertState, Main
  PROVE  AssertState'
<1> USE DEF AppcallFrame, BodyFrame, SameCall, SameSocks, Connected, Cur
<1>0. /\ st \in [Socks -> SockStates] /\ call \in [Socks -> TaskCalls]
      /\ file \in [Conns -> Socks \cup {NoSock}] /\ ci \in Conns
      /\ (mpc \in WithSock => msock \in Socks)
      /\ UnusedNull
  BY InductiveTypes DEF Inductive
<1>1. CASE MainLoop \/ Input \/ TimerStep \/ AfterStep
  BY <1>1, MainElsewhere DEF AssertState
<1>2. CASE ConnectedRefuse \/ NoSocket \/ LockSock \/ \E s \in Socks : HookRefuse(s)
  BY <1>0, <1>2 DEF ConnectedRefuse, NoSocket, LockSock, HookRefuse, Abort, AssertState
<1>3. CASE ListenFull \/ ListenExpire \/ ListenCheck \/ ListenWait
           \/ \E s \in Socks : ListenAccept(s) \/ FindListener(s)
  BY <1>3 DEF ListenFull, ListenExpire, ListenCheck, ListenLocked, ListenWait, MainWait,
     ListenAccept, FindListener, AssertState
<1>4. CASE \E s \in Socks : HookAccept(s)
  BY <1>0, <1>4 DEF HookAccept, NewSock, FreeSlots, UnusedNull, AssertState
<1>5. CASE ConnectOk
  BY <1>0, <1>5 DEF ConnectOk, Announce, AssertState, Gone
<1>6. CASE BodyAborted \/ BodyAcked \/ BodyPlain
  BY <1>0, <1>6 DEF BodyAborted, BodyAcked, BodyPlain, AppcallClose, Announce, AssertState, Gone
<1>7. CASE RxBlock \/ RxWait \/ RxLock \/ RxExpire \/ RxDone
  BY <1>0, <1>7 DEF RxBlock, RxWait, MainWait, RxLock, RxExpire, RxDone, AppcallClose, Announce,
     AssertState, Gone
<1>8. CASE RxRead \/ \E take, keep \in 0..dataLeft, nl \in BOOLEAN : RxLine(take, keep, nl)
  BY <1>0, <1>8 DEF RxRead, RxLine, Announce, AssertState, Gone
<1>9. CASE TailSend \/ TailPeerClosed \/ TailClose \/ TailPlain
  BY <1>0, <1>9 DEF TailSend, TailPeerClosed, TailClose, TailPlain, TailUnlock, AppcallClose,
     Announce, AssertState, Gone
<1> QED
  BY <1>1, <1>2, <1>3, <1>4, <1>5, <1>6, <1>7, <1>8, <1>9 DEF Main, AppcallStep, BodyStep

\* With an accept hook, and if no socket is closed that is only bound, every
\* assertion of sock.c on the state of a socket holds.  Without the hook
\* netSockAccept may hand out the socket of another task, and closing a bound
\* socket fails the assertion of sockClose.
THEOREM AssertionsAlways ==
  ASSUME AcceptHook, "closeBound" \notin Calls
  PROVE  Spec => []Assertions
<1>1. Init => AssertState
  BY DEF Init, AssertState
<1>2. Inductive /\ AssertState /\ [Next]_vars => AssertState'
  <2>1. ASSUME AssertState, Interrupt \/ PeriodicTick \/ UNCHANGED vars
        PROVE  AssertState'
    BY <2>1 DEF Interrupt, PeriodicTick, AssertState
  <2> QED
    BY <2>1, AssertTask, AssertMain DEF Next
<1>3. Inductive /\ AssertState => Assertions
  BY DEF Inductive, CallState, AssertState, Assertions
<1> QED
  BY <1>1, <1>2, <1>3, InductiveAlways, PTL DEF Spec

-----------------------------------------------------------------------------
(* The socket layer implements the rendezvous of SockHandshake, a step of   *)
(* which is at most one socket's.  What links a socket to its connection,   *)
(* appstate.file, is on the side of the connection, so that link is a       *)
(* function only by Attached, and a new link is right only by               *)
(* SpareHasNoFile.                                                          *)

(* The steps of the rendezvous, as the variables of the code make them *)

\* The phases of the abstract socket, state by state of sock.c.
LEMMA PhaseOf ==
  ASSUME NEW x \in SockStates
  PROVE  /\ x = "BUSY" => Phase(x) = "ready"
         /\ x \in Reading \cup {"WRITING", "CONNECT", "CLOSE"} => Phase(x) = "asked"
         /\ x \in {"READ_OK", "WRITE_OK", "CONNECT_OK"} => Phase(x) = "answered"
         /\ x \in Gone \cup {"CLOSE_OK"} => Phase(x) = "broken"
         /\ x \in Listening \cup {"NULL", "UNDEF_TCP", "BOUND"} => Phase(x) = "absent"
         /\ x \in Served <=> Phase(x) \in {"ready", "asked", "answered"}
  BY DEF Phase, SockStates, Reading, Gone, Listening, Served

\* Nothing that the rendezvous knows of
LEMMA StepNone ==
  ASSUME UNCHANGED file, \A t \in Socks : Phase(st[t])' = Phase(st[t])
  PROVE  UNCHANGED Handshake!vars
<1>1. \A t \in Socks : LinkOf(t)' = LinkOf(t)
  BY DEF LinkOf
<1> QED
  BY <1>1 DEF Handshake!vars

\* The task asks or takes, or the network answers.
LEMMA StepPhase ==
  ASSUME NEW s \in Socks, UNCHANGED file, \A t \in Socks : t # s => Phase(st[t])' = Phase(st[t]),
         <<Phase(st[s]), Phase(st[s])'>> \in
           {<<"ready", "asked">>, <<"asked", "answered">>, <<"answered", "ready">>,
            <<"asked", "ready">>, <<"broken", "absent">>}
  PROVE  Handshake!Next
<1>1. UNCHANGED [t \in Socks |-> LinkOf(t)]
  <2>1. \A t \in Socks : LinkOf(t)' = LinkOf(t)
    BY DEF LinkOf
  <2> QED
    BY <2>1
<1>2. [t \in Socks |-> Phase(st[t])]' =
        [[t \in Socks |-> Phase(st[t])] EXCEPT ![s] = Phase(st[s])']
  OBVIOUS
<1>3. \/ Handshake!Ask(s) \/ Handshake!Answer(s) \/ Handshake!Take(s) \/ Handshake!Withdraw(s)
      \/ Handshake!Release(s)
  BY <1>1, <1>2 DEF Handshake!Ask, Handshake!Answer, Handshake!Take, Handshake!Withdraw,
     Handshake!Release, Handshake!Become
<1> QED
  BY <1>3 DEF Handshake!Next

\* The connection lets go of its socket.
LEMMA StepBreak ==
  ASSUME NEW s \in Socks, NEW c \in Conns, Inductive,
         file[c] = s, file' = [file EXCEPT ![c] = NoSock],
         \A t \in Socks : t # s => Phase(st[t])' = Phase(st[t]), Phase(st[s])' = "broken"
  PROVE  Handshake!Next
<1>0. file \in [Conns -> Socks \cup {NoSock}] /\ st \in [Socks -> SockStates]
  BY InductiveTypes
<1>1. \A d \in Conns : file'[d] # s /\ \A t \in Socks : t # s => (file'[d] = t <=> file[d] = t)
  BY <1>0, NullAssumption DEF Inductive, Attached
<1>2. LinkOf(s)' = NoConn /\ \A t \in Socks : t # s => LinkOf(t)' = LinkOf(t)
  BY <1>1 DEF LinkOf
<1>3. [t \in Socks |-> Phase(st[t])]' = [[t \in Socks |-> Phase(st[t])] EXCEPT ![s] = "broken"]
  OBVIOUS
<1>4. [t \in Socks |-> LinkOf(t)]' = [[t \in Socks |-> LinkOf(t)] EXCEPT ![s] = NoConn]
  BY <1>2
<1>5. Phase(st[s]) \in {"ready", "asked", "answered"}
  BY <1>0, NullAssumption, PhaseOf DEF Inductive, Attached
<1>6. Handshake!Break(s)
  BY <1>3, <1>4, <1>5 DEF Handshake!Break, Handshake!Linked, Handshake!Become
<1> QED
  BY <1>6 DEF Handshake!Next

\* A socket gets a connection that has none.
LEMMA StepOpen ==
  ASSUME NEW s \in Socks, NEW c \in Conns, Inductive, Phase(st[s]) = "absent",
         file[c] = NoSock, file' = [file EXCEPT ![c] = s],
         \A t \in Socks : t # s => Phase(st[t])' = Phase(st[t]),
         Phase(st[s])' \in {"ready", "asked"}
  PROVE  Handshake!Next
<1>0. file \in [Conns -> Socks \cup {NoSock}] /\ st \in [Socks -> SockStates]
  BY InductiveTypes
<1>1. \A d \in Conns : file[d] # s
  BY <1>0, NullAssumption, PhaseOf DEF Inductive, Attached
<1>2. \A d \in Conns : /\ file'[d] = s <=> d = c
                       /\ \A t \in Socks : t # s => (file'[d] = t <=> file[d] = t)
  BY <1>0, <1>1, NullAssumption
<1>3. LinkOf(s)' = c /\ \A t \in Socks : t # s => LinkOf(t)' = LinkOf(t)
  BY <1>2 DEF LinkOf
<1>4. \A t \in Socks : LinkOf(t) # c
  BY NullAssumption DEF LinkOf, NoConn, Conns
<1>5. [t \in Socks |-> Phase(st[t])]' =
        [[t \in Socks |-> Phase(st[t])] EXCEPT ![s] = Phase(st[s])']
  OBVIOUS
<1>6. [t \in Socks |-> LinkOf(t)]' = [[t \in Socks |-> LinkOf(t)] EXCEPT ![s] = c]
  BY <1>3
<1>7. Handshake!Open(s, c)
  BY <1>4, <1>5, <1>6 DEF Handshake!Open, Handshake!Become
<1> QED
  BY <1>7 DEF Handshake!Next

-----------------------------------------------------------------------------
(* Every step of the socket layer is one of them *)

\* A step of a task is a step of the abstract socket, or none.
LEMMA HandshakeTask ==
  ASSUME NEW s \in Socks, Inductive, Inductive', Task(s)
  PROVE  [Handshake!Next]_Handshake!vars
<1> USE DEF Enter, Return, NotOurs, SameSlot
<1>0. /\ st \in [Socks -> SockStates] /\ st' \in [Socks -> SockStates] /\ CallState /\ UnusedNull
      /\ file \in [Conns -> Socks \cup {NoSock}]
  BY InductiveTypes DEF Inductive, TypeOK, SockTypes
<1>1. CASE \/ FlagGet(s) \/ ReadTimeout(s) \/ ListenUip(s) \/ ListenMark(s) \/ AcceptStart(s)
           \/ CloseUnlisten(s) \/ CreateFail(s) \/ CreateTCP(s) \/ \E p \in Ports : CreateTCPServer(s, p)
  <2>1. UNCHANGED file /\ \A t \in Socks : \/ st'[t] = st[t]
                                           \/ /\ st[t] \in Listening \cup {"NULL", "UNDEF_TCP", "BOUND"}
                                              /\ st'[t] \in Listening \cup {"NULL", "UNDEF_TCP", "BOUND"}
    BY <1>0, <1>1 DEF FlagGet, ReadTimeout, ListenUip, ListenMark, AcceptStart, CloseUnlisten,
       CreateFail, CreateTCP, CreateTCPServer, SockAlloc, SockFree, ClearSock, FreeSlots, UnusedNull,
       CallState, Listening
  <2>2. \A t \in Socks : Phase(st[t])' = Phase(st[t])
    BY <1>0, <2>1, PhaseOf
  <2> QED
    BY <2>1, <2>2, StepNone
<1>2. CASE AcceptCheck(s)
  <2>1. UNCHANGED file /\ \A t \in Socks : \/ st'[t] = st[t]
                                           \/ /\ st[t] \in Listening
                                              /\ st'[t] \in Listening
    BY <1>0, <1>2 DEF AcceptCheck, WaitAgain, AcceptReturn, CallState, Listening
  <2>2. \A t \in Socks : Phase(st[t])' = Phase(st[t])
    BY <1>0, <2>1, PhaseOf
  <2> QED
    BY <2>1, <2>2, StepNone
<1>3. CASE \/ ReadCheck(s) \/ WriteCheck(s) \/ CloseStart(s) \/ CloseCheck(s) \/ ConnectCheck(s)
           \/ \E state \in Reading, m \in ReadMaxes : ReadStart(s, state, m)
           \/ \E n \in WriteLens : WriteStart(s, n)
  <2>1. UNCHANGED file /\ \A t \in Socks : t # s => st'[t] = st[t]
    BY <1>0, <1>3 DEF ReadCheck, WriteCheck, CloseStart, CloseCheck, ConnectCheck, ReadStart, WriteStart,
       WaitAgain, ReadReturn, WriteReturn, SockFree, ClearSock
  <2>2. \/ st'[s] = st[s]
        \/ st[s] = "BUSY" /\ st'[s] \in Reading \cup {"WRITING", "CLOSE"}
        \/ st[s] \in Reading \cup {"READ_OK", "WRITE_OK", "CONNECT_OK"} /\ st'[s] = "BUSY"
        \/ st[s] \in Gone \cup {"CLOSE_OK"} /\ st'[s] = "NULL"
        \/ st[s] = "BOUND" /\ st'[s] = "NULL"
    <3>1. CASE ReadCheck(s) \/ WriteCheck(s)
      BY <1>0, <3>1 DEF ReadCheck, WriteCheck, WaitAgain, ReadReturn, WriteReturn, CallState, Gone,
         Reading
    <3>2. CASE \/ CloseStart(s) \/ \E state \in Reading, m \in ReadMaxes : ReadStart(s, state, m)
               \/ \E n \in WriteLens : WriteStart(s, n)
      BY <1>0, <3>2 DEF CloseStart, ReadStart, WriteStart
    <3>3. CASE CloseCheck(s) \/ ConnectCheck(s)
      BY <1>0, <3>3 DEF CloseCheck, ConnectCheck, WaitAgain, SockFree, ClearSock, CallState, Gone
    <3> QED
      BY <1>3, <3>1, <3>2, <3>3
  <2>3. \/ Phase(st[s])' = Phase(st[s])
        \/ <<Phase(st[s]), Phase(st[s])'>> \in
             {<<"ready", "asked">>, <<"asked", "answered">>, <<"answered", "ready">>,
              <<"asked", "ready">>, <<"broken", "absent">>}
    BY <1>0, <2>2, PhaseOf
  <2>4. \A t \in Socks : t # s => Phase(st[t])' = Phase(st[t])
    BY <2>1
  <2> QED
    BY <2>1, <2>3, <2>4, StepNone, StepPhase
<1>4. CASE ConnectStart(s)
  <2>1. mpc = "wait" /\ st[s] = "UNDEF_TCP" /\ \A t \in Socks : t # s => st'[t] = st[t]
    BY <1>0, <1>4 DEF ConnectStart, UipFree, CallState, SockFree, ClearSock
  <2>2. \/ UNCHANGED file /\ st'[s] = "NULL"
        \/ \E c \in Spare : file' = [file EXCEPT ![c] = s] /\ st'[s] = "CONNECT"
    BY <1>0, <1>4 DEF ConnectStart, SockFree, ClearSock
  <2>3. \A c \in Spare : c \in Conns /\ file[c] = NoSock
    BY <2>1 DEF Spare, Inductive, SpareHasNoFile
  <2>4. Phase(st[s]) = "absent" /\ \A t \in Socks : t # s => Phase(st[t])' = Phase(st[t])
    BY <1>0, <2>1, PhaseOf
  <2>5. CASE UNCHANGED file /\ st'[s] = "NULL"
    <3>1. Phase(st[s])' = "absent"
      BY <1>0, <2>5, PhaseOf
    <3> QED
      BY <2>4, <2>5, <3>1, StepNone
  <2>6. CASE \E c \in Spare : file' = [file EXCEPT ![c] = s] /\ st'[s] = "CONNECT"
    <3>1. Phase(st[s])' = "asked"
      BY <1>0, <2>6, PhaseOf
    <3> QED
      BY <2>3, <2>4, <2>6, <3>1, StepOpen
  <2> QED
    BY <2>2, <2>5, <2>6
<1> QED
  BY <1>1, <1>2, <1>3, <1>4 DEF Task

\* The main loop and uip_process outside an appcall leave the abstract socket alone.
LEMMA HandshakeLoop ==
  ASSUME MainLoop \/ Input \/ TimerStep \/ AfterStep
  PROVE  UNCHANGED Handshake!vars
<1>1. UNCHANGED file
  BY DEF MainLoop, SemaWait, ClearRequest, NextConn, Poll, Skip, Input, TimerStep, NoPacket, RecvSyn,
     RecvSynRcvd, RecvSynAck, RecvSynSentBad, RecvRst, RecvData, RecvFin, Finish, TimerRexmit,
     TimerExpire, AfterStep, AppAbort, AppClose, AppSend, AppLastAck, AppSynFail, AppDrop, Resume
<1>2. UNCHANGED st
  BY MainElsewhere
<1> QED
  BY <1>1, <1>2, StepNone

\* The search of an appcall for its socket is a step of the abstract socket, or none.
LEMMA HandshakeAppcall ==
  ASSUME Inductive, Inductive', AppcallStep
  PROVE  [Handshake!Next]_Handshake!vars
<1> USE DEF AppcallFrame, SameCall, SameSocks, Connected, Cur
<1>0. /\ st \in [Socks -> SockStates] /\ st' \in [Socks -> SockStates] /\ UnusedNull
      /\ file \in [Conns -> Socks \cup {NoSock}] /\ ci \in Conns
      /\ (mpc \in WithListener => lsock \in Socks /\ file[ci] = NoSock)
  BY InductiveTypes DEF Inductive, TypeOK, SockTypes, AppcallState, UpcallFile
<1>1. CASE \/ ConnectedRefuse \/ ListenFull \/ ListenExpire \/ NoSocket \/ ListenCheck \/ ListenWait
           \/ LockSock \/ \E s \in Socks : HookRefuse(s) \/ FindListener(s)
  <2>1. UNCHANGED <<st, file>>
    BY <1>1 DEF ConnectedRefuse, ListenFull, ListenExpire, NoSocket, ListenCheck, ListenWait, MainWait,
       LockSock, HookRefuse, FindListener
  <2> QED
    BY <2>1, StepNone
<1>2. CASE ConnectOk
  <2>1. /\ file[ci] \in Socks /\ UNCHANGED file
        /\ \A t \in Socks : t # file[ci] => st'[t] = st[t]
        /\ st'[file[ci]] = st[file[ci]] \/ (st[file[ci]] = "CONNECT" /\ st'[file[ci]] = "CONNECT_OK")
    BY <1>0, <1>2 DEF ConnectOk, Announce
  <2>2. \A t \in Socks : t # file[ci] => Phase(st[t])' = Phase(st[t])
    BY <2>1
  <2>3. PICK u \in Socks : u = file[ci]
    BY <2>1
  <2>4. Phase(st[u])' = Phase(st[u]) \/ (Phase(st[u]) = "asked" /\ Phase(st[u])' = "answered")
    BY <1>0, <2>1, <2>3, PhaseOf
  <2> QED
    BY <2>1, <2>2, <2>3, <2>4, StepNone, StepPhase
<1>3. ASSUME NEW s \in Socks, HookAccept(s) \/ ListenAccept(s)
      PROVE  Handshake!Next
  <2>1. /\ file[ci] = NoSock /\ file' = [file EXCEPT ![ci] = s] /\ st[s] = "NULL" /\ st'[s] = "BUSY"
        /\ \A t \in Socks : t # s => st'[t] = st[t] \/ (st[t] = "ACCEPTING" /\ st'[t] = "ACCEPTED")
    BY <1>0, <1>3 DEF HookAccept, ListenAccept, ListenLocked, NewSock, FreeSlots, UnusedNull
  <2>2. /\ Phase(st[s]) = "absent" /\ Phase(st[s])' = "ready"
        /\ \A t \in Socks : t # s => Phase(st[t])' = Phase(st[t])
    BY <1>0, <2>1, PhaseOf DEF Listening
  <2> QED
    BY <1>0, <2>1, <2>2, StepOpen
<1> QED
  BY <1>1, <1>2, <1>3 DEF AppcallStep

\* So is each part of netTcpAppcallMutex.
LEMMA HandshakeBody ==
  ASSUME Inductive, Inductive', BodyStep
  PROVE  [Handshake!Next]_Handshake!vars
<1> USE DEF AppcallFrame, BodyFrame, SameCall, SameSocks
<1>0. /\ st \in [Socks -> SockStates] /\ st' \in [Socks -> SockStates]
      /\ file \in [Conns -> Socks \cup {NoSock}] /\ ci \in Conns
      /\ msock \in Socks /\ mpc \in WithSock /\ UpcallFile /\ UpcallFlags
  <2>1. mpc \in WithSock
    BY DEF BodyStep, BodyAborted, BodyAcked, BodyPlain, RxBlock, RxWait, MainWait, RxLock, RxExpire,
       RxRead, RxLine, RxDone, TailSend, TailPeerClosed, TailClose, TailPlain, TailUnlock
  <2> QED
    BY <2>1, InductiveTypes DEF Inductive, TypeOK, SockTypes, AppcallState
<1>1. PICK s \in Socks : s = msock
  BY <1>0
<1>2. CASE BodyPlain \/ RxBlock \/ RxWait \/ RxLock \/ RxDone \/ TailSend \/ TailPlain
  <2>1. UNCHANGED <<st, file>>
    BY <1>2 DEF BodyPlain, RxBlock, RxWait, MainWait, RxLock, RxDone, TailSend, TailPlain
  <2> QED
    BY <2>1, StepNone
<1>3. CASE BodyAcked \/ RxRead \/ \E take, keep \in 0..dataLeft, nl \in BOOLEAN : RxLine(take, keep, nl)
  <2>1. /\ UNCHANGED file /\ \A t \in Socks : t # s => st'[t] = st[t]
        /\ \/ st'[s] = st[s]
           \/ st[s] = "WRITING" /\ st'[s] = "WRITE_OK"
           \/ st[s] \in Reading /\ st'[s] = "READ_OK"
    BY <1>0, <1>1, <1>3 DEF BodyAcked, RxRead, RxLine, Announce, Reading
  <2>2. /\ \A t \in Socks : t # s => Phase(st[t])' = Phase(st[t])
        /\ Phase(st[s])' = Phase(st[s]) \/ (Phase(st[s]) = "asked" /\ Phase(st[s])' = "answered")
    BY <1>0, <2>1, PhaseOf
  <2> QED
    BY <2>1, <2>2, StepNone, StepPhase
<1>4. CASE BodyAborted \/ RxExpire \/ TailPeerClosed \/ TailClose
  <2>1. /\ file' = [file EXCEPT ![ci] = NoSock] /\ st'[s] \in Gone \cup {"CLOSE_OK"}
        /\ \A t \in Socks : t # s => st'[t] = st[t]
    BY <1>0, <1>1, <1>4 DEF BodyAborted, RxExpire, TailPeerClosed, TailClose, AppcallClose, Announce, Gone
  <2>2. file[ci] = s
    BY <1>0, <1>1, <1>4 DEF BodyAborted, RxExpire, TailPeerClosed, TailClose, TailUnlock, UpcallFlags,
       UpcallFile, Told, Answered, Ended, TypeOK, MainTypes, Inductive
  <2>3. Phase(st[s])' = "broken" /\ \A t \in Socks : t # s => Phase(st[t])' = Phase(st[t])
    BY <1>0, <2>1, PhaseOf
  <2> QED
    BY <1>0, <2>1, <2>2, <2>3, StepBreak
<1> QED
  BY <1>2, <1>3, <1>4 DEF BodyStep

\* Every step of NetSock is a step of the abstract socket, or none.
LEMMA HandshakeNext ==
  Inductive /\ Inductive' /\ [Next]_vars => [Handshake!Next]_Handshake!vars
<1>1. ASSUME Interrupt \/ PeriodicTick \/ UNCHANGED vars
      PROVE  UNCHANGED Handshake!vars
  <2>1. UNCHANGED <<st, file>>
    BY <1>1 DEF Interrupt, PeriodicTick
  <2> QED
    BY <2>1, StepNone
<1> QED
  BY <1>1, HandshakeTask, HandshakeLoop, HandshakeAppcall, HandshakeBody DEF Next, Main

\* The initial states are initial states of the abstract socket.
LEMMA HandshakeInit == Init => Handshake!Init
<1> SUFFICES ASSUME Init
             PROVE  Handshake!Init
  OBVIOUS
<1>1. \A s \in Socks : st[s] = "NULL" /\ LinkOf(s) = NoConn
  BY NullAssumption DEF Init, LinkOf
<1>2. \A s \in Socks : Phase(st[s]) = "absent"
  BY <1>1, PhaseOf DEF SockStates
<1> QED
  BY <1>1, <1>2 DEF Handshake!Init

\* The socket layer implements the rendezvous of a task and the network thread:
\* a call asks, netTcpAppcallMutex answers or breaks the link for good, the call
\* returns; sockets never share a connection and never change theirs.
THEOREM HandshakeImplemented == Spec => ImplementsHandshake
  BY HandshakeInit, HandshakeNext, InductiveAlways, PTL DEF Spec, ImplementsHandshake, Handshake!Spec

-----------------------------------------------------------------------------
(***************************************************************************)
(* What is sent is what the application writes: the bytes that a           *)
(* connection has outstanding, that a write still waits for and that a     *)
(* read has yet to return.                                                 *)
(***************************************************************************)
(* What is outstanding is in a write *)

\* A task changes no connection but the one it opens, and no write that waits.
LEMMA TaskWriting ==
  ASSUME NEW s \in Socks, Inductive, Task(s)
  PROVE  /\ UNCHANGED mainVars
         /\ \A c \in Conns : \/ tcp'[c] = tcp[c] /\ out'[c] = out[c] /\ file'[c] = file[c]
                                /\ mss'[c] = mss[c]
                             \/ tcp'[c] = "SYN_SENT" /\ mpc = "wait"
         /\ \A t \in Socks : st[t] = "WRITING" => st'[t] = "WRITING" /\ len'[t] = len[t]
<1> USE DEF Enter, Return, NotOurs, SameSlot
<1>0. /\ st \in [Socks -> SockStates] /\ len \in [Socks -> Nat] /\ call \in [Socks -> TaskCalls]
      /\ tcp \in [Conns -> TcpStates] /\ out \in [Conns -> Nat] /\ mss \in [Conns -> Windows]
      /\ file \in [Conns -> Socks \cup {NoSock}] /\ CallState /\ UnusedNull
  BY InductiveTypes DEF Inductive
<1>1. CASE FlagGet(s) \/ ReadTimeout(s) \/ ListenUip(s) \/ ListenMark(s)
  BY <1>0, <1>1 DEF FlagGet, ReadTimeout, ListenUip, ListenMark
<1>2. CASE ReadCheck(s) \/ WriteCheck(s)
  BY <1>0, <1>2 DEF ReadCheck, WriteCheck, WaitAgain, ReadReturn, WriteReturn, CallState, Reading, Gone
<1>3. CASE \/ \E state \in Reading, m \in ReadMaxes : ReadStart(s, state, m)
           \/ \E n \in WriteLens : WriteStart(s, n)
  BY <1>0, <1>3 DEF ReadStart, WriteStart
<1>4. CASE CloseStart(s) \/ AcceptStart(s)
  BY <1>0, <1>4 DEF CloseStart, AcceptStart, Gone
<1>5. CASE CloseCheck(s) \/ CloseUnlisten(s) \/ CreateFail(s)
  BY <1>0, <1>5 DEF CloseCheck, CloseUnlisten, CreateFail, WaitAgain, SockFree, ClearSock, CallState,
     Gone
<1>6. CASE CreateTCP(s) \/ \E p \in Ports : CreateTCPServer(s, p)
  BY <1>0, <1>6 DEF CreateTCP, CreateTCPServer, SockAlloc, FreeSlots, UnusedNull
<1>7. CASE AcceptCheck(s)
  BY <1>0, <1>7 DEF AcceptCheck, WaitAgain, AcceptReturn, CallState
<1>8. CASE ConnectStart(s)
  <2>1. st[s] = "UNDEF_TCP" /\ UNCHANGED <<mainVars, len>> /\ mpc = "wait"
        /\ \A t \in Socks : t # s => st'[t] = st[t]
    BY <1>0, <1>8 DEF ConnectStart, UipFree, SockFree, ClearSock, CallState
  <2>2. \A c \in Conns : \/ tcp'[c] = tcp[c] /\ out'[c] = out[c] /\ file'[c] = file[c]
                            /\ mss'[c] = mss[c]
                         \/ tcp'[c] = "SYN_SENT"
    BY <1>0, <1>8 DEF ConnectStart, NewConn, Spare
  <2> QED
    BY <2>1, <2>2
<1>9. CASE ConnectCheck(s)
  BY <1>0, <1>9 DEF ConnectCheck, WaitAgain, ClearSock, CallState, Gone
<1> QED
  BY <1>1, <1>2, <1>3, <1>4, <1>5, <1>6, <1>7, <1>8, <1>9 DEF Task

\* A step that leaves the sockets and what is under way alone.
LEMMA SendSame ==
  ASSUME SendState, UNCHANGED <<st, len, tcp, file, out, mpc, ci, flags, after, slen>>
  PROVE  SendState'
  BY DEF SendState, SentIsWritten

\* A step of a task keeps what is known of the bytes outstanding.
LEMMA SendTask ==
  ASSUME NEW s \in Socks, Inductive, SendState, Task(s)
  PROVE  SendState'
<1>0. file \in [Conns -> Socks \cup {NoSock}] /\ ci \in Conns /\ mpc \in MpcValues
  BY InductiveTypes DEF Inductive, TypeOK, MainTypes
<1>1. SentIsWritten'
  BY <1>0, TaskWriting DEF SendState, SentIsWritten
<1>2. InAppcall \/ mpc = "appcall" =>
        /\ flags \cap {"CONNECTED", "ACKDATA", "POLL"} # {} => out'[ci] = 0
        /\ ~({"CONNECTED", "ACKDATA"} \subseteq flags)
  BY <1>0, TaskWriting DEF SendState
<1>3. mpc \in WithSock \cup {"after"} /\ slen > 0 /\ after = "appsend" /\ flags \cap Stopped = {} =>
        file'[ci] # NoSock /\ st'[file'[ci]] = "WRITING" /\ slen = len'[file'[ci]]
  BY <1>0, TaskWriting DEF SendState
<1> QED
  BY <1>1, <1>2, <1>3, TaskWriting DEF SendState

\* So do the main loop, input and timers.
LEMMA SendLoop ==
  ASSUME Inductive, SendState, MainLoop \/ Input \/ TimerStep
  PROVE  SendState'
<1> USE DEF NotUip, Appcall, Quiet, Scanning, SendState, SentIsWritten
<1>0. /\ tcp \in [Conns -> TcpStates] /\ out \in [Conns -> Nat] /\ ci \in Conns /\ slen \in Nat
      /\ file \in [Conns -> Socks \cup {NoSock}]
  BY InductiveTypes
<1>1. CASE SemaWait \/ ClearRequest \/ Skip \/ NoPacket
  BY <1>0, <1>1 DEF SemaWait, ClearRequest, Skip, NoPacket
<1>2. CASE NextConn
  BY <1>0, <1>2 DEF NextConn
<1>3. CASE Poll
  BY <1>0, <1>3 DEF Poll
<1>4. CASE TimerRexmit
  BY <1>0, <1>4 DEF TimerRexmit
<1>5. CASE TimerExpire
  BY <1>0, <1>5 DEF TimerExpire
<1>6. ASSUME NEW c \in Conns, NEW p \in Ports, RecvSyn(c, p)
      PROVE  SendState'
  BY <1>0, <1>6 DEF RecvSyn, NewConn
<1>7. ASSUME NEW c \in Conns, NEW n \in SegLens \cup {0}, RecvSynRcvd(c, n)
      PROVE  SendState'
  BY <1>0, <1>7 DEF RecvSynRcvd, NewData
<1>8. ASSUME NEW c \in Conns, RecvSynAck(c)
      PROVE  SendState'
  BY <1>0, <1>8 DEF RecvSynAck
<1>9. ASSUME NEW c \in Conns, RecvSynSentBad(c) \/ RecvRst(c) \/ Finish(c)
      PROVE  SendState'
  BY <1>0, <1>9 DEF RecvSynSentBad, RecvRst, Finish
<1>10. ASSUME NEW c \in Conns, NEW n \in SegLens \cup {0}, NEW acks \in BOOLEAN, RecvData(c, n, acks)
       PROVE  SendState'
  BY <1>0, <1>10 DEF RecvData, NewData, AckData
<1>11. ASSUME NEW c \in Conns, NEW n \in SegLens \cup {0}, NEW acks \in BOOLEAN, RecvFin(c, n, acks)
       PROVE  SendState'
  BY <1>0, <1>11 DEF RecvFin, NewData, AckData
<1> QED
  BY <1>0, <1>1, <1>2, <1>3, <1>4, <1>5, <1>6, <1>7, <1>8, <1>9, <1>10, <1>11 DEF MainLoop, Input,
     TimerStep

\* So does the search of an appcall for its socket.
LEMMA SendAppcall ==
  ASSUME Inductive, SendState, AppcallStep
  PROVE  SendState'
<1> USE DEF AppcallFrame, SameCall, SameSocks, Connected, Cur, SendState, SentIsWritten
<1>0. /\ st \in [Socks -> SockStates] /\ len \in [Socks -> Nat]
      /\ tcp \in [Conns -> TcpStates] /\ out \in [Conns -> Nat] /\ ci \in Conns /\ slen \in Nat
      /\ file \in [Conns -> Socks \cup {NoSock}] /\ UnusedNull
      /\ (mpc \in WithListener => lsock \in Socks /\ "CONNECTED" \in flags)
  BY InductiveTypes DEF Inductive, AppcallState, UpcallFile
<1>1. CASE ConnectedRefuse \/ ListenFull \/ ListenExpire \/ NoSocket \/ LockSock
           \/ \E s \in Socks : HookRefuse(s) \/ FindListener(s)
  BY <1>0, <1>1 DEF ConnectedRefuse, ListenFull, ListenExpire, ListenLocked, NoSocket, LockSock,
     HookRefuse, FindListener, Abort
<1>2. CASE ListenCheck \/ ListenWait
  BY <1>0, <1>2 DEF ListenCheck, ListenWait, MainWait, ListenLocked
<1>3. CASE ConnectOk
  BY <1>0, <1>3 DEF ConnectOk, Announce
<1>4. ASSUME NEW s \in Socks, HookAccept(s) \/ ListenAccept(s)
      PROVE  SendState'
  <2>1. /\ mpc \in WithListener \cup {"appcall"} /\ mpc' = "lock" /\ st[s] = "NULL"
        /\ "CONNECTED" \in flags /\ file' = [file EXCEPT ![ci] = s]
        /\ UNCHANGED <<len, tcp, out, ci, flags, after, slen>>
    BY <1>0, <1>4 DEF HookAccept, ListenAccept, ListenLocked, NewSock, FreeSlots, UnusedNull
  <2>2. out[ci] = 0 /\ slen = 0
    BY <1>0, <2>1
  <2>3. \A t \in Socks : st[t] = "WRITING" => st'[t] = "WRITING"
    BY <1>0, <1>4, <2>1 DEF HookAccept, ListenAccept, ListenLocked
  <2>4. SentIsWritten'
    <3>1. \A c \in Conns : c = ci \/ (file'[c] = file[c] /\ (file[c] # NoSock => file[c] \in Socks))
      BY <1>0, <2>1
    <3> QED
      BY <2>1, <2>2, <2>3, <3>1
  <2> QED
    BY <2>1, <2>2, <2>4
<1> QED
  BY <1>1, <1>2, <1>3, <1>4 DEF AppcallStep

\* So does each part of netTcpAppcallMutex.
LEMMA SendBody ==
  ASSUME Inductive, SendState, BodyStep
  PROVE  SendState'
<1> USE DEF AppcallFrame, BodyFrame, SameCall, SameSocks, SendState, SentIsWritten
<1>0. /\ st \in [Socks -> SockStates] /\ len \in [Socks -> Nat] /\ mss \in [Conns -> Windows]
      /\ tcp \in [Conns -> TcpStates] /\ out \in [Conns -> Nat] /\ ci \in Conns /\ slen \in Nat
      /\ file \in [Conns -> Socks \cup {NoSock}] /\ (mpc \in WithSock => msock \in Socks)
      /\ UpcallFlags /\ UpcallFile
      /\ \A c, d \in Conns : file[c] = file[d] /\ file[c] # NoSock => c = d
  BY InductiveTypes DEF Inductive, AppcallState, Attached
<1>1. CASE BodyAborted
  <2>1. /\ mpc = "body" /\ mpc' = "rx" /\ file' = [file EXCEPT ![ci] = NoSock] /\ file[ci] = msock
        /\ UNCHANGED <<len, tcp, out, ci, flags, after, slen>> /\ slen = 0
        /\ \A t \in Socks : t # msock => st'[t] = st[t]
    BY <1>0, <1>1 DEF BodyAborted, AppcallClose, Announce, UpcallFile
  <2>2. SentIsWritten'
    BY <1>0, <2>1
  <2> QED
    BY <1>0, <2>1, <2>2
<1>2. CASE BodyAcked
  <2>1. /\ mpc = "body" /\ mpc' = "rx" /\ out[ci] = 0 /\ slen = 0 /\ file[ci] = msock
        /\ msock # NoSock
        /\ UNCHANGED <<tcp, out, file, ci, flags, after>>
    BY <1>0, <1>2, NullAssumption DEF BodyAcked, UpcallFile
  <2>2. \A c \in Conns : c # ci /\ file[c] # NoSock =>
           st'[file[c]] = st[file[c]] /\ len'[file[c]] = len[file[c]]
    BY <1>0, <1>2, <2>1 DEF BodyAcked, Announce
  <2>3. slen' = 0 \/ (st'[msock] = "WRITING" /\ slen' = len'[msock])
    BY <1>0, <1>2, <2>1 DEF BodyAcked
  <2> QED
    BY <1>0, <2>1, <2>2, <2>3
<1>3. CASE BodyPlain \/ RxBlock \/ RxWait \/ RxLock \/ RxDone
  BY <1>0, <1>3 DEF BodyPlain, RxBlock, RxWait, MainWait, RxLock, RxDone
<1>4. CASE RxExpire
  BY <1>0, <1>4 DEF RxExpire, AppcallClose, Announce, Stopped, UpcallFile
<1>5. CASE RxRead \/ \E take, keep \in 0..dataLeft, nl \in BOOLEAN : RxLine(take, keep, nl)
  <2>1. /\ mpc = "rx" /\ mpc' = "rx" /\ msock \in Socks /\ st[msock] \in Reading
        /\ UNCHANGED <<tcp, out, file, ci, flags, after, slen>>
        /\ \A t \in Socks : t # msock => st'[t] = st[t] /\ len'[t] = len[t]
    <3>1. CASE RxRead
      BY <1>0, <3>1 DEF RxRead, Announce, Reading
    <3>2. ASSUME NEW take \in 0..dataLeft, NEW keep \in 0..dataLeft, NEW nl \in BOOLEAN,
                 RxLine(take, keep, nl)
          PROVE  <2>1!:
      BY <1>0, <3>2 DEF RxLine, Announce, Reading
    <3> QED
      BY <1>5, <3>1, <3>2
  <2>2. \A t \in Socks : st[t] = "WRITING" => st'[t] = "WRITING" /\ len'[t] = len[t]
    BY <2>1 DEF Reading
  <2>3. SentIsWritten'
    BY <1>0, <2>1, <2>2
  <2> QED
    BY <1>0, <2>1, <2>2, <2>3
<1>6. CASE TailSend
  <2>1. /\ mpc = "tail" /\ mpc' = "after"
        /\ UNCHANGED <<st, len, tcp, out, file, ci, flags, after>>
        /\ slen' = IF len[msock] > 0 THEN len[msock] ELSE slen
        /\ "REXMIT" \in flags \/ ("POLL" \in flags /\ st[msock] = "WRITING")
    BY <1>6 DEF TailSend, TailUnlock
  <2>2. after = "appsend" =>
          flags = {"POLL"} /\ st[msock] = "WRITING" /\ file[ci] = msock /\ msock # NoSock
    BY <1>0, <2>1, NullAssumption DEF UpcallFlags, UpcallFile, Told, Answered, Ended
  <2> QED
    BY <1>0, <2>1, <2>2
<1>7. CASE TailPeerClosed \/ TailClose
  <2>1. /\ mpc = "tail" /\ mpc' = "after" /\ file' = [file EXCEPT ![ci] = NoSock]
        /\ UNCHANGED <<len, tcp, out, ci, after, slen>> /\ flags' \cap Stopped # {}
        /\ \A t \in Socks : t # msock => st'[t] = st[t]
    BY <1>0, <1>7 DEF TailPeerClosed, TailClose, TailUnlock, AppcallClose, Announce, Stopped
  <2>2. file[ci] = msock
    BY <1>0, <1>7 DEF TailPeerClosed, TailClose, TailUnlock, UpcallFlags, UpcallFile, Told, Answered,
       Ended, TypeOK, MainTypes, Inductive
  <2>3. SentIsWritten'
    BY <1>0, <2>1, <2>2
  <2> QED
    BY <2>1, <2>3
<1>8. CASE TailPlain
  BY <1>0, <1>8 DEF TailPlain, TailUnlock
<1> QED
  BY <1>1, <1>2, <1>3, <1>4, <1>5, <1>6, <1>7, <1>8 DEF BodyStep

\* So does what uip_process sends.
LEMMA SendAfter ==
  ASSUME Inductive, SendState, AfterStep
  PROVE  SendState'
<1> USE DEF Resume, NotUip, SendState, SentIsWritten
<1>0. /\ tcp \in [Conns -> TcpStates] /\ out \in [Conns -> Nat] /\ mss \in [Conns -> Windows]
      /\ ci \in Conns /\ slen \in Nat /\ file \in [Conns -> Socks \cup {NoSock}]
  BY InductiveTypes
<1>1. CASE AppSend
  <2>1. mss[ci] \in Nat
    BY <1>0, LengthAssumption
  <2>2. /\ mpc = "after" /\ mpc' = "next" /\ after = "appsend" /\ flags \cap Stopped = {}
        /\ UNCHANGED <<st, len, tcp, file>>
        /\ \A c \in Conns : out'[c] = out[c] \/ (c = ci /\ slen > 0 /\ out'[c] <= slen)
    BY <1>0, <1>1, <2>1 DEF AppSend, Stopped
  <2>3. SentIsWritten'
    BY <1>0, <2>2
  <2> QED
    BY <2>2, <2>3
<1>2. CASE AppAbort \/ AppClose \/ AppLastAck \/ AppSynFail \/ AppDrop
  BY <1>0, <1>2 DEF AppAbort, AppClose, AppLastAck, AppSynFail, AppDrop
<1> QED
  BY <1>1, <1>2 DEF AfterStep

\* So does every step.
LEMMA SendNext == Inductive /\ SendState /\ [Next]_vars => SendState'
<1>1. ASSUME SendState, Interrupt \/ PeriodicTick \/ UNCHANGED vars
      PROVE  SendState'
  <2>1. UNCHANGED <<sockVars, connVars, mainVars>>
    BY <1>1 DEF Interrupt, PeriodicTick
  <2> QED
    BY <1>1, <2>1, SendSame
<1> QED
  BY <1>1, SendTask, SendLoop, SendAppcall, SendBody, SendAfter DEF Next, Main

\* What is known of the bytes outstanding is always true.
LEMMA SendAlways == Spec => []SendState
<1>1. Init => SendState
  BY DEF Init, SendState, SentIsWritten
<1> QED
  BY <1>1, SendNext, InductiveAlways, PTL DEF Spec

\* Whatever an established connection retransmits is in the buffer of a write
\* that has not returned.
THEOREM RetransmitsWriteAlways == Spec => []RetransmitsWrite
<1>1. Inductive /\ SendState => RetransmitsWrite
  BY DEF Inductive, EstablishedHasSocket, SendState, SentIsWritten, RetransmitsWrite
<1> QED
  BY <1>1, InductiveAlways, SendAlways, PTL

-----------------------------------------------------------------------------
(* What a write waits for is what the peer has not acknowledged *)

\* What a task does to the bytes it has the peer acknowledge.
LEMMA TaskOwed ==
  ASSUME NEW s \in Socks, Inductive, Task(s), NEW t \in Socks
  PROVE  /\ st'[t] = "WRITING" =>
              \/ st[t] = "WRITING" /\ owed'[t] = owed[t] /\ resized'[t] = resized[t]
              \/ st[t] = "BUSY" /\ owed'[t] = len'[t]
         /\ st'[t] = "WRITE_OK" =>
              st[t] = "WRITE_OK" /\ owed'[t] = owed[t] /\ resized'[t] = resized[t]
<1> USE DEF Enter, Return, NotOurs, SameSlot
<1>0. /\ st \in [Socks -> SockStates] /\ len \in [Socks -> Nat] /\ call \in [Socks -> TaskCalls]
      /\ owed \in [Socks -> Int] /\ resized \in [Socks -> BOOLEAN] /\ CallState
  BY InductiveTypes DEF Inductive
<1>1. CASE FlagGet(s) \/ ReadTimeout(s) \/ ListenUip(s) \/ ListenMark(s)
  BY <1>0, <1>1 DEF FlagGet, ReadTimeout, ListenUip, ListenMark
<1>2. CASE ReadCheck(s) \/ WriteCheck(s)
  BY <1>0, <1>2 DEF ReadCheck, WriteCheck, WaitAgain, ReadReturn, WriteReturn, CallState, Reading, Gone
<1>3. CASE \/ \E state \in Reading, m \in ReadMaxes : ReadStart(s, state, m)
           \/ \E n \in WriteLens : WriteStart(s, n)
  BY <1>0, <1>3, LengthAssumption DEF ReadStart, WriteStart, Reading
<1>4. CASE CloseStart(s) \/ AcceptStart(s)
  BY <1>0, <1>4 DEF CloseStart, AcceptStart, Gone
<1>5. CASE CloseCheck(s) \/ CloseUnlisten(s) \/ CreateFail(s)
  BY <1>0, <1>5 DEF CloseCheck, CloseUnlisten, CreateFail, WaitAgain, SockFree, ClearSock, CallState,
     Gone
<1>6. CASE CreateTCP(s) \/ \E p \in Ports : CreateTCPServer(s, p)
  BY <1>0, <1>6 DEF CreateTCP, CreateTCPServer, SockAlloc
<1>7. CASE AcceptCheck(s)
  BY <1>0, <1>7 DEF AcceptCheck, WaitAgain, AcceptReturn, CallState
<1>8. CASE ConnectStart(s)
  BY <1>0, <1>8 DEF ConnectStart, SockFree, ClearSock
<1>9. CASE ConnectCheck(s)
  BY <1>0, <1>9 DEF ConnectCheck, WaitAgain, ClearSock, CallState, Gone
<1> QED
  BY <1>1, <1>2, <1>3, <1>4, <1>5, <1>6, <1>7, <1>8, <1>9 DEF Task

\* A step of a task keeps the count of the bytes a write still owes.
LEMMA WriteTask ==
  ASSUME NEW s \in Socks, Inductive, SendState, WriteState, Task(s)
  PROVE  WriteState'
<1>0. /\ file \in [Conns -> Socks \cup {NoSock}] /\ ci \in Conns /\ UNCHANGED <<mpc, ci, flags>>
      /\ len \in [Socks -> Nat] /\ owed \in [Socks -> Int]
  BY InductiveTypes, TaskWriting
<1>1. ASSUME NEW c \in Conns, tcp'[c] = "ESTABLISHED", out'[c] > 0, file'[c] # NoSock
      PROVE  \/ resized'[file'[c]]
             \/ out'[c] = (IF len'[file'[c]] <= mss'[c] THEN len'[file'[c]] ELSE mss'[c])
  <2>1. tcp[c] = "ESTABLISHED" /\ out'[c] = out[c] /\ file'[c] = file[c] /\ mss'[c] = mss[c]
    BY <1>1, TaskWriting
  <2>2. st[file[c]] = "WRITING" /\ file[c] \in Socks
    BY <1>0, <1>1, <2>1 DEF SendState, SentIsWritten
  <2>3. len'[file[c]] = len[file[c]] /\ st'[file[c]] = "WRITING"
    BY <2>2, TaskWriting
  <2>4. resized'[file[c]] = resized[file[c]]
    BY <2>2, <2>3, TaskOwed
  <2> QED
    BY <1>1, <2>1, <2>3, <2>4 DEF WriteState
<1>2. ASSUME NEW t \in Socks, st'[t] = "WRITING", ~resized'[t]
      PROVE  owed'[t] = len'[t] - Acknowledged(t)'
  <2>1. CASE st[t] = "WRITING" /\ owed'[t] = owed[t] /\ resized'[t] = resized[t]
    <3>1. len'[t] = len[t] /\ owed[t] = len[t] - Acknowledged(t)
      BY <1>2, <2>1, TaskWriting DEF WriteState
    <3>2. Acknowledged(t)' = Acknowledged(t)
      BY <1>0, <3>1, TaskWriting DEF Acknowledged
    <3> QED
      BY <2>1, <3>1, <3>2
  <2>2. CASE st[t] = "BUSY" /\ owed'[t] = len'[t]
    <3>1. ~(mpc \in {"appcall", "body"} /\ "ACKDATA" \in flags /\ file'[ci] = t)
      BY <1>0, <2>2, NullAssumption, TaskWriting DEF WriteState
    <3>2. Acknowledged(t)' = 0
      BY <1>0, <3>1 DEF Acknowledged
    <3>3. len'[t] \in Nat
      BY TypeTask DEF Inductive, TypeOK, SockTypes
    <3> QED
      BY <2>2, <3>2, <3>3
  <2> QED
    BY <1>2, <2>1, <2>2, TaskOwed
<1>3. \A t \in Socks : ~resized'[t] /\ st'[t] = "WRITE_OK" => owed'[t] = 0
  BY TaskOwed DEF WriteState
<1>4. mpc \in {"appcall", "body"} /\ "ACKDATA" \in flags /\ file'[ci] # NoSock =>
        st'[file'[ci]] = "WRITING"
  BY <1>0, TaskWriting DEF WriteState
<1> QED
  BY <1>0, <1>1, <1>2, <1>3, <1>4 DEF WriteState

\* The window of a segment, or that of a new connection
LEMMA ResizeFacts ==
  ASSUME Inductive, NEW c \in Conns, NEW m \in Windows, Resize(c, m)
  PROVE  /\ mss' \in [Conns -> Windows] /\ resized' \in [Socks -> BOOLEAN]
         /\ \A s \in Socks : resized[s] => resized'[s]
         /\ \A d \in Conns : out[d] > 0 /\ file[d] # NoSock => mss'[d] = mss[d] \/ resized'[file[d]]
<1>1. /\ mss \in [Conns -> Windows] /\ resized \in [Socks -> BOOLEAN]
      /\ file \in [Conns -> Socks \cup {NoSock}]
  BY InductiveTypes
<1> QED
  BY <1>1 DEF Resize

\* Nothing new is acknowledged, and nothing new is sent.
LEMMA WriteQuiet ==
  ASSUME Inductive, WriteState,
         mpc \notin {"appcall", "body"}, mpc' \notin {"appcall", "body"} \/ "ACKDATA" \notin flags',
         UNCHANGED <<st, len, file, owed>>,
         \A s \in Socks : resized[s] => resized'[s],
         \A c \in Conns : tcp'[c] = "ESTABLISHED" /\ out'[c] > 0 =>
           tcp[c] = "ESTABLISHED" /\ out'[c] = out[c],
         \A c \in Conns : tcp'[c] = "ESTABLISHED" /\ out'[c] > 0 /\ file[c] # NoSock =>
           mss'[c] = mss[c] \/ resized'[file[c]]
  PROVE  WriteState'
<1>1. \A c \in Conns : file[c] # NoSock => file[c] \in Socks
  BY InductiveTypes
<1>2. \A s \in Socks : Acknowledged(s) = 0 /\ Acknowledged(s)' = 0
  BY DEF Acknowledged
<1>3. \A c \in Conns : tcp'[c] = "ESTABLISHED" /\ out'[c] > 0 /\ file'[c] # NoSock =>
        \/ resized'[file'[c]]
        \/ out'[c] = (IF len'[file'[c]] <= mss'[c] THEN len'[file'[c]] ELSE mss'[c])
  BY <1>1 DEF WriteState
<1>4. \A s \in Socks : ~resized'[s] /\ st'[s] = "WRITING" => owed'[s] = len'[s] - Acknowledged(s)'
  BY <1>2 DEF WriteState
<1>5. \A s \in Socks : ~resized'[s] /\ st'[s] = "WRITE_OK" => owed'[s] = 0
  BY DEF WriteState
<1>6. ~(mpc' \in {"appcall", "body"} /\ "ACKDATA" \in flags')
  OBVIOUS
<1> QED
  BY <1>3, <1>4, <1>5, <1>6 DEF WriteState

\* uIP takes an acknowledgement and tells the socket.
LEMMA WriteAcked ==
  ASSUME Inductive, SendState, WriteState,
         mpc = "scan", NEW c \in Conns, NEW n \in Nat, tcp[c] = "ESTABLISHED", out[c] > 0,
         out' = [out EXCEPT ![c] = 0], mpc' = "appcall", ci' = c, "ACKDATA" \in flags',
         UNCHANGED <<st, len, file, tcp>>, Count(c, n, TRUE),
         \A s \in Socks : resized[s] => resized'[s],
         \A d \in Conns : out[d] > 0 /\ file[d] # NoSock => mss'[d] = mss[d] \/ resized'[file[d]]
  PROVE  WriteState'
<1>0. /\ file[c] \in Socks /\ file[c] # NoSock /\ len \in [Socks -> Nat] /\ owed \in [Socks -> Int]
      /\ out \in [Conns -> Nat] /\ mss[c] \in Nat
      /\ \A d \in Conns : file[d] # NoSock => file[d] \in Socks
  BY InductiveTypes, LengthAssumption DEF Inductive, EstablishedHasSocket
<1>1. ~resized'[file[c]] => ~resized[file[c]] /\ mss'[c] = mss[c]
  BY <1>0
<1>2. /\ st[file[c]] = "WRITING"
      /\ ~resized[file[c]] => out[c] = (IF len[file[c]] <= mss[c] THEN len[file[c]] ELSE mss[c])
  BY <1>0 DEF SendState, SentIsWritten, WriteState
<1>3. owed' = [owed EXCEPT ![file[c]] = @ - out[c]]
  BY <1>0 DEF Count
<1>4. ASSUME NEW s \in Socks, st[s] = "WRITING", ~resized'[s]
      PROVE  owed'[s] = len[s] - Acknowledged(s)'
  <2>1. Acknowledged(s) = 0
    BY DEF Acknowledged
  <2>2. owed[s] = len[s]
    BY <1>0, <1>4, <2>1 DEF WriteState
  <2>3. CASE s = file[c]
    <3>1. Acknowledged(s)' = out[c]
      BY <1>1, <1>2, <1>4, <2>3 DEF Acknowledged
    <3> QED
      BY <1>0, <1>3, <2>2, <2>3, <3>1
  <2>4. CASE s # file[c]
    <3>1. Acknowledged(s)' = 0
      BY <2>4 DEF Acknowledged
    <3> QED
      BY <1>0, <1>3, <2>2, <2>4, <3>1
  <2> QED
    BY <2>3, <2>4
<1>5. \A s \in Socks : ~resized'[s] /\ st[s] = "WRITE_OK" => owed'[s] = 0
  BY <1>0, <1>2, <1>3 DEF WriteState
<1>6. \A d \in Conns : tcp[d] = "ESTABLISHED" /\ out'[d] > 0 /\ file[d] # NoSock =>
        \/ resized'[file[d]]
        \/ out'[d] = (IF len[file[d]] <= mss'[d] THEN len[file[d]] ELSE mss'[d])
  BY <1>0 DEF WriteState
<1> QED
  BY <1>2, <1>4, <1>5, <1>6 DEF WriteState

\* So do the main loop, input and timers.
LEMMA WriteLoop ==
  ASSUME Inductive, SendState, WriteState, MainLoop \/ Input \/ TimerStep
  PROVE  WriteState'
<1> USE DEF NotUip, Appcall, Quiet, Scanning
<1>0. /\ tcp \in [Conns -> TcpStates] /\ out \in [Conns -> Nat] /\ ci \in Conns
      /\ file \in [Conns -> Socks \cup {NoSock}] /\ mss \in [Conns -> Windows]
  BY InductiveTypes
<1>1. CASE MainLoop
  BY <1>0, <1>1, WriteQuiet DEF MainLoop, SemaWait, ClearRequest, NextConn, Poll, Skip
<1>2. CASE NoPacket \/ TimerRexmit
  BY <1>0, <1>2, WriteQuiet DEF NoPacket, TimerRexmit
<1>3. CASE TimerExpire
  BY <1>0, <1>3, WriteQuiet DEF TimerExpire
<1>4. ASSUME NEW c \in Conns, NEW p \in Ports, RecvSyn(c, p)
      PROVE  WriteState'
  BY <1>0, <1>4, WriteQuiet DEF RecvSyn, NewConn
<1>5. ASSUME NEW c \in Conns, NEW n \in SegLens \cup {0}, RecvSynRcvd(c, n)
      PROVE  WriteState'
  BY <1>0, <1>5, WriteQuiet DEF RecvSynRcvd, NewData
<1>6. ASSUME NEW c \in Conns, RecvSynAck(c) \/ RecvSynSentBad(c)
      PROVE  WriteState'
  BY <1>0, <1>6, WriteQuiet DEF RecvSynAck, RecvSynSentBad
<1>7. ASSUME NEW c \in Conns, RecvRst(c) \/ Finish(c)
      PROVE  WriteState'
  BY <1>0, <1>7, WriteQuiet DEF RecvRst, Finish
<1>8. ASSUME NEW c \in Conns, NEW n \in SegLens \cup {0}, NEW acks \in BOOLEAN, RecvData(c, n, acks)
      PROVE  WriteState'
  <2>1. CASE acks
    <3>1. n \in Nat
      BY LengthAssumption
    <3> QED
      BY <1>0, <1>8, <2>1, <3>1, ResizeFacts, WriteAcked DEF RecvData, AckData
  <2>2. CASE ~acks
    BY <1>0, <1>8, <2>2, ResizeFacts, WriteQuiet DEF RecvData, NewData, AckData, Count
  <2> QED
    BY <2>1, <2>2
<1>9. ASSUME NEW c \in Conns, NEW n \in SegLens \cup {0}, NEW acks \in BOOLEAN, RecvFin(c, n, acks)
      PROVE  WriteState'
  <2>1. CASE acks
    <3>1. n \in Nat
      BY LengthAssumption
    <3> QED
      BY <1>0, <1>9, <2>1, <3>1, WriteAcked DEF RecvFin, AckData, Count
  <2>2. CASE ~acks
    BY <1>0, <1>9, <2>2, WriteQuiet DEF RecvFin, NewData, AckData, Count
  <2> QED
    BY <2>1, <2>2
<1> QED
  BY <1>0, <1>1, <1>2, <1>3, <1>4, <1>5, <1>6, <1>7, <1>8, <1>9 DEF Input, TimerStep

\* A step of an appcall that neither acknowledges nor completes a write.
LEMMA WriteWithin ==
  ASSUME WriteState, UNCHANGED <<len, out, mss, tcp, owed, resized>>,
         \A c \in Conns : file'[c] = file[c] \/ file'[c] = NoSock \/ out[c] = 0,
         \A s \in Socks : st'[s] \in {"WRITING", "WRITE_OK"} => st'[s] = st[s],
         \A s \in Socks : st[s] = "WRITING" => Acknowledged(s)' = Acknowledged(s),
         mpc' \in {"appcall", "body"} /\ "ACKDATA" \in flags' /\ file'[ci'] # NoSock =>
           st'[file'[ci']] = "WRITING"
  PROVE  WriteState'
<1>1. \A c \in Conns : tcp'[c] = "ESTABLISHED" /\ out'[c] > 0 /\ file'[c] # NoSock =>
        \/ resized'[file'[c]]
        \/ out'[c] = (IF len'[file'[c]] <= mss'[c] THEN len'[file'[c]] ELSE mss'[c])
  BY DEF WriteState
<1>2. \A s \in Socks : ~resized[s] /\ st'[s] = "WRITING" => owed'[s] = len'[s] - Acknowledged(s)'
  BY DEF WriteState
<1>3. \A s \in Socks : ~resized[s] /\ st'[s] = "WRITE_OK" => owed'[s] = 0
  BY DEF WriteState
<1> QED
  BY <1>1, <1>2, <1>3 DEF WriteState

\* So does the search of an appcall for its socket.
LEMMA WriteAppcall ==
  ASSUME Inductive, SendState, WriteState, AppcallStep
  PROVE  WriteState'
<1> USE DEF AppcallFrame, SameCall, SameSocks, Connected, Cur
<1>0. /\ st \in [Socks -> SockStates] /\ out \in [Conns -> Nat] /\ ci \in Conns
      /\ file \in [Conns -> Socks \cup {NoSock}]
      /\ (mpc \in WithListener => lsock \in Socks)
      /\ (mpc \in WithListener \cup {"lock"} => "CONNECTED" \in flags)
  BY InductiveTypes DEF Inductive, AppcallState, UpcallFile
<1>1. CASE "CONNECTED" \in flags
  <2>1. "ACKDATA" \notin flags /\ "ACKDATA" \notin flags' /\ out[ci] = 0
    <3>1. "ACKDATA" \notin flags /\ out[ci] = 0
      BY <1>0, <1>1 DEF AppcallStep, HookAccept, HookRefuse, FindListener, ListenAccept,
         ConnectedRefuse, ListenCheck, ListenFull, ListenWait, MainWait, ListenExpire, ListenLocked,
         ConnectOk, NoSocket, LockSock, SendState
    <3>2. flags' = flags \/ flags' = {"ABORT"}
      BY DEF AppcallStep, HookAccept, HookRefuse, FindListener, ListenAccept, NewSock,
         ConnectedRefuse, ListenCheck, ListenFull, ListenWait, MainWait, ListenExpire,
         ConnectOk, NoSocket, LockSock, Abort
    <3> QED
      BY <3>1, <3>2
  <2>2. \A s \in Socks : Acknowledged(s)' = Acknowledged(s)
    BY <2>1 DEF Acknowledged
  <2>3. UNCHANGED <<len, out, mss, tcp, owed, resized>> /\ \A c \in Conns : c = ci \/ file'[c] = file[c]
    BY <1>0 DEF AppcallStep, HookAccept, HookRefuse, FindListener, ListenAccept, NewSock,
       ConnectedRefuse, ListenCheck, ListenFull, ListenWait, MainWait, ListenExpire, ConnectOk,
       NoSocket, LockSock, Abort
  <2>4. \A s \in Socks : st'[s] \in {"WRITING", "WRITE_OK"} => st'[s] = st[s]
    BY <1>0 DEF AppcallStep, HookAccept, HookRefuse, FindListener, ListenAccept, ListenLocked, NewSock,
       ConnectedRefuse, ListenCheck, ListenFull, ListenWait, MainWait, ListenExpire, ConnectOk,
       Announce, NoSocket, LockSock
  <2> QED
    BY <2>1, <2>2, <2>3, <2>4, WriteWithin
<1>2. CASE "CONNECTED" \notin flags
  <2>1. NoSocket \/ LockSock
    BY <1>0, <1>2 DEF AppcallStep, HookAccept, HookRefuse, FindListener, ListenAccept,
       ConnectedRefuse, ListenCheck, ListenFull, ListenWait, MainWait, ListenExpire, ListenLocked,
       ConnectOk
  <2>2. mpc = "appcall" /\ UNCHANGED <<st, len, out, mss, tcp, owed, resized, file, ci, flags>>
    BY <1>0, <1>2, <2>1 DEF NoSocket, LockSock
  <2>3. mpc' = "body" \/ (mpc' = "after" /\ file[ci] = NoSock)
    BY <2>1 DEF NoSocket, LockSock
  <2>4. \A s \in Socks : Acknowledged(s)' = Acknowledged(s)
    BY <2>2, <2>3, NullAssumption DEF Acknowledged
  <2>5. mpc' \in {"appcall", "body"} /\ "ACKDATA" \in flags' /\ file'[ci'] # NoSock =>
           st'[file'[ci']] = "WRITING"
    BY <2>2 DEF WriteState
  <2> QED
    BY <2>2, <2>4, <2>5, WriteWithin
<1> QED
  BY <1>1, <1>2

\* So does each part of netTcpAppcallMutex.
LEMMA WriteBody ==
  ASSUME Inductive, SendState, WriteState, BodyStep
  PROVE  WriteState'
<1> USE DEF AppcallFrame, BodyFrame, SameCall, SameSocks
<1>0. /\ st \in [Socks -> SockStates] /\ len \in [Socks -> Nat] /\ mss \in [Conns -> Windows]
      /\ owed \in [Socks -> Int] /\ out \in [Conns -> Nat] /\ ci \in Conns
      /\ file \in [Conns -> Socks \cup {NoSock}] /\ (mpc \in WithSock => msock \in Socks)
      /\ (mpc = "body" => file[ci] = msock) /\ mss[ci] \in Nat
      /\ \A c, d \in Conns : file[c] = file[d] /\ file[c] # NoSock => c = d
  BY InductiveTypes, LengthAssumption DEF Inductive, AppcallState, UpcallFile, Attached
<1>1. CASE BodyAborted
  <2>1. "ACKDATA" \notin flags /\ UNCHANGED flags
    BY <1>1 DEF BodyAborted, Inductive, AppcallState, UpcallFlags, Told, TypeOK, MainTypes
  <2>2. \A s \in Socks : Acknowledged(s)' = Acknowledged(s)
    BY <2>1 DEF Acknowledged
  <2> QED
    BY <1>0, <1>1, <2>1, <2>2, WriteWithin DEF BodyAborted, AppcallClose, Announce
<1>2. CASE BodyAcked
  <2>1. /\ mpc = "body" /\ mpc' = "rx" /\ "ACKDATA" \in flags /\ st[msock] = "WRITING"
        /\ out[ci] = 0 /\ file[ci] = msock /\ msock # NoSock
        /\ UNCHANGED <<tcp, out, mss, file, ci, flags, owed, resized>>
    BY <1>0, <1>2, NullAssumption DEF BodyAcked, SendState
  <2>2. Acknowledged(msock) = (IF len[msock] <= mss[ci] THEN len[msock] ELSE mss[ci])
    BY <2>1 DEF Acknowledged
  <2>3. \A s \in Socks : /\ Acknowledged(s)' = 0
                         /\ s # msock => Acknowledged(s) = 0 /\ st'[s] = st[s] /\ len'[s] = len[s]
    BY <1>0, <1>2, <2>1 DEF Acknowledged, BodyAcked, Announce
  <2>4. \/ st'[msock] = "WRITE_OK" /\ len[msock] <= mss[ci]
        \/ st'[msock] = "WRITING" /\ ~(len[msock] <= mss[ci]) /\ len'[msock] = len[msock] - mss[ci]
    BY <1>0, <1>2 DEF BodyAcked, Announce
  <2>5. ~resized[msock] => owed[msock] = len[msock] - Acknowledged(msock)
    BY <1>0, <2>1 DEF WriteState
  <2>6. \A s \in Socks : ~resized[s] /\ st'[s] = "WRITING" => owed'[s] = len'[s] - Acknowledged(s)'
    <3>1. ~resized[msock] /\ st'[msock] = "WRITING" => owed[msock] = len'[msock] - 0
      BY <1>0, <2>1, <2>2, <2>4, <2>5
    <3>2. \A s \in Socks : ~resized[s] /\ s # msock /\ st'[s] = "WRITING" => owed[s] = len'[s] - 0
      BY <2>3 DEF WriteState
    <3> QED
      BY <2>1, <2>3, <3>1, <3>2
  <2>7. \A s \in Socks : ~resized[s] /\ st'[s] = "WRITE_OK" => owed'[s] = 0
    BY <1>0, <2>1, <2>2, <2>3, <2>4, <2>5 DEF WriteState
  <2>8. \A c \in Conns : tcp'[c] = "ESTABLISHED" /\ out'[c] > 0 /\ file'[c] # NoSock =>
          \/ resized'[file'[c]]
          \/ out'[c] = (IF len'[file'[c]] <= mss'[c] THEN len'[file'[c]] ELSE mss'[c])
    <3>1. \A c \in Conns : out[c] > 0 /\ file[c] # NoSock =>
            file[c] # msock /\ len'[file[c]] = len[file[c]]
      BY <1>0, <2>1, <2>3
    <3> QED
      BY <2>1, <3>1 DEF WriteState
  <2> QED
    BY <2>1, <2>6, <2>7, <2>8 DEF WriteState
<1>3. CASE BodyPlain
  <2>1. /\ mpc = "body" /\ mpc' = "rx" /\ ~("ACKDATA" \in flags /\ st[msock] = "WRITING")
        /\ UNCHANGED <<st, len, tcp, out, mss, file, ci, flags, owed, resized>>
    BY <1>3 DEF BodyPlain
  <2>2. \A s \in Socks : st[s] = "WRITING" => Acknowledged(s)' = Acknowledged(s)
    BY <1>0, <2>1 DEF Acknowledged
  <2> QED
    BY <2>1, <2>2, WriteWithin
<1>4. CASE \/ RxBlock \/ RxWait \/ RxLock \/ RxExpire \/ RxDone
           \/ TailSend \/ TailPeerClosed \/ TailClose \/ TailPlain
  <2>1. /\ mpc \notin {"appcall", "body"} /\ mpc' \notin {"appcall", "body"}
        /\ UNCHANGED <<len, tcp, out, mss, owed, resized>>
        /\ file' = file \/ file' = [file EXCEPT ![ci] = NoSock]
    BY <1>4 DEF RxBlock, RxWait, MainWait, RxLock, RxExpire, RxDone, TailSend, TailPeerClosed,
       TailClose, TailPlain, TailUnlock, AppcallClose
  <2>2. \A s \in Socks : st'[s] \in {"WRITING", "WRITE_OK"} => st'[s] = st[s]
    BY <1>0, <1>4 DEF RxBlock, RxWait, MainWait, RxLock, RxExpire, RxDone, TailSend, TailPeerClosed,
       TailClose, TailPlain, TailUnlock, AppcallClose, Announce
  <2>3. \A s \in Socks : Acknowledged(s)' = Acknowledged(s)
    BY <2>1 DEF Acknowledged
  <2> QED
    BY <1>0, <2>1, <2>2, <2>3, WriteWithin
<1>5. CASE RxRead \/ \E take, keep \in 0..dataLeft, nl \in BOOLEAN : RxLine(take, keep, nl)
  <2>1. /\ mpc = "rx" /\ mpc' = "rx" /\ msock \in Socks /\ st[msock] \in Reading
        /\ UNCHANGED <<tcp, out, mss, file, owed, resized>>
        /\ st'[msock] \in Reading \cup {"READ_OK"}
        /\ \A t \in Socks : t # msock => st'[t] = st[t] /\ len'[t] = len[t]
    <3>1. CASE RxRead
      BY <1>0, <3>1 DEF RxRead, Announce, Reading
    <3>2. ASSUME NEW take \in 0..dataLeft, NEW keep \in 0..dataLeft, NEW nl \in BOOLEAN,
                 RxLine(take, keep, nl)
          PROVE  <2>1!:
      BY <1>0, <3>2 DEF RxLine, Announce, Reading
    <3> QED
      BY <1>5, <3>1, <3>2
  <2>2. \A s \in Socks : Acknowledged(s) = 0 /\ Acknowledged(s)' = 0
    BY <2>1 DEF Acknowledged
  <2>3. \A c \in Conns : tcp'[c] = "ESTABLISHED" /\ out'[c] > 0 /\ file'[c] # NoSock =>
          \/ resized'[file'[c]]
          \/ out'[c] = (IF len'[file'[c]] <= mss'[c] THEN len'[file'[c]] ELSE mss'[c])
    <3>1. \A c \in Conns : tcp[c] = "ESTABLISHED" /\ out[c] > 0 /\ file[c] # NoSock =>
            file[c] # msock /\ len'[file[c]] = len[file[c]]
      BY <1>0, <2>1 DEF SendState, SentIsWritten, Reading
    <3> QED
      BY <2>1, <3>1 DEF WriteState
  <2>4. \A s \in Socks : ~resized[s] /\ st'[s] = "WRITING" => owed'[s] = len'[s] - Acknowledged(s)'
    BY <2>1, <2>2 DEF WriteState, Reading
  <2>5. \A s \in Socks : ~resized[s] /\ st'[s] = "WRITE_OK" => owed'[s] = 0
    BY <2>1 DEF WriteState, Reading
  <2> QED
    BY <2>1, <2>3, <2>4, <2>5 DEF WriteState
<1> QED
  BY <1>1, <1>2, <1>3, <1>4, <1>5 DEF BodyStep

\* So does what uip_process sends.
LEMMA WriteAfter ==
  ASSUME Inductive, SendState, WriteState, AfterStep
  PROVE  WriteState'
<1> USE DEF Resume, NotUip
<1>0. /\ tcp \in [Conns -> TcpStates] /\ out \in [Conns -> Nat] /\ mss \in [Conns -> Windows]
      /\ ci \in Conns /\ slen \in Nat /\ file \in [Conns -> Socks \cup {NoSock}] /\ mss[ci] \in Nat
  BY InductiveTypes, LengthAssumption
<1>1. CASE AppSend
  <2>1. /\ mpc = "after" /\ mpc' = "next" /\ after = "appsend" /\ flags \cap Stopped = {}
        /\ UNCHANGED <<st, len, tcp, file, mss, owed, resized>>
    BY <1>1 DEF AppSend, Stopped
  <2>2. \A c \in Conns : \/ out'[c] = out[c]
                          \/ /\ c = ci /\ slen > 0
                             /\ out'[c] = (IF slen > mss[c] THEN mss[c] ELSE slen)
    BY <1>0, <1>1 DEF AppSend
  <2>3. slen > 0 => slen = len[file[ci]]
    BY <2>1 DEF SendState
  <2>4. \A c \in Conns : tcp'[c] = "ESTABLISHED" /\ out'[c] > 0 /\ file'[c] # NoSock =>
          \/ resized'[file'[c]]
          \/ out'[c] = (IF len'[file'[c]] <= mss'[c] THEN len'[file'[c]] ELSE mss'[c])
    BY <1>0, <2>1, <2>2, <2>3 DEF WriteState
  <2>5. \A s \in Socks : Acknowledged(s) = 0 /\ Acknowledged(s)' = 0
    BY <2>1 DEF Acknowledged
  <2>6. \A s \in Socks : ~resized[s] =>
          /\ st'[s] = "WRITING" => owed'[s] = len'[s] - Acknowledged(s)'
          /\ st'[s] = "WRITE_OK" => owed'[s] = 0
    BY <2>1, <2>5 DEF WriteState
  <2> QED
    BY <2>1, <2>4, <2>6 DEF WriteState
<1>2. CASE AppAbort \/ AppClose \/ AppLastAck \/ AppSynFail \/ AppDrop
  BY <1>0, <1>2, WriteQuiet DEF AppAbort, AppClose, AppLastAck, AppSynFail, AppDrop
<1> QED
  BY <1>1, <1>2 DEF AfterStep

\* So does every step.
LEMMA WriteNext == Inductive /\ SendState /\ WriteState /\ [Next]_vars => WriteState'
<1>1. ASSUME WriteState, Interrupt \/ PeriodicTick \/ UNCHANGED vars
      PROVE  WriteState'
  <2>1. UNCHANGED <<sockVars, connVars, mainVars, ghostVars>>
    BY <1>1 DEF Interrupt, PeriodicTick
  <2> QED
    BY <1>1, <2>1 DEF WriteState, Acknowledged
<1> QED
  BY <1>1, WriteTask, WriteLoop, WriteAppcall, WriteBody, WriteAfter DEF Next, Main

\* Whatever windows its peer has, a write that reports success has been acknowledged to the
\* last byte, and one that waits has left to send what the peer has not acknowledged: over
\* retransmissions, timeouts, aborts and windows that change between segments, unless one
\* changes while a segment of the write is under way (netAppcallMutex, sock.c:675).
THEOREM WritesConserveAlways == Spec => []WritesConserve
<1>1. Init => WriteState
  BY DEF Init, WriteState
<1>2. Inductive /\ WriteState => WritesConserve
  <2> SUFFICES ASSUME Inductive, WriteState, NEW s \in Socks, ~resized[s]
               PROVE  /\ st[s] = "WRITING"
                        /\ ~(mpc \in {"appcall", "body"} /\ "ACKDATA" \in flags /\ file[ci] = s)
                          => owed[s] = len[s]
                      /\ st[s] = "WRITE_OK" => owed[s] = 0
    BY DEF WritesConserve
  <2> QED
    BY InductiveTypes DEF WriteState, Acknowledged
<1> QED
  BY <1>1, <1>2, WriteNext, InductiveAlways, SendAlways, PTL DEF Spec

-----------------------------------------------------------------------------
(* What uIP has acknowledged is on its way to a read *)

\* What the main thread holds stays, and so does what the socket holds of it.
LEMMA ReadTask ==
  ASSUME "lineTimeout" \notin Calls, NEW s \in Socks, Inductive, ReadState, Task(s)
  PROVE  ReadState'
<1> USE DEF Enter, Return, NotOurs, SameSlot
<1>0. /\ st \in [Socks -> SockStates] /\ len \in [Socks -> Nat] /\ call \in [Socks -> TaskCalls]
      /\ wake \in [Socks -> {"wait", "woken", "expired"}]
      /\ unread \in [Socks -> Int] /\ dataLeft \in Nat /\ ci \in Conns
      /\ file \in [Conns -> Socks \cup {NoSock}] /\ CallState /\ UnusedNull
      /\ UNCHANGED <<mpc, ci, dataLeft>>
  BY InductiveTypes, TaskWriting DEF Inductive
<1>1. \A t \in Socks : t # s => /\ st'[t] = st[t] \/ (st[t] \in Listening /\ st'[t] \in Listening)
                                /\ len'[t] = len[t] /\ unread'[t] = unread[t]
                                /\ wake'[t] = wake[t]
                                /\ call'[t] = call[t] \/ (call'[t] = "idle" /\ st[t] \in Served)
  <2>1. CASE AcceptCheck(s)
    <3>1. \A c \in Conns : file[c] # NoSock => st[file[c]] \in Served
      BY DEF Inductive, Attached
    <3>2. newConn[s] \in Conns \cup {NoConn}
      BY DEF Inductive, TypeOK, SockTypes
    <3> QED
      BY <1>0, <2>1, <3>1, <3>2, NullAssumption DEF AcceptCheck, WaitAgain, AcceptReturn
  <2>2. CASE ~AcceptCheck(s)
    BY <1>0, <2>2 DEF Task, FlagGet, ReadTimeout, ReadCheck, WriteCheck, WaitAgain, ReadReturn,
       WriteReturn, ReadStart, WriteStart, CloseStart, CloseCheck, SockFree, ClearSock, CloseUnlisten,
       CreateTCPServer, SockAlloc, ListenMark, ListenUip, AcceptStart, CreateTCP, ConnectStart,
       ConnectCheck, CreateFail
  <2> QED
    BY <2>1, <2>2
<1>2. \A t \in Socks : Coming(t)' = Coming(t) \/ mpc = "wait"
  BY <1>0, TaskWriting DEF Coming
<1>3. mpc = "wait" => \A t \in Socks : Coming(t) = 0 /\ Coming(t)' = 0
  BY <1>0 DEF Coming
<1>4. mpc' \in {"tail", "after"} /\ file'[ci'] # NoSock => dataLeft' = 0
  BY <1>0, TaskWriting DEF ReadState
<1>5. \A t \in Socks : Coming(t)' = Coming(t) /\ Coming(t) \in Nat
  BY <1>0, <1>2, <1>3 DEF Coming
<1> DEFINE Kept(t) == /\ st'[t] \in Served => unread'[t] = Held(t)' + Coming(t)
                      /\ st'[t] \in {"NULL", "UNDEF_TCP"} /\ call'[t] # "createFail" => unread'[t] = 0
                      /\ st'[t] = "READING_LINE" => wake'[t] # "expired"
<1>6. \A t \in Socks : t # s => Kept(t)
  <2> SUFFICES ASSUME NEW t \in Socks, t # s
               PROVE  Kept(t)
    OBVIOUS
  <2>1. CASE st'[t] = st[t]
    <3>1. Held(t)' = Held(t) /\ unread'[t] = unread[t] /\ wake'[t] = wake[t]
      BY <1>1, <2>1 DEF Held
    <3>2. st[t] \in {"NULL", "UNDEF_TCP"} /\ call'[t] # "createFail" => call[t] # "createFail"
      BY <1>1 DEF Served
    <3> QED
      BY <2>1, <3>1, <3>2 DEF ReadState
  <2>2. CASE st'[t] \in Listening
    BY <2>2 DEF Listening, Served
  <2> QED
    BY <1>1, <2>1, <2>2
<1>7. Kept(s)
  <2>1. CASE FlagGet(s) \/ ReadTimeout(s) \/ ListenUip(s) \/ ListenMark(s)
    BY <1>0, <2>1 DEF FlagGet, ReadTimeout, ListenUip, ListenMark, CallState, ReadState, Held, Served
  <2>2. CASE ReadCheck(s)
    BY <1>0, <1>5, <2>2 DEF ReadCheck, WaitAgain, ReadReturn, CallState, Reading, Gone, ReadState, Held,
       Served
  <2>3. CASE WriteCheck(s)
    BY <1>0, <2>3 DEF WriteCheck, WaitAgain, WriteReturn, CallState, Gone, ReadState, Held, Served
  <2>4. CASE \/ \E state \in Reading, m \in ReadMaxes : ReadStart(s, state, m)
             \/ \E n \in WriteLens : WriteStart(s, n)
    BY <1>0, <1>5, <2>4 DEF ReadStart, WriteStart, Reading, ReadState, Held, Served
  <2>5. CASE CloseStart(s) \/ AcceptStart(s)
    BY <1>0, <2>5 DEF CloseStart, AcceptStart, Gone, ReadState, Held, Served
  <2>6. CASE CloseCheck(s)
    BY <1>0, <2>6 DEF CloseCheck, WaitAgain, SockFree, ClearSock, CallState, Gone, ReadState, Held,
       Served
  <2>7. CASE CloseUnlisten(s) \/ CreateFail(s)
    BY <1>0, <2>7 DEF CloseUnlisten, CreateFail, SockFree, ClearSock, Served
  <2>8. CASE CreateTCP(s) \/ \E p \in Ports : CreateTCPServer(s, p)
    BY <1>0, <2>8 DEF CreateTCP, CreateTCPServer, SockAlloc, FreeSlots, UnusedNull, ReadState, Served
  <2>9. CASE AcceptCheck(s)
    BY <1>0, <2>9 DEF AcceptCheck, WaitAgain, AcceptReturn, CallState, ReadState, Held, Served
  <2>10. CASE ConnectStart(s)
    <3>1. mpc = "wait" /\ st[s] = "UNDEF_TCP" /\ unread[s] = 0
      BY <1>0, <2>10 DEF ConnectStart, UipFree, CallState, ReadState
    <3> QED
      BY <1>0, <1>3, <2>10, <3>1 DEF ConnectStart, SockFree, ClearSock, Held, Served
  <2>11. CASE ConnectCheck(s)
    BY <1>0, <2>11 DEF ConnectCheck, WaitAgain, ClearSock, CallState, Gone, ReadState, Held, Served
  <2> QED
    BY <2>1, <2>2, <2>3, <2>4, <2>5, <2>6, <2>7, <2>8, <2>9, <2>10, <2>11 DEF Task
<1> QED
  BY <1>4, <1>5, <1>6, <1>7 DEF ReadState

\* The sockets stay, and the main thread comes to hold no data or loses none.
LEMMA ReadSame ==
  ASSUME ReadState, UNCHANGED <<st, len, call, wake, unread>>,
         \A s \in Socks : st[s] \in Served => Coming(s)' = Coming(s),
         mpc' \in {"tail", "after"} /\ file'[ci'] # NoSock => dataLeft' = 0
  PROVE  ReadState'
<1>1. \A s \in Socks : Held(s)' = Held(s)
  BY DEF Held
<1> QED
  BY <1>1 DEF ReadState

\* The main loop, input and timers keep the count of the bytes a reader has to get.
LEMMA ReadLoop ==
  ASSUME Inductive, ReadState, MainLoop \/ Input \/ TimerStep
  PROVE  ReadState'
<1> USE DEF NotUip, Appcall, Quiet, Scanning
<1>0. /\ file \in [Conns -> Socks \cup {NoSock}] /\ unread \in [Socks -> Int] /\ ci \in Conns
      /\ mpc \in {"wait", "clear", "scan", "next"} /\ mpc' \in {"wait", "clear", "scan", "next", "appcall"}
      /\ UNCHANGED <<st, len, call, wake, file>>
  <2>1. mpc \in {"wait", "clear", "scan", "next"} /\ UNCHANGED file
    BY DEF MainLoop, SemaWait, ClearRequest, NextConn, Poll, Skip, Input, TimerStep, NoPacket, RecvSyn,
       RecvSynRcvd, RecvSynAck, RecvSynSentBad, RecvRst, RecvData, RecvFin, Finish, TimerRexmit,
       TimerExpire
  <2> QED
    BY <2>1, InductiveTypes, MainElsewhere
<1>1. \A s \in Socks : Coming(s) = 0
  BY <1>0 DEF Coming
<1>2. CASE UNCHANGED unread /\ (mpc' = "appcall" /\ file'[ci'] # NoSock => dataLeft' = 0)
  <2>1. \A s \in Socks : Coming(s)' = 0
    BY <1>0, <1>2, NullAssumption DEF Coming
  <2> QED
    BY <1>0, <1>1, <1>2, <2>1, ReadSame
<1>3. CASE MainLoop \/ NoPacket \/ TimerStep \/ \E c \in Conns, p \in Ports : RecvSyn(c, p)
  BY <1>2, <1>3 DEF MainLoop, SemaWait, ClearRequest, NextConn, Poll, Skip, TimerStep, NoPacket, RecvSyn,
     Finish, TimerRexmit, TimerExpire
<1>4. CASE \E c \in Conns : RecvSynAck(c) \/ RecvSynSentBad(c) \/ RecvRst(c) \/ Finish(c)
  BY <1>2, <1>4 DEF RecvSynAck, RecvSynSentBad, RecvRst, Finish
<1>5. ASSUME NEW c \in Conns, NEW n \in SegLens \cup {0}, RecvSynRcvd(c, n)
      PROVE  ReadState'
  <2>1. file[c] = NoSock
    BY <1>0, <1>5 DEF RecvSynRcvd, Inductive, SpareHasNoFile
  <2> QED
    BY <1>0, <1>2, <1>5, <2>1 DEF RecvSynRcvd
<1>6. ASSUME NEW c \in Conns, NEW n \in Nat, NEW acks \in BOOLEAN, tcp[c] = "ESTABLISHED",
             mpc = "scan", Count(c, n, acks),
             (mpc' = "appcall" /\ ci' = c /\ dataLeft' = n) \/ (mpc' = "next" /\ n = 0)
      PROVE  ReadState'
  <2>1. file[c] \in Socks /\ file[c] # NoSock
    BY <1>0, <1>6 DEF Inductive, EstablishedHasSocket
  <2>2. unread' = [unread EXCEPT ![file[c]] = @ + n]
    BY <2>1, <1>6 DEF Count
  <2>3. \A s \in Socks : Coming(s)' = IF s = file[c] THEN n ELSE 0
    BY <1>0, <1>6, <2>1 DEF Coming
  <2>4. st[file[c]] \in Served
    BY <2>1 DEF Inductive, Attached
  <2>5. \A s \in Socks : st[s] \in Served => unread'[s] = Held(s)' + Coming(s)'
    <3> SUFFICES ASSUME NEW s \in Socks, st[s] \in Served
                 PROVE  unread'[s] = Held(s)' + Coming(s)'
      OBVIOUS
    <3>1. Held(s)' = Held(s) /\ Held(s) \in Nat
      BY <1>0, InductiveTypes DEF Held
    <3>2. unread[s] = Held(s)
      BY <1>1, <3>1 DEF ReadState
    <3> QED
      BY <1>0, <2>1, <2>2, <2>3, <3>1, <3>2
  <2>6. \A s \in Socks : /\ st'[s] \in {"NULL", "UNDEF_TCP"} /\ call'[s] # "createFail" => unread'[s] = 0
                         /\ st'[s] = "READING_LINE" => wake'[s] # "expired"
    BY <1>0, <2>1, <2>2, <2>4 DEF ReadState, Served
  <2> QED
    BY <1>0, <1>6, <2>5, <2>6 DEF ReadState
<1>7. ASSUME NEW c \in Conns, NEW n \in SegLens \cup {0}, NEW acks \in BOOLEAN,
             RecvData(c, n, acks) \/ RecvFin(c, n, acks)
      PROVE  ReadState'
  <2>1. n \in Nat /\ (~(n > 0) => n = 0)
    BY LengthAssumption
  <2> QED
    BY <1>6, <1>7, <2>1 DEF RecvData, RecvFin
<1> QED
  BY <1>3, <1>4, <1>5, <1>7 DEF Input

\* So does the search of an appcall for its socket.
LEMMA ReadAppcall ==
  ASSUME Inductive, ReadState, AppcallStep
  PROVE  ReadState'
<1> USE DEF AppcallFrame, SameCall, SameSocks, Connected, Cur
<1>0. /\ st \in [Socks -> SockStates] /\ call \in [Socks -> TaskCalls] /\ ci \in Conns
      /\ unread \in [Socks -> Int] /\ file \in [Conns -> Socks \cup {NoSock}] /\ dataLeft \in Nat
      /\ (mpc \in WithListener => lsock \in Socks /\ file[ci] = NoSock) /\ UnusedNull
  BY InductiveTypes DEF Inductive, AppcallState, UpcallFile
<1>1. CASE \/ ConnectedRefuse \/ ListenFull \/ ListenExpire \/ NoSocket
           \/ \E s \in Socks : HookRefuse(s)
  <2>1. mpc' = "after" /\ file[ci] = NoSock /\ UNCHANGED <<st, len, call, wake, unread, ci, file, dataLeft>>
    BY <1>0, <1>1 DEF ConnectedRefuse, ListenFull, ListenExpire, ListenLocked, NoSocket, HookRefuse,
       Abort
  <2> QED
    BY <2>1, NullAssumption, ReadSame DEF Coming
<1>2. CASE ListenCheck \/ ListenWait \/ LockSock \/ \E s \in Socks : FindListener(s)
  <2>1. /\ mpc \in WithListener \cup {"appcall", "lock"} /\ mpc' \in WithListener \cup {"body"}
        /\ UNCHANGED <<st, len, call, wake, unread, ci, file, dataLeft>>
    BY <1>2 DEF ListenCheck, ListenLocked, ListenWait, MainWait, LockSock, FindListener
  <2> QED
    BY <2>1, ReadSame DEF Coming
<1>3. CASE ConnectOk
  <2>1. /\ mpc = "appcall" /\ mpc' = "lock" /\ file[ci] \in Socks
        /\ UNCHANGED <<len, call, wake, unread, ci, file, dataLeft>>
        /\ \A t \in Socks : st'[t] = st[t] \/ (st[t] = "CONNECT" /\ st'[t] = "CONNECT_OK")
    BY <1>0, <1>3 DEF ConnectOk, Announce
  <2>2. \A t \in Socks : Held(t)' = Held(t) /\ Coming(t)' = Coming(t)
    BY <2>1 DEF Held, Coming
  <2> QED
    BY <2>1, <2>2 DEF ReadState, Served
<1>4. ASSUME NEW s \in Socks, HookAccept(s) \/ ListenAccept(s)
      PROVE  ReadState'
  <2>1. /\ mpc \in WithListener \cup {"appcall"} /\ mpc' = "lock" /\ file[ci] = NoSock
        /\ st[s] = "NULL" /\ call[s] = "none" /\ st'[s] = "BUSY"
        /\ file' = [file EXCEPT ![ci] = s] /\ unread' = [unread EXCEPT ![s] = dataLeft]
        /\ UNCHANGED <<len, wake, ci, dataLeft>>
        /\ \A t \in Socks : t # s => call'[t] = call[t]
        /\ \A t \in Socks : t # s => st'[t] = st[t] \/ st'[t] = "ACCEPTED"
    BY <1>0, <1>4 DEF HookAccept, ListenAccept, ListenLocked, NewSock, FreeSlots, UnusedNull
  <2>2. \A t \in Socks : Coming(t) = 0 /\ Coming(t)' = IF t = s THEN dataLeft ELSE 0
    BY <1>0, <2>1, NullAssumption DEF Coming
  <2>3. \A t \in Socks : t # s /\ st'[t] = st[t] => Held(t)' = Held(t)
    BY <2>1 DEF Held
  <2>4. Held(s)' = 0 /\ unread'[s] = dataLeft
    BY <1>0, <2>1 DEF Held
  <2>5. \A t \in Socks : st'[t] \in Served => unread'[t] = Held(t)' + Coming(t)'
    <3>1. unread'[s] = Held(s)' + Coming(s)'
      BY <1>0, <2>2, <2>4
    <3>2. ASSUME NEW t \in Socks, t # s, st'[t] \in Served
          PROVE  unread'[t] = Held(t)' + Coming(t)'
      <4>1. st'[t] = st[t] /\ unread'[t] = unread[t] /\ unread[t] = Held(t) + Coming(t)
        BY <1>0, <2>1, <3>2 DEF Served, ReadState
      <4> QED
        BY <2>2, <2>3, <3>2, <4>1
    <3> QED
      BY <3>1, <3>2
  <2>6. \A t \in Socks : /\ st'[t] \in {"NULL", "UNDEF_TCP"} /\ call'[t] # "createFail" => unread'[t] = 0
                         /\ st'[t] = "READING_LINE" => wake'[t] # "expired"
    BY <1>0, <2>1 DEF ReadState
  <2> QED
    BY <2>1, <2>5, <2>6 DEF ReadState
<1> QED
  BY <1>1, <1>2, <1>3, <1>4 DEF AppcallStep

\* The connection of the appcall lets go of its socket.
LEMMA ReadDrop ==
  ASSUME Inductive, ReadState, mpc \in WithSock, file[ci] = msock,
         UNCHANGED <<len, call, wake, unread, ci>>,
         \/ AppcallClose("PEER_ABORTED") \/ AppcallClose("PEER_CLOSED") \/ AppcallClose("CLOSE_OK")
  PROVE  ReadState'
<1>0. /\ st \in [Socks -> SockStates] /\ file \in [Conns -> Socks \cup {NoSock}] /\ ci \in Conns
      /\ msock \in Socks
  BY InductiveTypes
<1>1. /\ file'[ci'] = NoSock /\ st'[msock] \in Gone \cup {"CLOSE_OK"}
      /\ \A t \in Socks : t # msock => st'[t] = st[t]
  BY <1>0 DEF AppcallClose, Announce, Gone
<1>2. \A t \in Socks : t # msock => Coming(t) = 0 /\ Coming(t)' = 0 /\ Held(t)' = Held(t)
  BY <1>0, <1>1, NullAssumption DEF Coming, Held
<1>3. \A t \in Socks : t # msock =>
        /\ st'[t] \in Served => unread'[t] = Held(t)' + Coming(t)'
        /\ st'[t] \in {"NULL", "UNDEF_TCP"} /\ call'[t] # "createFail" => unread'[t] = 0
        /\ st'[t] = "READING_LINE" => wake'[t] # "expired"
  BY <1>1, <1>2 DEF ReadState
<1>4. st'[msock] \notin Served \cup {"NULL", "UNDEF_TCP", "READING_LINE"}
  BY <1>1 DEF Gone, Served
<1> QED
  BY <1>1, <1>3, <1>4 DEF ReadState

\* So does each part of netTcpAppcallMutex.
LEMMA ReadBody ==
  ASSUME Inductive, ReadState, BodyStep
  PROVE  ReadState'
<1> USE DEF AppcallFrame, BodyFrame, SameCall, SameSocks
<1>0. /\ st \in [Socks -> SockStates] /\ len \in [Socks -> Nat] /\ max \in [Socks -> Nat]
      /\ unread \in [Socks -> Int] /\ ci \in Conns /\ dataLeft \in Nat
      /\ file \in [Conns -> Socks \cup {NoSock}] /\ (mpc \in WithSock => msock \in Socks)
      /\ (mpc \in {"body", "rxWait", "rxLock", "rxExpired"} => file[ci] = msock)
  BY InductiveTypes DEF Inductive, AppcallState, UpcallFile, TypeOK, SockTypes
<1>1. CASE BodyAborted
  BY <1>0, <1>1, ReadDrop DEF BodyAborted
<1>2. CASE BodyAcked
  <2>1. /\ mpc = "body" /\ mpc' = "rx" /\ msock \in Socks /\ st[msock] = "WRITING"
        /\ st'[msock] \in {"WRITING", "WRITE_OK"}
        /\ \A t \in Socks : t # msock => st'[t] = st[t] /\ len'[t] = len[t]
        /\ UNCHANGED <<file, ci, dataLeft, unread, call, wake>>
    BY <1>0, <1>2 DEF BodyAcked, Announce
  <2>2. \A t \in Socks : Held(t)' = Held(t) /\ Coming(t)' = Coming(t)
    BY <2>1 DEF Held, Coming
  <2> QED
    BY <2>1, <2>2 DEF ReadState, Served
<1>3. CASE BodyPlain \/ RxBlock \/ RxWait \/ RxLock
  <2>1. /\ mpc \in WithSock \ {"tail"} /\ mpc' \in WithSock \ {"tail"}
        /\ UNCHANGED <<st, len, file, ci, dataLeft, unread, call, wake>>
    BY <1>3 DEF BodyPlain, RxBlock, RxWait, MainWait, RxLock
  <2> QED
    BY <2>1, ReadSame DEF Coming
<1>4. CASE RxExpire
  BY <1>0, <1>4, ReadDrop DEF RxExpire
<1>5. CASE RxDone \/ TailSend \/ TailPlain
  <2>1. /\ mpc \in WithSock /\ mpc' \in {"tail", "after"} /\ (mpc # "tail" => dataLeft = 0)
        /\ UNCHANGED <<st, len, file, ci, dataLeft, unread, call, wake>>
    BY <1>5 DEF RxDone, TailSend, TailPlain, TailUnlock
  <2>2. file[ci] # NoSock => dataLeft = 0
    BY <2>1 DEF ReadState
  <2> QED
    BY <2>1, <2>2, ReadSame DEF Coming
<1>6. CASE TailPeerClosed \/ TailClose
  <2>1. file[ci] = msock
    BY <1>0, <1>6 DEF TailPeerClosed, TailClose, TailUnlock, AppcallState, UpcallFlags, UpcallFile, Told,
       Answered, Ended, TypeOK, MainTypes, Inductive
  <2> QED
    BY <1>6, <2>1, ReadDrop DEF TailPeerClosed, TailClose, TailUnlock
<1>7. ASSUME mpc = "rx", mpc' = "rx", dataLeft > 0, st[msock] \in Reading,
             st'[msock] \in {st[msock], "READ_OK"},
             \A t \in Socks : t # msock => st'[t] = st[t] /\ len'[t] = len[t] /\ unread'[t] = unread[t],
             UNCHANGED <<file, ci, call, wake, msock>>,
             Held(msock)' + dataLeft' - unread'[msock] = Held(msock) + dataLeft - unread[msock],
             unread'[msock] \in Int, Held(msock)' \in Nat, dataLeft' \in Nat
      PROVE  ReadState'
  <2>1. file[ci] = msock /\ msock \in Socks
    <3>1. "NEWDATA" \in flags /\ Told
      BY <1>0, <1>7 DEF Inductive, AppcallState, UpcallFlags
    <3>2. flags \cap Ended = {}
      BY <3>1, InductiveTypes DEF Told, Ended, Inductive, TypeOK, MainTypes
    <3> QED
      BY <1>0, <1>7, <3>2 DEF Inductive, AppcallState, UpcallFile
  <2>2. Coming(msock) = dataLeft /\ Coming(msock)' = dataLeft'
    BY <1>7, <2>1 DEF Coming
  <2>3. \A t \in Socks : t # msock => Coming(t) = 0 /\ Coming(t)' = 0 /\ Held(t)' = Held(t)
    BY <1>7, <2>1 DEF Coming, Held
  <2>4. Held(msock) \in Nat /\ unread[msock] \in Int /\ unread[msock] = Held(msock) + dataLeft
    BY <1>0, <1>7, <2>1, <2>2 DEF Held, ReadState, Reading, Served
  <2>5. unread'[msock] = Held(msock)' + Coming(msock)'
    BY <1>0, <1>7, <2>2, <2>4
  <2>6. \A t \in Socks : st'[t] \in Served => unread'[t] = Held(t)' + Coming(t)'
    BY <1>7, <2>3, <2>5 DEF ReadState
  <2>7. \A t \in Socks : /\ st'[t] \in {"NULL", "UNDEF_TCP"} /\ call'[t] # "createFail" => unread'[t] = 0
                         /\ st'[t] = "READING_LINE" => wake'[t] # "expired"
    BY <1>7 DEF ReadState, Reading
  <2> QED
    BY <1>7, <2>6, <2>7 DEF ReadState
<1>8. CASE RxRead
  <2> DEFINE n == IF dataLeft > max[msock] THEN max[msock] ELSE dataLeft
  <2>1. msock \in Socks /\ n \in Nat /\ len'[msock] = n /\ dataLeft' = dataLeft - n
        /\ dataLeft' \in Nat /\ st[msock] = "READING" /\ st'[msock] = "READ_OK"
        /\ UNCHANGED <<unread, msock>>
    BY <1>0, <1>8 DEF RxRead, Announce
  <2>2. Held(msock) = 0 /\ Held(msock)' = n
    BY <2>1 DEF Held
  <2>3. /\ mpc = "rx" /\ mpc' = "rx" /\ dataLeft > 0
        /\ \A t \in Socks : t # msock => st'[t] = st[t] /\ len'[t] = len[t] /\ unread'[t] = unread[t]
        /\ UNCHANGED <<file, ci, call, wake, msock>>
    BY <1>0, <1>8 DEF RxRead, Announce
  <2>4. unread[msock] \in Int
    BY <1>0, <2>1
  <2>5. Held(msock)' + dataLeft' - unread'[msock] = Held(msock) + dataLeft - unread[msock]
    BY <1>0, <2>1, <2>2, <2>4
  <2> QED
    BY <1>7, <2>1, <2>2, <2>3, <2>4, <2>5 DEF Reading
<1>9. ASSUME NEW take \in 0..dataLeft, NEW keep \in 0..dataLeft, NEW nl \in BOOLEAN,
             RxLine(take, keep, nl)
      PROVE  ReadState'
  <2>1. /\ msock \in Socks /\ len'[msock] = len[msock] + keep /\ dataLeft' = dataLeft - take
        /\ unread'[msock] = unread[msock] - (take - keep) /\ st[msock] = "READING_LINE"
        /\ st'[msock] \in {"READING_LINE", "READ_OK"} /\ UNCHANGED msock
    BY <1>0, <1>9 DEF RxLine, Announce
  <2>2. Held(msock) = len[msock] /\ Held(msock)' = len[msock] + keep /\ dataLeft' \in Nat
    BY <1>0, <2>1 DEF Held
  <2>3. /\ mpc = "rx" /\ mpc' = "rx" /\ dataLeft > 0
        /\ \A t \in Socks : t # msock => st'[t] = st[t] /\ len'[t] = len[t] /\ unread'[t] = unread[t]
        /\ UNCHANGED <<file, ci, call, wake, msock>>
    BY <1>0, <1>9 DEF RxLine, Announce
  <2>4. unread[msock] \in Int /\ len[msock] \in Nat /\ take \in Int /\ keep \in Nat
    BY <1>0, <2>1
  <2>5. Held(msock)' + dataLeft' - unread'[msock] = Held(msock) + dataLeft - unread[msock]
    BY <1>0, <2>1, <2>2, <2>4
  <2>6. unread'[msock] \in Int /\ Held(msock)' \in Nat
    BY <2>1, <2>2, <2>4
  <2> QED
    BY <1>7, <2>1, <2>2, <2>3, <2>5, <2>6 DEF Reading
<1> QED
  BY <1>1, <1>2, <1>3, <1>4, <1>5, <1>6, <1>8, <1>9 DEF BodyStep

\* So does what uip_process acknowledges.
LEMMA ReadAfter ==
  ASSUME Inductive, ReadState, AfterStep
  PROVE  ReadState'
<1> USE DEF Resume, NotUip
<1>1. /\ mpc = "after" /\ mpc' = "next"
      /\ UNCHANGED <<st, len, call, wake, unread, ci, file, dataLeft>>
  BY DEF AfterStep, AppAbort, AppClose, AppSend, AppLastAck, AppSynFail, AppDrop
<1>2. \A s \in Socks : Coming(s) = 0 /\ Coming(s)' = 0
  BY <1>1, NullAssumption, InductiveTypes DEF Coming, ReadState
<1> QED
  BY <1>1, <1>2, ReadSame

\* So does every step, if no read of a line times out.
LEMMA ReadNext ==
  ASSUME "lineTimeout" \notin Calls
  PROVE  Inductive /\ ReadState /\ [Next]_vars => ReadState'
<1>1. ASSUME ReadState, Interrupt \/ PeriodicTick \/ UNCHANGED vars
      PROVE  ReadState'
  <2>1. UNCHANGED <<st, len, call, wake, unread, mpc, ci, file, dataLeft>>
    BY <1>1 DEF Interrupt, PeriodicTick
  <2>2. mpc' \in {"tail", "after"} /\ file'[ci'] # NoSock => dataLeft' = 0
    BY <1>1, <2>1 DEF ReadState
  <2> QED
    BY <1>1, <2>1, <2>2, ReadSame DEF Coming
<1> QED
  BY <1>1, ReadTask, ReadLoop, ReadAppcall, ReadBody, ReadAfter DEF Next, Main

\* No byte that uIP has acknowledged to the peer is lost while a socket is in
\* service: it is in the buffer of a read that has not returned or in the segment
\* that the main thread holds until somebody reads.  (A read of a line that times
\* out gives its part of the line away, hence the hypothesis.)
THEOREM ReadsConserveAlways ==
  ASSUME "lineTimeout" \notin Calls
  PROVE  Spec => []ReadsConserve
<1>1. Init => ReadState
  BY NullAssumption DEF Init, ReadState, Served, Held, Coming
<1>2. Inductive /\ ReadState => ReadsConserve
  <2> SUFFICES ASSUME Inductive, ReadState, NEW s \in Socks, st[s] \in Served
               PROVE  unread[s] = (IF st[s] \in {"READ_OK", "READING_LINE"} THEN len[s] ELSE 0)
                        + (IF \E c \in Conns : Upcall(c) /\ file[c] = s THEN dataLeft ELSE 0)
    BY DEF ReadsConserve
  <2>1. (\E c \in Conns : Upcall(c) /\ file[c] = s) <=> (Upcall(ci) /\ file[ci] = s)
    BY InductiveTypes
  <2>2. unread[s] = Held(s) + Coming(s)
    BY DEF ReadState
  <2> QED
    BY <2>1, <2>2 DEF Held, Coming
<1> QED
  BY <1>1, <1>2, ReadNext, InductiveAlways, PTL DEF Spec
=============================================================================
