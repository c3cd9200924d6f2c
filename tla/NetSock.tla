------------------------------ MODULE NetSock ------------------------------
(***************************************************************************)
(* The socket layer of sock.c for TCP: the application tasks calling the   *)
(* socket functions, the network main loop, and uIP's connection table as  *)
(* far as the socket layer sees it (sequence numbers, checksums and timers *)
(* are left to the wire, which may deliver any segment uIP accepts).       *)
(*                                                                         *)
(* Every socket is served by one task, as docs and examples do it.  A      *)
(* critical section of a task that blocks nowhere is one step, enabled     *)
(* when the socket's mutex is not held by another thread; the main thread  *)
(* takes the mutex in one step and gives it back in a later one.           *)
(***************************************************************************)
EXTENDS Integers, FiniteSets

CONSTANTS
  Socks,        \* slots of netSocketTable, SOCK_TABSIZE of them
  NConns,       \* UIP_CONNS
  Ports,        \* local ports an application listens on
  NoSock, NoPort,
  AcceptHook,   \* acceptHook # NULL
  Calls,        \* the calls the application makes
  WriteLens,    \* lengths it writes
  ReadMaxes,    \* buffer sizes it reads into
  SegLens,      \* data lengths of incoming segments
  Windows,      \* values uip_mss() may take
  MaxListen,    \* UIP_LISTENPORTS
  MaxRtx,       \* UIP_MAXRTX
  MaxSynRtx,    \* UIP_MAXSYNRTX
  MaxGiant      \* bound on the count of the semaphore uipGiant

Conns == 1..NConns
NoConn == 0

ASSUME ConnsAssumption == NConns \in Nat \ {0}
ASSUME NullAssumption == NoSock \notin Socks /\ NoPort \notin Ports
ASSUME SwitchAssumption == AcceptHook \in BOOLEAN
ASSUME LengthAssumption ==
  /\ WriteLens \subseteq Nat /\ ReadMaxes \subseteq Nat /\ SegLens \subseteq Nat
  /\ Windows \subseteq Nat \ {0}
ASSUME BoundAssumption ==
  /\ MaxListen \in Nat /\ MaxRtx \in Nat /\ MaxSynRtx \in Nat
  /\ MaxGiant \in Nat \ {0}

VARIABLES
  \* struct netSock, and its bit in the table
  used, st, mutex, sockChange, uipChange, len, max, port, newConn,
  \* the task that serves the socket: the call it is in, and how its wait ended
  call, wake,
  \* struct uip_conn; uip_listenports
  tcp, file, out, mss, nrtx, lport, listenports,
  \* the main thread: where it is, its loop, and its locals and uip_ globals
  mpc, phase, ci, flags, after, dataLeft, slen, msock, lsock, sendRequested,
  \* what wakes it
  dataToSend, giant, periodic,
  \* ghosts: bytes of the write that the peer has not acknowledged; writes whose window
  \* the peer changed while bytes of theirs were under way; and bytes acknowledged to the
  \* peer that no read has returned
  owed, resized, unread

slotVars == <<used, port, newConn>>
bufVars == <<len, max>>
syncVars == <<mutex, sockChange, uipChange>>
sockVars == <<slotVars, bufVars, syncVars, st>>
taskVars == <<call, wake>>
connVars == <<tcp, file, out, mss, nrtx, lport>>
uipVars == <<connVars, listenports>>
loopVars == <<phase, ci, after, sendRequested>>
callVars == <<flags, dataLeft, slen, msock, lsock>>
mainVars == <<mpc, loopVars, callVars>>
wakeVars == <<dataToSend, giant, periodic>>
ghostVars == <<owed, resized, unread>>
vars == <<sockVars, taskVars, uipVars, mainVars, wakeVars, ghostVars>>

SockStates == {"NULL", "UNDEF_TCP", "BUSY", "READING", "READING_LINE", "READ_OK",
  "WRITING", "WRITE_OK", "CONNECT", "CONNECT_OK", "CLOSE", "CLOSE_OK", "PEER_CLOSED",
  "PEER_ABORTED", "BOUND", "LISTENING", "ACCEPTING", "ACCEPTED"}
Gone == {"PEER_CLOSED", "PEER_ABORTED"}
Reading == {"READING", "READING_LINE"}
Listening == {"LISTENING", "ACCEPTING", "ACCEPTED"}

\* FINISHING stands for FIN_WAIT_1, FIN_WAIT_2, CLOSING, LAST_ACK and TIME_WAIT,
\* in which uIP no longer calls upon a socket.
TcpStates == {"CLOSED", "SYN_RCVD", "SYN_SENT", "ESTABLISHED", "FINISHING"}
Flags == {"CONNECTED", "ABORT", "TIMEDOUT", "ACKDATA", "NEWDATA", "REXMIT", "CLOSE", "POLL"}

\* Calls that wait for uipChange.
Waiting == {"accept", "read", "write", "close", "connect"}
TaskCalls == Waiting \cup {"none", "idle", "listen", "unlisten", "create", "createFail"}

Init ==
  /\ used = [s \in Socks |-> FALSE] /\ st = [s \in Socks |-> "NULL"]
  /\ mutex = [s \in Socks |-> "null"]
  /\ sockChange = [s \in Socks |-> FALSE] /\ uipChange = [s \in Socks |-> FALSE]
  /\ len = [s \in Socks |-> 0] /\ max = [s \in Socks |-> 0]
  /\ port = [s \in Socks |-> NoPort] /\ newConn = [s \in Socks |-> NoConn]
  /\ call = [s \in Socks |-> "none"] /\ wake = [s \in Socks |-> "wait"]
  /\ tcp = [c \in Conns |-> "CLOSED"] /\ file = [c \in Conns |-> NoSock]
  /\ out = [c \in Conns |-> 0] /\ mss \in [Conns -> Windows]
  /\ nrtx = [c \in Conns |-> 0] /\ lport = [c \in Conns |-> NoPort]
  /\ listenports = {}
  /\ mpc = "wait" /\ phase = "net" /\ ci = 1 /\ flags = {} /\ after = "drop"
  /\ dataLeft = 0 /\ slen = 0 /\ msock = NoSock /\ lsock = NoSock
  /\ sendRequested = FALSE
  /\ dataToSend = FALSE /\ giant = 0 /\ periodic = FALSE
  /\ owed = [s \in Socks |-> 0] /\ resized = [s \in Socks |-> FALSE]
  /\ unread = [s \in Socks |-> 0]

-----------------------------------------------------------------------------
(* Locks, flags and the socket table *)

\* The main thread holds uipMutex except while it waits on uipGiant.
UipFree == mpc = "wait"

\* posMutexLock by the socket's own task; a pico]OS mutex is recursive.
TaskLocks(s) == mutex[s] \in {"free", "app"}

\* posSemaSignal(uipGiant)
Signal == giant' = IF giant < MaxGiant THEN giant + 1 ELSE giant

FreeSlots == {s \in Socks : ~used[s]}

\* netSockAlloc of slot s.  timeout and port share their storage.
SockAlloc(s, state, p) ==
  /\ used' = [used EXCEPT ![s] = TRUE]
  /\ mutex' = [mutex EXCEPT ![s] = "free"]
  /\ sockChange' = [sockChange EXCEPT ![s] = FALSE]
  /\ len' = [len EXCEPT ![s] = 0] /\ max' = [max EXCEPT ![s] = 0]
  /\ port' = [port EXCEPT ![s] = p]
  /\ st' = [st EXCEPT ![s] = state]
  /\ uipChange' = [uipChange EXCEPT ![s] = FALSE]

\* netSockFree: the bit of the table stays set.
ClearSock(s) ==
  /\ mutex' = [mutex EXCEPT ![s] = "null"]
  /\ sockChange' = [sockChange EXCEPT ![s] = FALSE]
  /\ uipChange' = [uipChange EXCEPT ![s] = FALSE]
  /\ st' = [st EXCEPT ![s] = "NULL"]

\* The new state of a socket, announced to its task.
Announce(s, state) ==
  /\ st' = [st EXCEPT ![s] = state]
  /\ uipChange' = [uipChange EXCEPT ![s] = TRUE]

\* Wrong: the connection keeps its file.
AppcallCloseKeepsFile(state) == Announce(msock, state) /\ UNCHANGED file

\* Wrong: the flag is not set.
AppcallCloseSilent(state) ==
  /\ file' = [file EXCEPT ![ci] = NoSock]
  /\ st' = [st EXCEPT ![msock] = state] /\ UNCHANGED uipChange

\* netAppcallClose on the connection of the current appcall
AppcallClose(state) ==
  /\ file' = [file EXCEPT ![ci] = NoSock]
  /\ Announce(msock, state)

-----------------------------------------------------------------------------
(* The application tasks *)

Enter(s, name, how) ==
  /\ call' = [call EXCEPT ![s] = name]
  /\ wake' = [wake EXCEPT ![s] = how]

Return(s) == Enter(s, "idle", "wait")

\* netSockFree by the task, which is then done with the socket
SockFree(s) ==
  /\ ClearSock(s)
  /\ Enter(s, "none", "wait")
  /\ owed' = [owed EXCEPT ![s] = 0] /\ resized' = [resized EXCEPT ![s] = FALSE]
  /\ unread' = [unread EXCEPT ![s] = 0]

\* What a call of a task leaves alone: uIP, the main thread and, here, the slot.
NotOurs == UNCHANGED <<uipVars, mainVars>>
SameSlot == UNCHANGED slotVars

\* dataToSend = 1 and posSemaSignal(uipGiant)
RequestSend == dataToSend' = TRUE /\ Signal /\ UNCHANGED periodic

WaitAgain(s) ==
  /\ wake' = [wake EXCEPT ![s] = "wait"]
  /\ UNCHANGED <<call, st, len, syncVars, ghostVars>>

\* posFlagGet(sock->uipChange) in every call that waits
FlagGet(s) ==
  /\ call[s] \in Waiting /\ wake[s] = "wait" /\ uipChange[s]
  /\ uipChange' = [uipChange EXCEPT ![s] = FALSE]
  /\ wake' = [wake EXCEPT ![s] = "woken"]
  /\ SameSlot /\ NotOurs
  /\ UNCHANGED <<st, mutex, sockChange, bufVars, call, wakeVars, ghostVars>>

\* posFlagWait(sock->uipChange, timeout) = 0 in sockReadInternal
ReadTimeout(s) ==
  /\ (IF st[s] = "READING_LINE" THEN "lineTimeout" ELSE "readTimeout") \in Calls
  /\ call[s] = "read" /\ wake[s] = "wait" /\ ~uipChange[s]
  /\ wake' = [wake EXCEPT ![s] = "expired"]
  /\ NotOurs /\ UNCHANGED <<call, sockVars, wakeVars, ghostVars>>

\* A socket whose peer is gone answers every call at once, with no other effect.
ReadStart(s, state, m) ==
  /\ IF state = "READING" THEN "read" \in Calls ELSE "readLine" \in Calls
  /\ call[s] = "idle" /\ TaskLocks(s) /\ st[s] = "BUSY"
  /\ st' = [st EXCEPT ![s] = state]
  /\ max' = [max EXCEPT ![s] = m] /\ len' = [len EXCEPT ![s] = 0]
  /\ sockChange' = [sockChange EXCEPT ![s] = TRUE]
  /\ Enter(s, "read", "wait")
  /\ SameSlot /\ NotOurs /\ UNCHANGED <<mutex, uipChange, wakeVars, ghostVars>>

\* Wrong: the state stays READ_OK.
ReadReturnKeeps(s) ==
  /\ unread' = [unread EXCEPT ![s] = IF st[s] = "READ_OK" THEN @ - len[s] ELSE @]
  /\ Return(s)
  /\ UNCHANGED <<st, len, syncVars, owed, resized>>

\* A read that times out returns NET_SOCK_TIMEOUT, whatever READ_LINE has so far.
ReadReturn(s) ==
  /\ st' = [st EXCEPT ![s] = IF @ \in Gone THEN @ ELSE "BUSY"]
  /\ unread' = [unread EXCEPT ![s] = IF st[s] = "READ_OK" THEN @ - len[s] ELSE @]
  /\ Return(s)
  /\ UNCHANGED <<len, syncVars, owed, resized>>

ReadCheck(s) ==
  /\ call[s] = "read" /\ wake[s] # "wait" /\ TaskLocks(s)
  /\ IF st[s] \in Reading /\ wake[s] = "woken" THEN WaitAgain(s) ELSE ReadReturn(s)
  /\ SameSlot /\ NotOurs /\ UNCHANGED <<max, wakeVars>>

WriteStart(s, n) ==
  /\ "write" \in Calls
  /\ call[s] = "idle" /\ TaskLocks(s) /\ st[s] = "BUSY"
  /\ st' = [st EXCEPT ![s] = "WRITING"]
  /\ len' = [len EXCEPT ![s] = n]
  /\ owed' = [owed EXCEPT ![s] = n] /\ resized' = [resized EXCEPT ![s] = FALSE]
  /\ RequestSend
  /\ Enter(s, "write", "wait")
  /\ SameSlot /\ NotOurs /\ UNCHANGED <<max, syncVars, unread>>

WriteReturn(s) ==
  /\ st' = [st EXCEPT ![s] = IF @ \in Gone THEN @ ELSE "BUSY"]
  /\ Return(s)
  /\ UNCHANGED <<len, syncVars, ghostVars>>

\* Wrong: an if in place of the while.
WriteCheckOnce(s) ==
  /\ call[s] = "write" /\ wake[s] = "woken" /\ TaskLocks(s)
  /\ WriteReturn(s)
  /\ SameSlot /\ NotOurs /\ UNCHANGED <<max, wakeVars>>

WriteCheck(s) ==
  /\ call[s] = "write" /\ wake[s] = "woken" /\ TaskLocks(s)
  /\ IF st[s] = "WRITING" THEN WaitAgain(s) ELSE WriteReturn(s)
  /\ SameSlot /\ NotOurs /\ UNCHANGED <<max, wakeVars>>

\* sockClose up to its wait; a socket that is not BUSY does not wait.
CloseStart(s) ==
  /\ call[s] = "idle" /\ TaskLocks(s)
  /\ \/ "close" \in Calls /\ st[s] \in {"BUSY"} \cup Gone
     \/ "closeListen" \in Calls /\ st[s] = "LISTENING"
     \/ "closeBound" \in Calls /\ st[s] = "BOUND"
  /\ IF st[s] = "BUSY"
     THEN st' = [st EXCEPT ![s] = "CLOSE"] /\ RequestSend /\ Enter(s, "close", "wait")
     ELSE Enter(s, "close", "woken") /\ UNCHANGED <<st, wakeVars>>
  /\ SameSlot /\ NotOurs /\ UNCHANGED <<bufVars, syncVars, ghostVars>>

\* A listening socket waits for uipMutex with its own mutex held.
CloseCheck(s) ==
  /\ call[s] = "close" /\ wake[s] = "woken" /\ TaskLocks(s)
  /\ \/ st[s] = "CLOSE" /\ WaitAgain(s)
     \/ /\ st[s] = "LISTENING"
        /\ mutex' = [mutex EXCEPT ![s] = "app"]
        /\ Enter(s, "unlisten", "wait")
        /\ UNCHANGED <<st, len, sockChange, uipChange, ghostVars>>
     \/ /\ st[s] \notin {"CLOSE", "LISTENING"}
        /\ SockFree(s)
        /\ UNCHANGED len
  /\ SameSlot /\ NotOurs /\ UNCHANGED <<max, wakeVars>>

\* Wrong: uipMutex is not taken.
CloseUnlistenUnlocked(s) ==
  /\ call[s] = "unlisten"
  /\ listenports' = listenports \ {port[s]}
  /\ port' = [port EXCEPT ![s] = NoPort]
  /\ SockFree(s)
  /\ UNCHANGED <<used, newConn, bufVars, connVars, mainVars, wakeVars>>

CloseUnlisten(s) ==
  /\ call[s] = "unlisten" /\ UipFree
  /\ listenports' = listenports \ {port[s]}
  /\ port' = [port EXCEPT ![s] = NoPort]
  /\ SockFree(s)
  /\ UNCHANGED <<used, newConn, bufVars, connVars, mainVars, wakeVars>>

\* netSockCreateTCPServer: netSockAlloc and netSockBind.  One socket per port.
CreateTCPServer(s, p) ==
  /\ "listen" \in Calls
  /\ s \in FreeSlots /\ \A t \in Socks : port[t] # p
  /\ SockAlloc(s, "BOUND", p)
  /\ Return(s)
  /\ NotOurs /\ UNCHANGED <<newConn, wakeVars, ghostVars>>

\* netSockListen marks the socket, and only then tells uIP of the port, which
\* uip_listen ignores when its table is full.
ListenMark(s) ==
  /\ call[s] = "idle" /\ st[s] = "BOUND" /\ TaskLocks(s)
  /\ st' = [st EXCEPT ![s] = "LISTENING"]
  /\ call' = [call EXCEPT ![s] = "listen"]
  /\ SameSlot /\ NotOurs /\ UNCHANGED <<bufVars, syncVars, wake, wakeVars, ghostVars>>

ListenUip(s) ==
  /\ call[s] = "listen" /\ UipFree
  /\ listenports' = IF Cardinality(listenports) < MaxListen
                    THEN listenports \cup {port[s]} ELSE listenports
  /\ Return(s)
  /\ UNCHANGED <<sockVars, connVars, mainVars, wakeVars, ghostVars>>

AcceptStart(s) ==
  /\ "accept" \in Calls
  /\ call[s] = "idle" /\ TaskLocks(s) /\ st[s] = "LISTENING"
  /\ st' = [st EXCEPT ![s] = "ACCEPTING"]
  /\ sockChange' = [sockChange EXCEPT ![s] = TRUE]
  /\ Enter(s, "accept", "wait")
  /\ SameSlot /\ NotOurs /\ UNCHANGED <<mutex, uipChange, bufVars, wakeVars, ghostVars>>

\* The socket that netSockAccept returns is whatever the connection holds now.
AcceptReturn(s) ==
  LET f == IF newConn[s] = NoConn THEN NoSock ELSE file[newConn[s]] IN
  /\ call' = [t \in Socks |-> IF t = s \/ t = f THEN "idle" ELSE call[t]]
  /\ newConn' = [newConn EXCEPT ![s] = NoConn]
  /\ st' = [st EXCEPT ![s] = "LISTENING"]
  /\ wake' = [wake EXCEPT ![s] = "wait"]
  /\ UNCHANGED <<used, port, len, syncVars, ghostVars>>

AcceptCheck(s) ==
  /\ call[s] = "accept" /\ wake[s] = "woken" /\ TaskLocks(s)
  /\ \/ st[s] = "ACCEPTING" /\ WaitAgain(s) /\ SameSlot
     \/ st[s] # "ACCEPTING" /\ AcceptReturn(s)
  /\ NotOurs /\ UNCHANGED <<max, wakeVars>>

CreateTCP(s) ==
  /\ "connect" \in Calls /\ s \in FreeSlots
  /\ SockAlloc(s, "UNDEF_TCP", NoPort)
  /\ call' = [call EXCEPT ![s] = "create"]
  /\ NotOurs /\ UNCHANGED <<newConn, wake, wakeVars, ghostVars>>

\* Connections that uip_connect and found_listen may take: a closed one, or
\* else one in TIME_WAIT.
Spare ==
  LET closed == {c \in Conns : tcp[c] = "CLOSED"} IN
  IF closed # {} THEN closed ELSE {c \in Conns : tcp[c] = "FINISHING"}

\* The fields that a new connection sets, file not being one of them.
NewConn(c, state, p) ==
  /\ tcp' = [tcp EXCEPT ![c] = state] /\ out' = [out EXCEPT ![c] = 1]
  /\ nrtx' = [nrtx EXCEPT ![c] = 0] /\ lport' = [lport EXCEPT ![c] = p]
  /\ \E m \in Windows : mss' = [mss EXCEPT ![c] = m]

\* netSockConnect up to its wait, or netSockCreateTCP giving up
ConnectStart(s) ==
  /\ call[s] = "create" /\ UipFree
  /\ \/ /\ Spare = {} /\ SockFree(s)
        /\ UNCHANGED connVars
     \/ \E c \in Spare :
        /\ NewConn(c, "SYN_SENT", NoPort)
        /\ file' = [file EXCEPT ![c] = s]
        /\ st' = [st EXCEPT ![s] = "CONNECT"]
        /\ Enter(s, "connect", "wait")
        /\ UNCHANGED <<syncVars, ghostVars>>
  /\ SameSlot /\ UNCHANGED <<bufVars, listenports, mainVars, wakeVars>>

\* netSockConnect after its wait: a failure closes the file, a success returns
\* without giving the mutex back.
ConnectCheck(s) ==
  /\ call[s] = "connect" /\ wake[s] = "woken" /\ TaskLocks(s)
  /\ \/ st[s] = "CONNECT" /\ WaitAgain(s)
     \/ /\ st[s] \in Gone
        /\ ClearSock(s)
        /\ Enter(s, "createFail", "wait")
        /\ UNCHANGED <<len, ghostVars>>
     \/ /\ st[s] \notin {"CONNECT"} \cup Gone
        /\ mutex' = [mutex EXCEPT ![s] = "app"]
        /\ st' = [st EXCEPT ![s] = "BUSY"]
        /\ Return(s)
        /\ UNCHANGED <<len, sockChange, uipChange, ghostVars>>
  /\ SameSlot /\ NotOurs /\ UNCHANGED <<max, wakeVars>>

\* netSockCreateTCP frees the socket that netSockConnect could not connect.
CreateFail(s) ==
  /\ call[s] = "createFail" /\ SockFree(s)
  /\ SameSlot /\ NotOurs /\ UNCHANGED <<bufVars, wakeVars>>

Task(s) ==
  \/ FlagGet(s) \/ ReadTimeout(s) \/ ReadCheck(s) \/ WriteCheck(s)
  \/ \E state \in Reading, m \in ReadMaxes : ReadStart(s, state, m)
  \/ \E n \in WriteLens : WriteStart(s, n)
  \/ CloseStart(s) \/ CloseCheck(s) \/ CloseUnlisten(s)
  \/ \E p \in Ports : CreateTCPServer(s, p)
  \/ ListenMark(s) \/ ListenUip(s) \/ AcceptStart(s) \/ AcceptCheck(s)
  \/ CreateTCP(s) \/ ConnectStart(s) \/ ConnectCheck(s) \/ CreateFail(s)

-----------------------------------------------------------------------------
(* Interrupts and timers wake the main thread through uipGiant.  What comes     *)
(* while it is at work waits in the semaphore and in the timer until it is back *)
(* at posSemaWait, which is where the two actions below have it arrive.         *)

\* netInterrupt, called by a driver
Interrupt ==
  /\ UipFree /\ giant < MaxGiant /\ Signal
  /\ UNCHANGED <<sockVars, taskVars, uipVars, mainVars, dataToSend, periodic, ghostVars>>

\* the 500 ms periodicTimer
PeriodicTick ==
  /\ UipFree /\ (~periodic \/ giant < MaxGiant)
  /\ periodic' = TRUE /\ Signal
  /\ UNCHANGED <<sockVars, taskVars, uipVars, mainVars, dataToSend, ghostVars>>

-----------------------------------------------------------------------------
(* The main loop *)

\* posSemaWait(uipGiant), posMutexLock(uipMutex), sendRequested = dataToSend
SemaWait ==
  /\ mpc = "wait" /\ giant > 0
  /\ giant' = giant - 1
  /\ sendRequested' = dataToSend
  /\ mpc' = "clear"
  /\ UNCHANGED <<sockVars, taskVars, uipVars, phase, ci, after, callVars, dataToSend,
                 periodic, ghostVars>>

\* dataToSend = 0, and the choice of the loop
ClearRequest ==
  /\ mpc = "clear"
  /\ dataToSend' = FALSE /\ sendRequested' = FALSE
  /\ phase' = IF sendRequested THEN "poll" ELSE "net"
  /\ ci' = 1 /\ mpc' = "scan"
  /\ UNCHANGED <<sockVars, taskVars, uipVars, after, callVars, giant, periodic, ghostVars>>

\* The end of one uip_process: poll and timer go over all connections, the
\* network over one packet.
NextConn ==
  /\ mpc = "next"
  /\ flags' = {} /\ after' = "drop" /\ dataLeft' = 0 /\ slen' = 0
  /\ msock' = NoSock /\ lsock' = NoSock
  /\ \/ /\ phase # "net" /\ ci < NConns
        /\ ci' = ci + 1 /\ mpc' = "scan"
        /\ UNCHANGED <<phase, periodic>>
     \/ /\ phase = "poll" /\ ci = NConns
        /\ phase' = "net" /\ ci' = 1 /\ mpc' = "scan"
        /\ UNCHANGED periodic
     \/ /\ phase = "net" /\ periodic
        /\ periodic' = FALSE
        /\ phase' = "timer" /\ ci' = 1 /\ mpc' = "scan"
     \/ /\ (phase = "net" /\ ~periodic) \/ (phase = "timer" /\ ci = NConns)
        /\ phase' = "net" /\ ci' = 1 /\ mpc' = "wait"
        /\ UNCHANGED periodic
  /\ UNCHANGED <<sockVars, taskVars, uipVars, sendRequested, dataToSend, giant, ghostVars>>

\* uip_process calls upon the application, and goes on at label next.
Appcall(c, fl, n, label) ==
  /\ mpc' = "appcall"
  /\ ci' = c /\ flags' = fl /\ dataLeft' = n /\ after' = label
  /\ UNCHANGED <<phase, slen, msock, lsock, sendRequested>>

Quiet ==
  /\ mpc' = "next"
  /\ UNCHANGED <<loopVars, callVars>>

Scanning(loop) == mpc = "scan" /\ phase = loop

NotUip == UNCHANGED <<sockVars, taskVars, listenports, wakeVars>>

-----------------------------------------------------------------------------
(* uip_poll_conn and uip_periodic *)

\* UIP_POLL_REQUEST, and the end of UIP_TIMER with nothing outstanding
Poll ==
  /\ mpc = "scan" /\ phase \in {"poll", "timer"}
  /\ tcp[ci] = "ESTABLISHED" /\ out[ci] = 0
  /\ Appcall(ci, {"POLL"}, 0, "appsend")
  /\ NotUip /\ UNCHANGED <<connVars, ghostVars>>

\* Nothing is sent in SYN_SENT but the SYN again; nor while the timer runs.
Skip ==
  /\ mpc = "scan" /\ phase \in {"poll", "timer"}
  /\ ~(tcp[ci] = "ESTABLISHED" /\ out[ci] = 0)
  /\ Quiet
  /\ NotUip /\ UNCHANGED <<connVars, ghostVars>>

Outstanding(c) == tcp[c] \in {"SYN_RCVD", "SYN_SENT", "ESTABLISHED"} /\ out[c] > 0

MayRetransmit(c) ==
  nrtx[c] # MaxRtx /\ ~(tcp[c] \in {"SYN_RCVD", "SYN_SENT"} /\ nrtx[c] = MaxSynRtx)

TimerRexmit ==
  /\ Scanning("timer") /\ Outstanding(ci) /\ MayRetransmit(ci)
  /\ nrtx' = [nrtx EXCEPT ![ci] = @ + 1]
  /\ IF tcp[ci] = "ESTABLISHED" THEN Appcall(ci, {"REXMIT"}, 0, "apprexmit") ELSE Quiet
  /\ NotUip /\ UNCHANGED <<tcp, file, out, mss, lport, ghostVars>>

TimerExpire ==
  /\ Scanning("timer") /\ Outstanding(ci) /\ ~MayRetransmit(ci)
  /\ tcp' = [tcp EXCEPT ![ci] = "CLOSED"]
  /\ Appcall(ci, {"TIMEDOUT"}, 0, "drop")
  /\ NotUip /\ UNCHANGED <<file, out, mss, nrtx, lport, ghostVars>>

-----------------------------------------------------------------------------
(* uip_input: one packet, or none *)

NoPacket ==
  /\ Scanning("net") /\ Quiet
  /\ NotUip /\ UNCHANGED <<connVars, ghostVars>>

\* found_listen: the connection's file is left as it was.
RecvSyn(c, p) ==
  /\ Scanning("net") /\ p \in listenports /\ c \in Spare
  /\ NewConn(c, "SYN_RCVD", p)
  /\ Quiet
  /\ NotUip /\ UNCHANGED <<file, ghostVars>>

NewData(n) == IF n > 0 THEN {"NEWDATA"} ELSE {}

\* What the peer has from us, and we from the peer, when uIP has taken a segment
\* of n bytes that acknowledges what is outstanding if acks.
Count(c, n, acks) ==
  LET s == file[c] IN
  /\ owed' = IF acks /\ s # NoSock THEN [owed EXCEPT ![s] = @ - out[c]] ELSE owed
  /\ unread' = IF s # NoSock THEN [unread EXCEPT ![s] = @ + n] ELSE unread

\* SYN_RCVD, and the peer acknowledges our SYNACK, perhaps with data
RecvSynRcvd(c, n) ==
  /\ Scanning("net") /\ tcp[c] = "SYN_RCVD"
  /\ tcp' = [tcp EXCEPT ![c] = "ESTABLISHED"] /\ out' = [out EXCEPT ![c] = 0]
  /\ Appcall(c, {"CONNECTED"} \cup NewData(n), n, "appsend")
  /\ NotUip /\ UNCHANGED <<file, mss, nrtx, lport, ghostVars>>

RecvSynAck(c) ==
  /\ Scanning("net") /\ tcp[c] = "SYN_SENT"
  /\ tcp' = [tcp EXCEPT ![c] = "ESTABLISHED"] /\ out' = [out EXCEPT ![c] = 0]
  /\ \E m \in Windows : mss' = [mss EXCEPT ![c] = m]
  /\ Appcall(c, {"CONNECTED", "NEWDATA"}, 0, "appsend")
  /\ NotUip /\ UNCHANGED <<file, nrtx, lport, ghostVars>>

\* any other segment in SYN_SENT: the appcall comes before the state changes
RecvSynSentBad(c) ==
  /\ Scanning("net") /\ tcp[c] = "SYN_SENT"
  /\ Appcall(c, {"ABORT"}, 0, "synfail")
  /\ NotUip /\ UNCHANGED <<connVars, ghostVars>>

RecvRst(c) ==
  /\ Scanning("net") /\ tcp[c] # "CLOSED"
  /\ tcp' = [tcp EXCEPT ![c] = "CLOSED"]
  /\ Appcall(c, {"ABORT"}, 0, "drop")
  /\ NotUip /\ UNCHANGED <<file, out, mss, nrtx, lport, ghostVars>>

AckData(acks) == IF acks THEN {"ACKDATA"} ELSE {}

\* uip_connr->mss = the window of this segment, also while bytes are under way
Resize(c, m) ==
  /\ mss' = [mss EXCEPT ![c] = m]
  /\ resized' = IF out[c] > 0 /\ m # mss[c] /\ file[c] # NoSock
                THEN [resized EXCEPT ![file[c]] = TRUE] ELSE resized

\* ESTABLISHED, without FIN: the window of every segment becomes the mss.
RecvData(c, n, acks) ==
  /\ Scanning("net") /\ tcp[c] = "ESTABLISHED" /\ (acks => out[c] > 0)
  /\ \E m \in Windows : Resize(c, m)
  /\ out' = IF acks THEN [out EXCEPT ![c] = 0] ELSE out
  /\ IF n > 0 \/ acks
     THEN Appcall(c, NewData(n) \cup AckData(acks), n, "appsend")
     ELSE Quiet
  /\ Count(c, n, acks)
  /\ NotUip /\ UNCHANGED <<tcp, file, nrtx, lport>>

\* ESTABLISHED, with FIN, perhaps behind data; dropped when data is outstanding.
RecvFin(c, n, acks) ==
  /\ Scanning("net") /\ tcp[c] = "ESTABLISHED" /\ (acks <=> out[c] > 0)
  /\ out' = [out EXCEPT ![c] = 0]
  /\ Appcall(c, {"CLOSE"} \cup NewData(n) \cup AckData(acks), n, "lastack")
  /\ Count(c, n, acks)
  /\ NotUip /\ UNCHANGED <<tcp, file, mss, nrtx, lport, resized>>

\* The end of FIN_WAIT_1 to TIME_WAIT, by a segment or by a timer
Finish(c) ==
  /\ mpc = "scan" /\ (phase = "net" \/ (phase = "timer" /\ c = ci))
  /\ tcp[c] = "FINISHING"
  /\ tcp' = [tcp EXCEPT ![c] = "CLOSED"]
  /\ Quiet
  /\ NotUip /\ UNCHANGED <<file, out, mss, nrtx, lport, ghostVars>>

Input ==
  \/ NoPacket
  \/ \E c \in Conns :
     \/ \E p \in Ports : RecvSyn(c, p)
     \/ \E n \in SegLens \cup {0} : RecvSynRcvd(c, n)
     \/ RecvSynAck(c) \/ RecvSynSentBad(c) \/ RecvRst(c) \/ Finish(c)
     \/ \E n \in SegLens \cup {0}, acks \in BOOLEAN : RecvData(c, n, acks) \/ RecvFin(c, n, acks)

-----------------------------------------------------------------------------
(* netTcpAppcall *)

\* The file the appcall acts on; NoSock once the connection has none.
Cur == file[ci]

Connected == mpc = "appcall" /\ "CONNECTED" \in flags

\* What the whole appcall leaves alone, and what its steps mostly do.
AppcallFrame ==
  UNCHANGED <<loopVars, tcp, out, mss, nrtx, lport, listenports, wakeVars, owed, resized, max,
              port, wake>>
SameCall == UNCHANGED <<dataLeft, slen, msock, lsock>>
SameSocks == UNCHANGED <<used, newConn, len, st, syncVars, call, file, unread>>

\* Wrong: return without uip_abort().
AbortNot == mpc' = "after" /\ UNCHANGED flags

\* uip_abort() and return
Abort == mpc' = "after" /\ flags' = {"ABORT"}

\* netSockAlloc and appstate.file; data that came with the ACK waits for a reader.
NewSock(s) ==
  /\ s \in FreeSlots
  /\ used' = [used EXCEPT ![s] = TRUE]
  /\ mutex' = [mutex EXCEPT ![s] = "free"]
  /\ file' = [file EXCEPT ![ci] = s]
  /\ unread' = [unread EXCEPT ![s] = dataLeft]
  /\ mpc' = "lock"
  /\ SameCall /\ UNCHANGED <<flags, len, sockChange>>

\* The accept hook hands the socket to a new task.
HookAccept(s) ==
  /\ Connected /\ Cur = NoSock /\ AcceptHook
  /\ NewSock(s)
  /\ st' = [st EXCEPT ![s] = "BUSY"] /\ call' = [call EXCEPT ![s] = "idle"]
  /\ AppcallFrame /\ UNCHANGED <<newConn, uipChange>>

\* The accept hook returns -1: the socket it was given is freed again.
HookRefuse(s) ==
  /\ Connected /\ Cur = NoSock /\ AcceptHook /\ "refuse" \in Calls
  /\ s \in FreeSlots /\ used' = [used EXCEPT ![s] = TRUE]
  /\ Abort
  /\ AppcallFrame /\ SameCall /\ UNCHANGED <<newConn, len, st, syncVars, call, file, unread>>

Listens(s) == used[s] /\ st[s] \in Listening /\ port[s] = lport[ci]

\* netSockAlloc fails, or no socket listens on the port.
ConnectedRefuse ==
  /\ Connected /\ Cur = NoSock
  /\ IF AcceptHook THEN FreeSlots = {} ELSE ~\E s \in Socks : Listens(s)
  /\ Abort
  /\ AppcallFrame /\ SameCall /\ SameSocks

\* The table is read without any mutex.
FindListener(s) ==
  /\ Connected /\ Cur = NoSock /\ ~AcceptHook /\ Listens(s)
  /\ lsock' = s /\ mpc' = "listenCheck"
  /\ AppcallFrame /\ SameSocks /\ UNCHANGED <<flags, dataLeft, slen, msock>>

ListenLocked == mpc = "listenCheck" /\ mutex[lsock] = "free"

ListenCheck ==
  /\ ListenLocked /\ st[lsock] # "ACCEPTING"
  /\ mpc' = "listenWait"
  /\ AppcallFrame /\ SameCall /\ SameSocks /\ UNCHANGED flags

ListenAccept(s) ==
  /\ ListenLocked /\ st[lsock] = "ACCEPTING"
  /\ NewSock(s)
  /\ st' = [st EXCEPT ![s] = "BUSY", ![lsock] = "ACCEPTED"]
  /\ uipChange' = [uipChange EXCEPT ![lsock] = TRUE]
  /\ newConn' = [newConn EXCEPT ![lsock] = ci]
  /\ AppcallFrame /\ UNCHANGED call

\* netSockAlloc fails; or, below, 200 ms went by without a call of netSockAccept.
ListenFull ==
  /\ ListenLocked /\ st[lsock] = "ACCEPTING" /\ FreeSlots = {}
  /\ Abort
  /\ AppcallFrame /\ SameCall /\ SameSocks

ListenExpire ==
  /\ mpc = "listenExpired" /\ mutex[lsock] = "free"
  /\ Abort
  /\ AppcallFrame /\ SameCall /\ SameSocks

\* Wrong: posFlagGet in place of posFlagWait.
MainWaitForever(s, from, woken, expired) ==
  /\ mpc = from /\ sockChange[s]
  /\ mpc' = woken
  /\ sockChange' = [sockChange EXCEPT ![s] = FALSE]
  /\ AppcallFrame /\ SameCall
  /\ UNCHANGED <<flags, used, newConn, len, st, mutex, uipChange, call, file, unread>>

\* posFlagWait(sockChange, ...) by the main thread: the flag, or the timeout
MainWait(s, from, woken, expired) ==
  /\ mpc = from
  /\ mpc' = IF sockChange[s] THEN woken ELSE expired
  /\ sockChange' = [sockChange EXCEPT ![s] = FALSE]
  /\ AppcallFrame /\ SameCall
  /\ UNCHANGED <<flags, used, newConn, len, st, mutex, uipChange, call, file, unread>>

ListenWait == MainWait(lsock, "listenWait", "listenCheck", "listenExpired")

\* The socket's state is looked at before its mutex is taken.
ConnectOk ==
  /\ Connected /\ Cur # NoSock
  /\ IF st[Cur] = "CONNECT"
     THEN mutex[Cur] = "free" /\ Announce(Cur, "CONNECT_OK")
     ELSE UNCHANGED <<st, uipChange>>
  /\ mpc' = "lock"
  /\ AppcallFrame /\ SameCall
  /\ UNCHANGED <<flags, used, newConn, len, mutex, sockChange, call, file, unread>>

\* The socket has been closed: there is nothing to do.
NoSocket ==
  /\ mpc = "appcall" /\ "CONNECTED" \notin flags /\ Cur = NoSock
  /\ mpc' = "after"
  /\ AppcallFrame /\ SameCall /\ SameSocks /\ UNCHANGED flags

LockSock ==
  /\ mpc = "lock" \/ (mpc = "appcall" /\ "CONNECTED" \notin flags)
  /\ Cur # NoSock /\ mutex[Cur] = "free"
  /\ mutex' = [mutex EXCEPT ![Cur] = "main"]
  /\ msock' = Cur /\ mpc' = "body"
  /\ AppcallFrame
  /\ UNCHANGED <<flags, dataLeft, slen, lsock, used, newConn, len, st, sockChange, uipChange,
                 call, file, unread>>

-----------------------------------------------------------------------------
(* netTcpAppcallMutex, with the socket's mutex held *)

BodyFrame == AppcallFrame /\ UNCHANGED <<used, newConn, call, msock, lsock>>

\* uip_aborted() or uip_timedout()
BodyAborted ==
  /\ mpc = "body" /\ flags \cap {"ABORT", "TIMEDOUT"} # {}
  /\ AppcallClose("PEER_ABORTED")
  /\ mpc' = "rx"
  /\ BodyFrame /\ UNCHANGED <<flags, dataLeft, slen, len, mutex, sockChange, unread>>

\* Wrong: any acknowledgement completes the write.
BodyAckedAll ==
  /\ mpc = "body" /\ "ACKDATA" \in flags /\ st[msock] = "WRITING"
  /\ len' = [len EXCEPT ![msock] = 0]
  /\ Announce(msock, "WRITE_OK")
  /\ mpc' = "rx"
  /\ BodyFrame /\ UNCHANGED <<flags, dataLeft, slen, mutex, sockChange, file, unread>>

\* uip_acked(): the write advances by the mss of now
BodyAcked ==
  /\ mpc = "body" /\ "ACKDATA" \in flags /\ st[msock] = "WRITING"
  /\ IF len[msock] <= mss[ci]
     THEN /\ len' = [len EXCEPT ![msock] = 0]
          /\ Announce(msock, "WRITE_OK")
          /\ UNCHANGED slen
     ELSE /\ len' = [len EXCEPT ![msock] = @ - mss[ci]]
          /\ slen' = len[msock] - mss[ci]
          /\ UNCHANGED <<st, uipChange>>
  /\ mpc' = "rx"
  /\ BodyFrame /\ UNCHANGED <<flags, dataLeft, mutex, sockChange, file, unread>>

BodyPlain ==
  /\ mpc = "body" /\ flags \cap {"ABORT", "TIMEDOUT"} = {}
  /\ ~("ACKDATA" \in flags /\ st[msock] = "WRITING")
  /\ mpc' = "rx"
  /\ AppcallFrame /\ SameCall /\ SameSocks /\ UNCHANGED flags

\* uip_newdata(): wait for a reader with the mutex released
RxBlock ==
  /\ mpc = "rx" /\ dataLeft > 0 /\ st[msock] \notin Reading
  /\ mutex' = [mutex EXCEPT ![msock] = "free"]
  /\ mpc' = "rxWait"
  /\ BodyFrame
  /\ UNCHANGED <<flags, dataLeft, slen, len, st, sockChange, uipChange, file, unread>>

RxWait == MainWait(msock, "rxWait", "rxLock", "rxExpired")

RxLock ==
  /\ mpc = "rxLock" /\ mutex[msock] = "free"
  /\ mutex' = [mutex EXCEPT ![msock] = "main"]
  /\ mpc' = "rx"
  /\ BodyFrame
  /\ UNCHANGED <<flags, dataLeft, slen, len, st, sockChange, uipChange, file, unread>>

\* 500 ms without a reader: the data is dropped and the connection aborted.
RxExpire ==
  /\ mpc = "rxExpired" /\ mutex[msock] = "free"
  /\ mutex' = [mutex EXCEPT ![msock] = "main"]
  /\ AppcallClose("PEER_ABORTED")
  /\ mpc' = "tail" /\ flags' = {"ABORT"} /\ dataLeft' = 0
  /\ BodyFrame /\ UNCHANGED <<slen, len, sockChange, unread>>

\* Wrong: what the reader has no room for is counted wrong.
RxReadMax ==
  /\ mpc = "rx" /\ dataLeft > 0 /\ st[msock] = "READING"
  /\ len' = [len EXCEPT ![msock] = IF dataLeft > max[msock] THEN max[msock] ELSE dataLeft]
  /\ dataLeft' = dataLeft - max[msock]
  /\ Announce(msock, "READ_OK")
  /\ BodyFrame /\ UNCHANGED <<mpc, flags, slen, mutex, sockChange, file, unread>>

RxRead ==
  /\ mpc = "rx" /\ dataLeft > 0 /\ st[msock] = "READING"
  /\ LET n == IF dataLeft > max[msock] THEN max[msock] ELSE dataLeft IN
     /\ len' = [len EXCEPT ![msock] = n]
     /\ dataLeft' = dataLeft - n
  /\ Announce(msock, "READ_OK")
  /\ BodyFrame /\ UNCHANGED <<mpc, flags, slen, mutex, sockChange, file, unread>>

\* Wrong: what is behind the newline is dropped.
RxLineDrops(take, keep, nl) ==
  LET full == len[msock] + keep = max[msock] IN
  /\ mpc = "rx" /\ dataLeft > 0 /\ st[msock] = "READING_LINE"
  /\ take <= dataLeft /\ 0 < keep /\ keep <= take /\ len[msock] + keep <= max[msock]
  /\ nl \/ full \/ take = dataLeft
  /\ dataLeft' = 0
  /\ len' = [len EXCEPT ![msock] = @ + keep]
  /\ unread' = [unread EXCEPT ![msock] = @ - (take - keep)]
  /\ IF full \/ nl THEN Announce(msock, "READ_OK") ELSE UNCHANGED <<st, uipChange>>
  /\ BodyFrame /\ UNCHANGED <<mpc, flags, slen, mutex, sockChange, file>>

\* Of take bytes keep are stored, the others being CRs; the scan stops behind a
\* newline (nl), when the buffer is full, or at the end of the segment.
RxLine(take, keep, nl) ==
  LET full == len[msock] + keep = max[msock] IN
  /\ mpc = "rx" /\ dataLeft > 0 /\ st[msock] = "READING_LINE"
  /\ take <= dataLeft /\ keep <= take /\ len[msock] + keep <= max[msock]
  /\ nl \/ full \/ take = dataLeft
  /\ (nl \/ (take > 0 /\ full)) => keep > 0
  /\ (take = 0) <=> (len[msock] = max[msock])
  /\ dataLeft' = dataLeft - take
  /\ len' = [len EXCEPT ![msock] = @ + keep]
  /\ unread' = [unread EXCEPT ![msock] = @ - (take - keep)]
  /\ IF len[msock] + keep > 0 /\ (full \/ nl)
     THEN Announce(msock, "READ_OK") ELSE UNCHANGED <<st, uipChange>>
  /\ BodyFrame /\ UNCHANGED <<mpc, flags, slen, mutex, sockChange, file>>

RxDone ==
  /\ mpc = "rx" /\ dataLeft = 0
  /\ mpc' = "tail"
  /\ AppcallFrame /\ SameCall /\ SameSocks /\ UNCHANGED flags

\* netTcpAppcall gives the mutex back.
TailUnlock ==
  /\ mpc = "tail" /\ mpc' = "after"
  /\ mutex' = [mutex EXCEPT ![msock] = "free"]
  /\ BodyFrame /\ UNCHANGED <<dataLeft, len, sockChange, unread>>

\* uip_rexmit(), and uip_poll() of a socket that writes: uip_send()
TailSend ==
  /\ TailUnlock
  /\ "REXMIT" \in flags \/ ("POLL" \in flags /\ st[msock] = "WRITING")
  /\ slen' = IF len[msock] > 0 THEN len[msock] ELSE slen
  /\ UNCHANGED <<st, uipChange, file, flags>>

\* uip_closed()
TailPeerClosed ==
  /\ TailUnlock /\ "CLOSE" \in flags
  /\ AppcallClose("PEER_CLOSED")
  /\ UNCHANGED <<flags, slen>>

\* uip_poll() of a socket that closes: uip_close()
TailClose ==
  /\ TailUnlock /\ "POLL" \in flags /\ st[msock] = "CLOSE"
  /\ flags' = {"CLOSE"}
  /\ AppcallClose("CLOSE_OK")
  /\ UNCHANGED slen

TailPlain ==
  /\ TailUnlock
  /\ flags \cap {"REXMIT", "CLOSE"} = {}
  /\ "POLL" \in flags => st[msock] \notin {"CLOSE", "WRITING"}
  /\ UNCHANGED <<st, uipChange, file, flags, slen>>

-----------------------------------------------------------------------------
(* uip_process after the appcall *)

Resume(label) ==
  /\ mpc = "after" /\ after = label /\ mpc' = "next"
  /\ NotUip /\ UNCHANGED <<loopVars, callVars, file, mss, lport, ghostVars>>

\* label appsend
AppAbort ==
  /\ Resume("appsend") /\ "ABORT" \in flags
  /\ tcp' = [tcp EXCEPT ![ci] = "CLOSED"]
  /\ UNCHANGED <<out, nrtx>>

AppClose ==
  /\ Resume("appsend") /\ "CLOSE" \in flags
  /\ tcp' = [tcp EXCEPT ![ci] = "FINISHING"]
  /\ out' = [out EXCEPT ![ci] = 1] /\ nrtx' = [nrtx EXCEPT ![ci] = 0]

AppSend ==
  /\ Resume("appsend") /\ flags \cap {"ABORT", "CLOSE"} = {}
  /\ out' = IF slen > 0 /\ out[ci] = 0
            THEN [out EXCEPT ![ci] = IF slen > mss[ci] THEN mss[ci] ELSE slen]
            ELSE out
  /\ nrtx' = [nrtx EXCEPT ![ci] = 0]
  /\ UNCHANGED tcp

\* FIN in ESTABLISHED: whatever the application did, on to LAST_ACK
AppLastAck ==
  /\ Resume("lastack")
  /\ tcp' = [tcp EXCEPT ![ci] = "FINISHING"]
  /\ out' = [out EXCEPT ![ci] = 1] /\ nrtx' = [nrtx EXCEPT ![ci] = 0]

AppSynFail ==
  /\ Resume("synfail")
  /\ tcp' = [tcp EXCEPT ![ci] = "CLOSED"] /\ UNCHANGED <<out, nrtx>>

\* labels apprexmit and drop
AppDrop ==
  /\ Resume("apprexmit") \/ Resume("drop")
  /\ UNCHANGED <<tcp, out, nrtx>>

-----------------------------------------------------------------------------
MainLoop == SemaWait \/ ClearRequest \/ NextConn \/ Poll \/ Skip

AppcallStep ==
  \/ \E s \in Socks : HookAccept(s) \/ HookRefuse(s) \/ FindListener(s) \/ ListenAccept(s)
  \/ ConnectedRefuse \/ ListenCheck \/ ListenFull \/ ListenWait \/ ListenExpire
  \/ ConnectOk \/ NoSocket \/ LockSock

BodyStep ==
  \/ BodyAborted \/ BodyAcked \/ BodyPlain
  \/ RxBlock \/ RxWait \/ RxLock \/ RxExpire \/ RxRead \/ RxDone
  \/ \E take, keep \in 0..dataLeft, nl \in BOOLEAN : RxLine(take, keep, nl)
  \/ TailSend \/ TailPeerClosed \/ TailClose \/ TailPlain

AfterStep == AppAbort \/ AppClose \/ AppSend \/ AppLastAck \/ AppSynFail \/ AppDrop

\* uip_process with UIP_TIMER, when something is outstanding or finishing
TimerStep == TimerRexmit \/ TimerExpire \/ (phase = "timer" /\ Finish(ci))

Main == MainLoop \/ Input \/ TimerStep \/ AppcallStep \/ BodyStep \/ AfterStep

Next == (\E s \in Socks : Task(s)) \/ Interrupt \/ PeriodicTick \/ Main

Spec == Init /\ [][Next]_vars
=============================================================================
