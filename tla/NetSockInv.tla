----------------------------- MODULE NetSockInv -----------------------------
(***************************************************************************)
(* What the socket layer of NetSock promises: safety, liveness under the   *)
(* scheduling of pico]OS, and the rendezvous of SockHandshake.             *)
(***************************************************************************)
EXTENDS NetSock

MpcValues == {"wait", "clear", "scan", "next", "appcall", "listenCheck", "listenWait",
  "listenExpired", "lock", "body", "rx", "rxWait", "rxLock", "rxExpired", "tail", "after"}

\* Where netTcpAppcall works on a socket, and on a listening one.
WithSock == {"body", "rx", "rxWait", "rxLock", "rxExpired", "tail"}
WithListener == {"listenCheck", "listenWait", "listenExpired"}

SockTypes ==
  /\ used \in [Socks -> BOOLEAN] /\ st \in [Socks -> SockStates]
  /\ mutex \in [Socks -> {"null", "free", "app", "main"}]
  /\ sockChange \in [Socks -> BOOLEAN] /\ uipChange \in [Socks -> BOOLEAN]
  /\ len \in [Socks -> Nat] /\ max \in [Socks -> Nat]
  /\ port \in [Socks -> Ports \cup {NoPort}] /\ newConn \in [Socks -> Conns \cup {NoConn}]

TaskTypes ==
  /\ call \in [Socks -> TaskCalls] /\ wake \in [Socks -> {"wait", "woken", "expired"}]

ConnTypes ==
  /\ tcp \in [Conns -> TcpStates] /\ file \in [Conns -> Socks \cup {NoSock}]
  /\ out \in [Conns -> Nat] /\ mss \in [Conns -> Windows] /\ nrtx \in [Conns -> Nat]
  /\ lport \in [Conns -> Ports \cup {NoPort}] /\ listenports \subseteq Ports \cup {NoPort}

MainTypes ==
  /\ mpc \in MpcValues /\ phase \in {"poll", "net", "timer"} /\ ci \in Conns
  /\ flags \subseteq Flags /\ after \in {"appsend", "apprexmit", "lastack", "synfail", "drop"}
  /\ dataLeft \in Nat /\ slen \in Nat
  /\ msock \in Socks \cup {NoSock} /\ lsock \in Socks \cup {NoSock}
  /\ (mpc \in WithSock => msock \in Socks) /\ (mpc \in WithListener => lsock \in Socks)
  /\ sendRequested \in BOOLEAN

WakeTypes == dataToSend \in BOOLEAN /\ giant \in 0..MaxGiant /\ periodic \in BOOLEAN

GhostTypes ==
  owed \in [Socks -> Int] /\ resized \in [Socks -> BOOLEAN] /\ unread \in [Socks -> Int]

\* The shape of every variable.
TypeOK == SockTypes /\ TaskTypes /\ ConnTypes /\ MainTypes /\ WakeTypes /\ GhostTypes

\* The main thread is in uip_process, at its call of netTcpAppcall or behind it.
InAppcall == mpc \in WithSock \cup WithListener \cup {"lock"}
Upcall(c) == ci = c /\ (InAppcall \/ mpc \in {"appcall", "after"})

\* uIP serves the connection, or is about to tell its socket that it no longer does.
Alive(c) == tcp[c] \in {"ESTABLISHED", "SYN_SENT"} \/ Upcall(c)

\* The states of a socket in which its task relies on a connection.
Served == {"BUSY", "READING", "READING_LINE", "READ_OK", "WRITING", "WRITE_OK", "CONNECT",
           "CONNECT_OK", "CLOSE"}

\* A socket in service is the file of exactly one connection, and that one is
\* alive or uIP is about to tell the socket that it is not; a socket out of
\* service is the file of none, so that uIP never calls upon a freed one.
\* (appstate.file is set and reset at 201, 550, 610 and 654 of sock.c, while
\* uip.c changes tcpstateflags on its own.)
Attached ==
  /\ \A s \in Socks : st[s] \in Served =>
       \E c \in Conns : file[c] = s /\ Alive(c)
  /\ \A c \in Conns : file[c] # NoSock => st[file[c]] \in Served
  /\ \A c, d \in Conns : file[c] = file[d] /\ file[c] # NoSock => c = d

\* The assertions on the socket's state at the entry and at the end of the wait
\* of netSockConnect, netSockAccept, sockReadInternal, sockWrite and sockClose.
Assertions == \A s \in Socks :
  /\ call[s] = "accept" => st[s] \in {"ACCEPTING", "ACCEPTED"}
  /\ call[s] = "read" => st[s] \in Reading \cup {"READ_OK"} \cup Gone
  /\ call[s] = "write" => st[s] \in {"WRITING", "WRITE_OK"} \cup Gone
  /\ call[s] = "connect" => st[s] \in {"CONNECT", "CONNECT_OK"} \cup Gone
  /\ call[s] = "close" => st[s] \in {"CLOSE", "CLOSE_OK", "LISTENING"} \cup Gone
  /\ call[s] = "idle" => st[s] \in {"BUSY", "BOUND", "LISTENING"} \cup Gone

\* The sock pointers that netTcpAppcall keeps across its unlocked waits stay
\* those of sockets that have not been freed.
NoUseAfterFree ==
  /\ mpc \in WithSock => mutex[msock] # "null"
  /\ mpc \in WithListener => mutex[lsock] # "null"

\* uIP keeps no copy of what it sent: a retransmission reads the caller's buffer
\* again.  Whenever an established connection has bytes outstanding, its socket
\* is in a write that covers them, so the buffer is still the caller's.
RetransmitsWrite == \A c \in Conns :
  tcp[c] = "ESTABLISHED" /\ out[c] > 0 /\ ~Upcall(c) =>
    file[c] # NoSock /\ st[file[c]] = "WRITING" /\ out[c] <= len[file[c]]

\* What uIP has acknowledged to the peer and no read has returned yet is in the
\* buffer of a read or in the segment that the main thread holds: a socket in
\* service has lost nothing.
ReadsConserve == \A s \in Socks :
  st[s] \in Served /\ call[s] # "none" =>
    unread[s] = (IF st[s] \in {"READ_OK", "READING_LINE"} THEN len[s] ELSE 0)
              + (IF \E c \in Conns : Upcall(c) /\ file[c] = s THEN dataLeft ELSE 0)

\* A write reports success only when the peer has acknowledged all of it, and what it
\* has left to send is what the peer has not acknowledged: over retransmissions, timeouts
\* and windows that change between its segments, and unless one changes while a segment
\* is under way, which the acknowledgement is then not credited with (sock.c:675).
WritesConserve == \A s \in Socks :
  LET ackPending == mpc \in {"appcall", "body"} /\ "ACKDATA" \in flags /\ file[ci] = s IN
  ~resized[s] =>
    /\ st[s] = "WRITING" /\ ~ackPending => owed[s] = len[s]
    /\ st[s] = "WRITE_OK" => owed[s] = 0

\* The answer that ends a wait is never slept through: when a task waits without
\* its flag its answer is still to come, and the main thread waits for a reader
\* or an acceptor only while there is none.
NoLostWakeup ==
  /\ \A s \in Socks : call[s] \in Waiting /\ wake[s] = "wait" /\ ~uipChange[s] =>
       st[s] \in Reading \cup {"ACCEPTING", "WRITING", "CLOSE", "CONNECT"}
  /\ mpc = "rxWait" /\ st[msock] \in Reading => sockChange[msock]
  /\ mpc = "listenWait" /\ st[lsock] = "ACCEPTING" => sockChange[lsock]

\* uIP acknowledges data on an established connection only for a socket.
EstablishedHasSocket == \A c \in Conns :
  tcp[c] = "ESTABLISHED" /\ ~Upcall(c) => file[c] # NoSock

-----------------------------------------------------------------------------
(* Why the socket layer keeps Attached: an inductive invariant *)

\* The state of a socket agrees with the call its task is in.
CallState == \A s \in Socks :
  /\ call[s] = "accept" => st[s] \in {"ACCEPTING", "ACCEPTED"}
  /\ call[s] = "read" => st[s] \in Reading \cup {"READ_OK"} \cup Gone
  /\ call[s] = "write" => st[s] \in {"WRITING", "WRITE_OK"} \cup Gone
  /\ call[s] = "connect" => st[s] \in {"CONNECT", "CONNECT_OK"} \cup Gone
  /\ call[s] = "close" => st[s] \in {"CLOSE", "CLOSE_OK", "LISTENING", "BOUND"} \cup Gone
  /\ call[s] \in {"listen", "unlisten"} => st[s] = "LISTENING"
  /\ call[s] = "create" => st[s] = "UNDEF_TCP"
  /\ call[s] = "createFail" => st[s] = "NULL"

UnusedNull == \A s \in Socks : ~used[s] => st[s] = "NULL" /\ call[s] = "none"

\* A connection that uIP may give to somebody else has no file.
SpareHasNoFile == \A c \in Conns :
  tcp[c] \in {"CLOSED", "FINISHING", "SYN_RCVD"} /\ ~Upcall(c) => file[c] = NoSock

Ended == {"ABORT", "TIMEDOUT"}
Stopped == {"ABORT", "CLOSE"}

\* What uip_process says in uip_flags, by the label it is going to go on at.
Told ==
  /\ after = "appsend" => flags = {"POLL"} \/ flags \subseteq {"CONNECTED", "NEWDATA", "ACKDATA"}
  /\ after = "apprexmit" => flags = {"REXMIT"}
  /\ after = "lastack" => "CLOSE" \in flags /\ flags \subseteq {"CLOSE", "NEWDATA", "ACKDATA"}
  /\ after = "synfail" => flags = {"ABORT"}
  /\ after = "drop" => flags = {"ABORT"} \/ flags = {"TIMEDOUT"}

\* The socket has had its say: uip_abort() and uip_close() replace the flags.
Answered == after \in {"appsend", "lastack"} /\ (flags = {"ABORT"} \/ flags = {"CLOSE"})

\* The connection is done with its socket when uip_process goes on.
Over == after \in {"lastack", "synfail", "drop"} \/ flags \cap Stopped # {}

\* Where the main thread stands in an appcall, and what it knows there.
UpcallFlags ==
  /\ mpc \in (WithSock \cup WithListener \cup {"appcall", "lock"}) \ {"tail"} =>
       Told /\ (dataLeft # 0 => "NEWDATA" \in flags)
  /\ mpc = "tail" => Told \/ (Answered /\ flags = {"ABORT"})
  /\ mpc = "after" => Told \/ Answered

UpcallConn == Upcall(ci) =>
  /\ after \in {"appsend", "apprexmit", "lastack"} => tcp[ci] = "ESTABLISHED"
  /\ after = "drop" => tcp[ci] = "CLOSED"

UpcallFile ==
  /\ mpc = "appcall" =>
       (after \in {"appsend", "apprexmit"} /\ "CONNECTED" \notin flags => file[ci] # NoSock)
  /\ mpc \in WithListener =>
       file[ci] = NoSock /\ "CONNECTED" \in flags /\ st[lsock] \in Listening
  /\ mpc = "lock" => file[ci] # NoSock /\ "CONNECTED" \in flags
  /\ mpc \in {"body", "rxWait", "rxLock", "rxExpired"} => file[ci] = msock
  /\ mpc \in {"rxWait", "rxLock", "rxExpired"} => "NEWDATA" \in flags
  /\ mpc \in {"rx", "tail"} => file[ci] = (IF flags \cap Ended = {} THEN msock ELSE NoSock)
  /\ mpc = "after" => (file[ci] = NoSock <=> Over)

AppcallState == UpcallFlags /\ UpcallConn /\ UpcallFile

Inductive ==
  TypeOK /\ Attached /\ CallState /\ UnusedNull /\ SpareHasNoFile /\ EstablishedHasSocket
  /\ AppcallState

-----------------------------------------------------------------------------
(* What the other promises rest on, beside Inductive *)

\* Only a free slot has no mutex, and the main thread holds that of the socket it
\* works on: whoever frees a socket has to take it first.
MutexState ==
  /\ \A s \in Socks :
       /\ mutex[s] = "null" => st[s] = "NULL"
       /\ ~used[s] \/ call[s] = "createFail" => mutex[s] = "null"
  /\ mpc \in {"body", "rx", "tail"} => mutex[msock] = "main"

\* For programs with an accept hook that close no socket they have only bound.
AssertState ==
  /\ \A s \in Socks :
       /\ newConn[s] = NoConn /\ st[s] # "ACCEPTED"
       /\ call[s] = "idle" => st[s] \in {"BUSY", "BOUND", "LISTENING"} \cup Gone
       /\ call[s] = "close" => st[s] # "BOUND"
  /\ mpc \notin WithListener

\* What an established connection has sent is in the write of its socket.
SentIsWritten == \A c \in Conns :
  tcp[c] = "ESTABLISHED" /\ out[c] > 0 /\ file[c] # NoSock =>
    st[file[c]] = "WRITING" /\ out[c] <= len[file[c]]

\* What the main thread is going to send of it, and when it is free to send.
SendState ==
  /\ SentIsWritten
  /\ InAppcall \/ mpc = "appcall" =>
       /\ flags \cap {"CONNECTED", "ACKDATA", "POLL"} # {} => out[ci] = 0
       /\ ~({"CONNECTED", "ACKDATA"} \subseteq flags)
  /\ mpc \notin {"rx", "rxWait", "rxLock", "rxExpired", "tail", "after", "next"} => slen = 0
  /\ mpc \in WithSock \cup {"after"} /\ slen > 0 /\ after = "appsend" /\ flags \cap Stopped = {} =>
       file[ci] # NoSock /\ st[file[ci]] = "WRITING" /\ slen = len[file[ci]]

\* How much of a write the peer has acknowledged but not the socket.
Acknowledged(s) ==
  IF mpc \in {"appcall", "body"} /\ "ACKDATA" \in flags /\ file[ci] = s
  THEN IF len[s] <= mss[ci] THEN len[s] ELSE mss[ci]
  ELSE 0

\* What is under way is what the next acknowledgement is credited with, unless the window
\* has changed since.
WriteState ==
  /\ \A c \in Conns : tcp[c] = "ESTABLISHED" /\ out[c] > 0 /\ file[c] # NoSock =>
       \/ resized[file[c]]
       \/ out[c] = (IF len[file[c]] <= mss[c] THEN len[file[c]] ELSE mss[c])
  /\ \A s \in Socks : ~resized[s] =>
       /\ st[s] = "WRITING" => owed[s] = len[s] - Acknowledged(s)
       /\ st[s] = "WRITE_OK" => owed[s] = 0
  /\ mpc \in {"appcall", "body"} /\ "ACKDATA" \in flags /\ file[ci] # NoSock =>
       st[file[ci]] = "WRITING"

\* What a read holds, and what the main thread holds for a socket
Held(s) == IF st[s] \in {"READ_OK", "READING_LINE"} THEN len[s] ELSE 0
Coming(s) == IF Upcall(ci) /\ file[ci] = s THEN dataLeft ELSE 0

\* For programs whose reads of lines do not time out.
ReadState ==
  /\ \A s \in Socks :
       /\ st[s] \in Served => unread[s] = Held(s) + Coming(s)
       /\ st[s] \in {"NULL", "UNDEF_TCP"} /\ call[s] # "createFail" => unread[s] = 0
       /\ st[s] = "READING_LINE" => wake[s] # "expired"
  /\ mpc \in {"tail", "after"} /\ file[ci] # NoSock => dataLeft = 0

-----------------------------------------------------------------------------
(* What the code does not keep: no run states these, and TLC refutes each in *)
(* the configuration that its comment names.                                *)

\* "netSockAlloc: search for a free one in socket table": it fails only when
\* every slot of the table is in use (sock_accept).
AllocFailsWhenFull ==
  ListenLocked /\ st[lsock] = "ACCEPTING" /\ FreeSlots = {} =>
    \A s \in Socks : mutex[s] # "null"

\* netSockFree is for a socket that exists (sock_open).
FreedOnce == \A s \in Socks : call[s] = "createFail" => mutex[s] # "null"

\* The main loop performs its services: it is not caught between the two locks
\* (sock_accept).
NoCircularWait ==
  ~(mpc \in {"listenCheck", "listenExpired"} /\ call[lsock] = "unlisten")

\* The connection that netSockAccept is about to return has a socket (sock_accept).
AcceptReturnsSocket == \A s \in Socks :
  st[s] = "ACCEPTED" => file[newConn[s]] # NoSock

\* A write reports success only when the peer has acknowledged all of it (sock_stream).
WritesAcknowledged == \A s \in Socks : st[s] = "WRITE_OK" => owed[s] = 0

\* A read told of the end of the stream has been given all that came before it
\* (sock_stream).
EofAfterData == \A s \in Socks : st[s] = "PEER_CLOSED" /\ call[s] = "read" => unread[s] = 0

-----------------------------------------------------------------------------
(* Liveness *)

\* The scheduler runs every task that can run, a mutex goes to those who wait
\* for it, the timer ticks, and a retransmission timer that counts runs out.
GetsOn(s) == FlagGet(s) \/ ReadCheck(s) \/ WriteCheck(s) \/ CloseCheck(s) \/ AcceptCheck(s)

Fairness ==
  /\ WF_vars(Main) /\ SF_vars(PeriodicTick)
  /\ \A c \in Conns : SF_vars(ci = c /\ (TimerRexmit \/ TimerExpire))
  /\ \A s \in Socks : SF_vars(GetsOn(s))

FairSpec == Spec /\ Fairness

\* A read gives up while the main thread waits for a reader of the data it holds for that
\* socket: the next read starts that wait of 500 ms anew (sock.c:698).
ReadPolls == mpc \in {"rx", "rxWait", "rxLock"} /\ wake[msock] = "expired"

\* The main thread comes back to its semaphore: no wait in an appcall lasts, but for one
\* that reads which give up start anew again and again.
MainServes == []<>(mpc = "wait" \/ ReadPolls)

\* A write returns, whatever the peer does: all of it acknowledged, or an error; unless
\* the main thread is kept from it as above.
WriteReturns == \A s \in Socks : call[s] = "write" ~> call[s] = "idle" \/ ReadPolls

\* So does a close, and releases the socket.
CloseReturns == \A s \in Socks : call[s] = "close" ~> call[s] = "none" \/ ReadPolls

-----------------------------------------------------------------------------
(* Refinement *)

Phase(state) ==
  CASE state = "BUSY" -> "ready"
    [] state \in Reading \cup {"WRITING", "CONNECT", "CLOSE"} -> "asked"
    [] state \in {"READ_OK", "WRITE_OK", "CONNECT_OK"} -> "answered"
    [] state \in Gone \cup {"CLOSE_OK"} -> "broken"
    [] OTHER -> "absent"

LinkOf(s) == IF \E c \in Conns : file[c] = s THEN CHOOSE c \in Conns : file[c] = s ELSE NoConn

Handshake == INSTANCE SockHandshake WITH
  None <- NoConn, phase <- [s \in Socks |-> Phase(st[s])], link <- [s \in Socks |-> LinkOf(s)]

\* The socket layer implements the rendezvous.
ImplementsHandshake == Handshake!Spec
=============================================================================
