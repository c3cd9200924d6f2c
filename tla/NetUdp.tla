------------------------------ MODULE NetUdp ------------------------------
(***************************************************************************)
(* UDP sockets: the tasks that call sock.c, the network main loop, and the *)
(* UDP connections of uip.c.  As in NetSock, a socket is served by one     *)
(* task, and what a task does with the socket's mutex held is one step.    *)
(* The main thread holds uipMutex except in "wait"; only for the wait of   *)
(* an appcall for a reader ("hold") does it give back the socket's mutex.  *)
(* A reader may give up at any time (the timeout of a bound socket is its  *)
(* port, for both are one union), and no reader need come.                 *)
(***************************************************************************)
EXTENDS Integers, FiniteSetsExt

CONSTANTS
  UdpSocks,       \* slots of netSocketTable
  UdpConnNbs,     \* values of UIP_UDP_CONNS
  Remotes,        \* what sockets are connected to: ip and port, or "any" and 0
  Sources,        \* who sends datagrams
  PortLo, PortHi, \* 4096 and 32000
  BindPorts,      \* ports for netSockBind; 0 for a socket that is not bound
  ReadSizes, WriteSizes, DatagramSizes,
  ReadStates      \* of netSockRead and netSockReadLine

ASSUME UdpAssumption ==
  /\ PortLo \in Nat \ {0} /\ PortHi \in Nat
  /\ UdpConnNbs \subseteq 1 .. (PortHi - PortLo - 1)
  /\ BindPorts \cup ReadSizes \cup WriteSizes \cup DatagramSizes \subseteq Nat
  /\ ReadStates \subseteq {"READING", "READING_LINE"}

VARIABLES
  usock,     \* struct netSock and its task: its state, flags, len and max, the call it is
             \* in and how its wait ended.  owed: datagrams it was given that no read has
             \* returned; sent: those of this write
  uconn,     \* uip_udp_conns: lport (0 when unused), the remote end, appstate.file
  lastport,
  umain,     \* the main thread: where it is, the next connection of its loop,
             \* sendRequested, and the datagram of its appcall
  urequest   \* dataToSend

udpvars == <<usock, uconn, lastport, umain, urequest>>

UdpTable == DOMAIN uconn

UdpInit ==
  /\ usock = [s \in UdpSocks |-> [st |-> "free", call |-> "none", wake |-> "wait",
       uip |-> FALSE, api |-> FALSE, max |-> 0, len |-> 0, owed |-> 0, sent |-> 0]]
  /\ \E k \in UdpConnNbs : uconn = [c \in 1 .. k |-> [lport |-> 0]]
  /\ lastport = PortLo /\ urequest = FALSE
  /\ umain = [pc |-> "wait"]

-----------------------------------------------------------------------------
(* The tasks *)

\* The only socket that a step changes
Sock(s, new) == usock' = [usock EXCEPT ![s] = new]

\* The return of a call.  What it leaves in len and max is never read.
Idle(s) == [usock[s] EXCEPT !.st = "BUSY", !.call = "idle", !.wake = "wait",
                            !.len = 0, !.max = 0, !.sent = 0]

\* uip_udp_new: the next port that no UDP connection has
NextPort ==
  LET after(k) == PortLo + ((lastport - PortLo + k) % (PortHi - PortLo))
      free == {k \in 1 .. (PortHi - PortLo) : \A c \in UdpTable : uconn[c].lport # after(k)}
  IN after(Min(free))

FreeConns == {c \in UdpTable : uconn[c].lport = 0}

\* netSockConnect, with uip_udp_new and uip_udp_bind
UdpConnect(s, r, p) ==
  /\ lastport' = NextPort
  /\ FreeConns # {}
  /\ uconn' = [uconn EXCEPT ![Min(FreeConns)] =
       [lport |-> IF p = 0 THEN lastport' ELSE p, remote |-> r, file |-> s]]
  /\ Sock(s, Idle(s))

UdpConnectFails(s) ==
  /\ lastport' = NextPort
  /\ FreeConns = {}
  /\ Sock(s, [usock[s] EXCEPT !.st = "NULL"]) /\ UNCHANGED uconn

\* netSockCreateUDP; or netSockAlloc, netSockBind and netSockConnect
CreateUDP(s, r, p) ==
  /\ usock[s].st = "free" /\ umain.pc = "wait"
  /\ UdpConnect(s, r, p) \/ UdpConnectFails(s)
  /\ UNCHANGED <<umain, urequest>>

OnlySock == UNCHANGED <<uconn, lastport, umain, urequest>>

\* sockReadInternal up to its wait
UdpRead(s, state, m) ==
  /\ usock[s].call = "idle"
  /\ Sock(s, [usock[s] EXCEPT !.st = state, !.max = m, !.len = 0, !.api = TRUE,
                              !.call = "read"])
  /\ OnlySock

UdpFlagGet(s) ==
  /\ usock[s].call # "idle" /\ usock[s].wake = "wait" /\ usock[s].uip
  /\ Sock(s, [usock[s] EXCEPT !.uip = FALSE, !.wake = "woken"])
  /\ OnlySock

UdpTimeout(s) ==
  /\ usock[s].call = "read" /\ usock[s].wake = "wait" /\ ~usock[s].uip
  /\ Sock(s, [usock[s] EXCEPT !.wake = "expired"])
  /\ OnlySock

\* Wrong: a read whose time is over looks no more whether it has been answered.
UdpReadEndExpired(s) ==
  /\ usock[s].call = "read" /\ usock[s].wake # "wait"
  /\ Sock(s, IF usock[s].wake = "woken" /\ usock[s].st = "READ_OK"
               THEN [Idle(s) EXCEPT !.owed = @ - 1]
             ELSE IF usock[s].wake = "woken" THEN [usock[s] EXCEPT !.wake = "wait"]
             ELSE Idle(s))
  /\ OnlySock

\* sockReadInternal after its wait
UdpReadEnd(s) ==
  /\ usock[s].call = "read" /\ usock[s].wake # "wait"
  /\ Sock(s, IF usock[s].st = "READ_OK" THEN [Idle(s) EXCEPT !.owed = @ - 1]
             ELSE IF usock[s].wake = "woken" THEN [usock[s] EXCEPT !.wake = "wait"]
             ELSE Idle(s))
  /\ OnlySock

\* sockWrite and sockClose up to their waits
UdpCall(s, new) ==
  /\ usock[s].call = "idle"
  /\ Sock(s, new)
  /\ urequest' = TRUE
  /\ UNCHANGED <<uconn, lastport, umain>>

UdpWrite(s, n) ==
  UdpCall(s, [usock[s] EXCEPT !.call = "write", !.st = "WRITING", !.len = n])
UdpClose(s) == UdpCall(s, [usock[s] EXCEPT !.call = "close", !.st = "CLOSE"])

UdpWriteEnd(s) ==
  /\ usock[s].call = "write" /\ usock[s].wake = "woken"
  /\ Sock(s, IF usock[s].st = "WRITING" THEN [usock[s] EXCEPT !.wake = "wait"]
             ELSE Idle(s))
  /\ OnlySock

\* netSockFree when closed; the slot is not free again.
UdpCloseEnd(s) ==
  /\ usock[s].call = "close" /\ usock[s].wake = "woken"
  /\ Sock(s, IF usock[s].st = "CLOSE" THEN [usock[s] EXCEPT !.wake = "wait"]
             ELSE [usock[s] EXCEPT !.st = "NULL", !.call = "none", !.wake = "wait",
                                   !.uip = FALSE, !.api = FALSE])
  /\ OnlySock

-----------------------------------------------------------------------------
(* The main thread *)

\* posSemaWait: timers and interrupts signal uipGiant as well.
UdpWake ==
  /\ umain.pc = "wait"
  /\ umain' = [pc |-> "clear", requested |-> urequest]
  /\ UNCHANGED <<usock, uconn, lastport, urequest>>

UdpClearRequest ==
  /\ umain.pc = "clear"
  /\ urequest' = FALSE
  /\ umain' = IF umain.requested THEN [pc |-> "send", next |-> 1] ELSE [pc |-> "input"]
  /\ UNCHANGED <<usock, uconn, lastport>>

\* netAppcallClose stores through uip_conn, which is NULL in UDP: the store stops the
\* program, or is lost.
AppcallClosed(c, s) ==
  /\ uconn' = [uconn EXCEPT ![c].lport = 0]
  /\ Sock(s, [usock[s] EXCEPT !.st = "CLOSE_OK", !.uip = TRUE])

\* udp_send: a datagram of no bytes is not sent.
UdpOut(n) == IF n > 0 THEN 1 ELSE 0

\* Wrong: the task is not told.
UdpAppcallPollSilent(c, s) ==
  \/ usock[s].st = "CLOSE" /\ AppcallClosed(c, s)
  \/ /\ usock[s].st = "WRITING"
     /\ Sock(s, [usock[s] EXCEPT !.st = "WRITE_OK", !.sent = @ + UdpOut(usock[s].len)])
     /\ UNCHANGED uconn
  \/ usock[s].st \notin {"CLOSE", "WRITING"} /\ UNCHANGED <<usock, uconn>>

\* netUdpAppcallMutex at uip_poll()
UdpAppcallPoll(c, s) ==
  \/ usock[s].st = "CLOSE" /\ AppcallClosed(c, s)
  \/ /\ usock[s].st = "WRITING"
     /\ Sock(s, [usock[s] EXCEPT !.st = "WRITE_OK", !.uip = TRUE,
                                 !.sent = @ + UdpOut(usock[s].len)])
     /\ UNCHANGED uconn
  \/ usock[s].st \notin {"CLOSE", "WRITING"} /\ UNCHANGED <<usock, uconn>>

\* uip_udp_periodic in both loops of the main thread
UdpPoll ==
  /\ umain.pc \in {"send", "periodic"}
  /\ LET c == umain.next
     IN IF uconn[c].lport = 0 THEN UNCHANGED <<usock, uconn>> ELSE UdpAppcallPoll(c, uconn[c].file)
  /\ umain' = IF umain.next + 1 \in UdpTable THEN [umain EXCEPT !.next = @ + 1]
              ELSE IF umain.pc = "send" THEN [pc |-> "input"] ELSE [pc |-> "wait"]
  /\ UNCHANGED <<lastport, urequest>>

UdpFault ==
  /\ umain.pc \in {"send", "periodic"}
  /\ LET c == umain.next IN uconn[c].lport # 0 /\ usock[uconn[c].file].st = "CLOSE"
  /\ umain' = [pc |-> "fault"]
  /\ UNCHANGED <<usock, uconn, lastport, urequest>>

\* netInterfacePoll is done; the periodic timer may have fired.
InputDone == umain' \in {[pc |-> "wait"], [pc |-> "periodic", next |-> 1]}

\* The first connection of the table that takes a datagram
Takes(c, d) ==
  /\ uconn[c].lport = d.to
  /\ uconn[c].remote.port \in {0, d.from.port}
  /\ uconn[c].remote.ip \in {"any", d.from.ip}
Takers(d) == {c \in UdpTable : Takes(c, d)}

\* netUdpAppcallMutex with a reader: the rest of a longer datagram is lost.
AnsweredBy(s, d) ==
  [usock[s] EXCEPT !.st = "READ_OK", !.uip = TRUE, !.owed = @ + 1,
                   !.len = IF d.size > usock[s].max THEN usock[s].max ELSE d.size]

\* udp_input, and netUdpAppcall up to its wait
UdpInput ==
  /\ umain.pc = "input"
  /\ \/ InputDone /\ UNCHANGED usock
     \/ \E to \in PortLo .. PortHi, from \in Sources, n \in DatagramSizes :
          LET d == [to |-> to, from |-> from, size |-> n]
              s == uconn[Min(Takers(d))].file
          IN IF Takers(d) = {} THEN InputDone /\ UNCHANGED usock
             ELSE IF usock[s].st = "READING" THEN Sock(s, AnsweredBy(s, d)) /\ InputDone
             ELSE umain' = [pc |-> "hold", s |-> s, d |-> d] /\ UNCHANGED usock
  /\ UNCHANGED <<uconn, lastport, urequest>>

\* The wait of netUdpAppcallMutex for a reader: only READING is one.
UdpHoldFlag ==
  /\ umain.pc = "hold" /\ usock[umain.s].api
  /\ LET s == umain.s
         d == umain.d
     IN IF usock[s].st = "READING"
          THEN Sock(s, [AnsweredBy(s, d) EXCEPT !.api = FALSE]) /\ InputDone
          ELSE Sock(s, [usock[s] EXCEPT !.api = FALSE]) /\ UNCHANGED umain
  /\ UNCHANGED <<uconn, lastport, urequest>>

UdpHoldTimeout ==
  /\ umain.pc = "hold" /\ ~usock[umain.s].api
  /\ InputDone
  /\ UNCHANGED <<usock, uconn, lastport, urequest>>

UdpTask(s) ==
  \/ UdpFlagGet(s) \/ UdpReadEnd(s) \/ UdpWriteEnd(s) \/ UdpCloseEnd(s)

UdpMain ==
  \/ UdpWake \/ UdpClearRequest \/ UdpPoll \/ UdpInput \/ UdpHoldFlag \/ UdpHoldTimeout

UdpNext ==
  \/ UdpMain \/ UdpFault
  \/ \E s \in UdpSocks :
       \/ UdpTask(s) \/ UdpTimeout(s) \/ UdpClose(s)
       \/ \E r \in Remotes, p \in BindPorts : CreateUDP(s, r, p)
       \/ \E m \in ReadSizes, state \in ReadStates : UdpRead(s, state, m)
       \/ \E n \in WriteSizes : UdpWrite(s, n)

UdpSpec == UdpInit /\ [][UdpNext]_udpvars

\* The main thread and the tasks go on, and the periodic timer fires every 500 ms.
UdpFairness ==
  /\ WF_udpvars(UdpMain)
  /\ SF_udpvars(UdpInput /\ umain'.pc = "periodic")
  /\ \A s \in UdpSocks : WF_udpvars(UdpTask(s))

-----------------------------------------------------------------------------
(* Properties *)

\* A socket in service has one connection, also when those of others are reused.
UdpPaired ==
  \A s \in UdpSocks :
    Cardinality({c \in UdpTable : uconn[c].lport # 0 /\ uconn[c].file = s})
      = IF usock[s].st \in {"free", "NULL", "CLOSE_OK"} THEN 0 ELSE 1

\* A datagram that the main thread has taken for a reader is what this read returns,
\* however its timeout and the answer cross; while no reader comes, the datagram is
\* still for the socket, and it is shorter than the reader's buffer.
UdpAnswered ==
  /\ \A s \in UdpSocks :
       /\ usock[s].owed = IF usock[s].st = "READ_OK" THEN 1 ELSE 0
       /\ usock[s].st = "READ_OK" => usock[s].len <= usock[s].max
  /\ umain.pc = "hold" =>
       \E c \in Takers(umain.d) : uconn[c].file = umain.s

\* Two polls may find the same write: it is sent once, before it returns.
UdpSentOnce ==
  \A s \in UdpSocks : usock[s].call = "write" =>
    usock[s].sent = IF usock[s].st = "WRITING" \/ usock[s].len = 0 THEN 0 ELSE 1

\* What tasks rely on with a UDP socket (netSockConnect, sockReadInternal, sockWrite,
\* netUdpAppcallMutex): its connection, a read answered once, a write sent once.
UdpRight == UdpPaired /\ UdpAnswered /\ UdpSentOnce

\* Every write and close of a UDP socket returns, though the request for it may be lost
\* between "wait" and "clear", unless the main thread stays in one appcall or stops at
\* the store through NULL.
UdpEnds ==
  \/ <>[](umain.pc \in {"hold", "fault"})
  \/ \A s \in UdpSocks :
       usock[s].call \in {"write", "close"} ~> usock[s].call \in {"idle", "none"}

\* The main thread serves the stack again after a datagram (picoos-net.h: "main loop,
\* which performs necessary uIP services for socket layer").  No run states it, for TLC
\* refutes it in sock_live: each read that gives up before the main thread has seen it,
\* and each read of a line, begins its wait of 500 ms anew.
UdpServes == umain.pc = "hold" ~> umain.pc # "hold"
=============================================================================
