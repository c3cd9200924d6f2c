------------------------------- MODULE UipTcp -------------------------------
(***************************************************************************)
(* The TCP of uip6.c between two nodes that run it, one of which connects  *)
(* to the other, with the socket layer's netTcpAppcall as the application  *)
(* on both.  The network may lose, repeat and reorder segments, and may    *)
(* still hold segments of an earlier connection of the same ports.  uIP    *)
(* sends one segment at a time and keeps no copy of it.  Each action is a  *)
(* call of uip_process, its appcall included: the network thread of a node *)
(* does one at a time.                                                     *)
(***************************************************************************)
EXTENDS Naturals, Sequences, FiniteSets

CONSTANTS
  Active, Passive,   \* the node that calls uip_connect, the node that listens
  SeqMod,            \* sequence numbers are numbers modulo SeqMod
  Iss,               \* the initial sequence number of a node
  MSS,               \* UIP_TCP_MSS, and the receive window
  MaxRtx, MaxSynRtx, \* UIP_MAXRTX, UIP_MAXSYNRTX
  Sizes,             \* lengths of the writes of a node
  Total,             \* how much a node writes in all
  Stale              \* segments of an earlier connection

Nodes == {Active, Passive}
Peer(n) == IF n = Active THEN Passive ELSE Active
Flags == {"SYN", "ACK", "FIN", "RST"}
Seqnos == 0 .. SeqMod - 1

\* Data of a segment: the positions of its bytes in the stream of the writer
Segment == [to : Nodes, flags : SUBSET Flags, seq : Seqnos, ack : Seqnos,
            data : Seq(Nat)]

ASSUME NodeAssumption == Active # Passive
ASSUME SeqAssumption == SeqMod \in Nat \ {0} /\ Iss \in [Nodes -> Seqnos]
ASSUME SizeAssumption ==
  /\ MSS \in Nat \ {0} /\ Sizes \in [Nodes -> SUBSET (Nat \ {0})]
  /\ Total \in [Nodes -> Nat]
ASSUME RtxAssumption == MaxRtx \in Nat /\ MaxSynRtx \in 0 .. MaxRtx
ASSUME StaleAssumption == Stale \subseteq Segment

VARIABLES
  conn,   \* struct uip_conn of a node
  app,    \* the socket of a node and what its task has written and read
  listening,  \* the port is in uip_listenports of the passive node
  net     \* segments that may arrive, now or later, once or more often

vars == <<conn, app, listening, net>>

Closing == {"FIN_WAIT_1", "FIN_WAIT_2", "CLOSING", "TIME_WAIT", "LAST_ACK"}
States == {"CLOSED", "SYN_SENT", "SYN_RCVD", "ESTABLISHED"} \cup Closing

\* NET_SOCK_... of the socket: BUSY with no call, WRITING, CLOSE asked for, and
\* what the call after the end returns.
Socks == {"NULL", "CONNECT", "BUSY", "WRITING", "CLOSE", "CLOSE_OK", "PEER_CLOSED",
          "PEER_ABORTED"}

Init ==
  /\ conn = [n \in Nodes |-> [st |-> "CLOSED", snd |-> 0, rcv |-> 0, len |-> 0, nrtx |-> 0]]
  /\ app = [n \in Nodes |-> [sock |-> "NULL", want |-> 0, done |-> 0, got |-> <<>>]]
  /\ listening = TRUE
  /\ net = Stale

-----------------------------------------------------------------------------
(* Sequence numbers and segments *)

\* uip_add32 and uip_add_rcv_nxt
Add(seq, n) == (seq + n) % SeqMod

Smaller(i, j) == IF i < j THEN i ELSE j

\* tcp_send: seqno and ackno come from the connection as it is at the end.
Seg(n, c, flags, data) ==
  [to |-> Peer(n), flags |-> flags, seq |-> c.snd, ack |-> c.rcv, data |-> data]

SynSeg(n, c) == Seg(n, c, {"SYN"}, <<>>)
SynAckSeg(n, c) == Seg(n, c, {"SYN", "ACK"}, <<>>)
AckSeg(n, c) == Seg(n, c, {"ACK"}, <<>>)
FinAckSeg(n, c) == Seg(n, c, {"FIN", "ACK"}, <<>>)

\* A reset; nobody looks at its numbers.
Rst(n) == [to |-> n, flags |-> {"RST", "ACK"}, seq |-> 0, ack |-> 0, data |-> <<>>]

\* The data at sock->buf, as much as conn->len says
DataSeg(n, c, a) == Seg(n, c, {"ACK"}, [i \in 1 .. c.len |-> a.done + i])

\* reset: the answer to a segment that no connection wants
ResetFor(m) == IF "RST" \in m.flags THEN {} ELSE {Rst(Peer(m.to))}

Become(n, c, a, out) ==
  /\ conn' = [conn EXCEPT ![n] = c]
  /\ app' = [app EXCEPT ![n] = a]
  /\ net' = net \cup out

\* uip_outstanding
Outstanding(c) == c.len > 0

\* Wrong: any acknowledgement is taken for the one that is waited for.
AnyAcks(c, m) == "ACK" \in m.flags /\ Outstanding(c)

\* Whether the segment acknowledges what is outstanding: UIP_ACKDATA
Acks(c, m) == "ACK" \in m.flags /\ Outstanding(c) /\ m.ack = Add(c.snd, c.len)

\* Wrong: snd_nxt stays where it was.
AckedStill(c, m) == IF Acks(c, m) THEN [c EXCEPT !.len = 0] ELSE c

\* The connection after acknowledgement processing
Acked(c, m) == IF Acks(c, m) THEN [c EXCEPT !.snd = m.ack, !.len = 0] ELSE c

\* Wrong: the sequence check is for segments with flags only.
AcceptData(c, m) ==
  \/ c.st = "SYN_SENT" /\ m.flags = {"SYN", "ACK"}
  \/ c.st = "SYN_RCVD" /\ m.flags = {"SYN"}
  \/ m.flags \cap {"SYN", "FIN"} = {}
  \/ m.seq = c.rcv

\* A handshake segment in the state that waits for it, or in sequence, or
\* with nothing that takes sequence numbers
Acceptable(c, m) ==
  \/ c.st = "SYN_SENT" /\ m.flags = {"SYN", "ACK"}
  \/ c.st = "SYN_RCVD" /\ m.flags = {"SYN"}
  \/ m.data = <<>> /\ m.flags \cap {"SYN", "FIN"} = {}
  \/ m.seq = c.rcv

\* netAppcallClose, for a socket that still has the connection
Ended(a, how) ==
  IF a.sock \in {"CONNECT", "BUSY", "WRITING", "CLOSE"} THEN [a EXCEPT !.sock = how] ELSE a

\* netTcpAppcallMutex for uip_acked(): conn->len was the start of the write, no
\* more than the mss.
AckedApp(a) ==
  IF a.sock # "WRITING" THEN a
  ELSE IF a.want - a.done <= MSS THEN [a EXCEPT !.done = a.want, !.sock = "BUSY"]
  ELSE [a EXCEPT !.done = @ + MSS]

\* netTcpAppcallMutex for uip_newdata(): readers may take the data, or some of it.
\* Without a reader in time, as when the task writes or closes, uip_abort.
Delivered(a, data) ==
  LET took(k) == [a EXCEPT !.got = @ \o SubSeq(data, 1, k),
                           !.sock = IF k = Len(data) THEN @ ELSE "PEER_ABORTED"]
  IN {took(k) : k \in IF a.sock = "BUSY" THEN 0 .. Len(data) ELSE {0}}

\* appsend and apprexmit, after an appcall that left the socket as a
Appsend(n, c, a, abort, newdata) ==
  IF abort THEN Become(n, [c EXCEPT !.st = "CLOSED"], a, {Rst(Peer(n))})
  ELSE IF a.sock = "WRITING" /\ ~Outstanding(c)
    THEN LET d == [c EXCEPT !.len = Smaller(a.want - a.done, MSS), !.nrtx = 0]
         IN Become(n, d, a, {DataSeg(n, d, a)})
  ELSE Become(n, [c EXCEPT !.nrtx = 0], a, IF newdata THEN {AckSeg(n, c)} ELSE {})

-----------------------------------------------------------------------------
(* The tasks *)

\* netSockConnect and uip_connect.  The SYN is sent by the timer.
Connect ==
  /\ app[Active].sock = "NULL"
  /\ conn' = [conn EXCEPT ![Active] =
       [st |-> "SYN_SENT", snd |-> Iss[Active], rcv |-> 0, len |-> 1, nrtx |-> 0]]
  /\ app' = [app EXCEPT ![Active].sock = "CONNECT"]
  /\ UNCHANGED <<listening, net>>

\* sockWrite
Write(n) ==
  /\ app[n].sock = "BUSY"
  /\ \E k \in Sizes[n] :
       /\ app[n].want + k <= Total[n]
       /\ app' = [app EXCEPT ![n].sock = "WRITING", ![n].want = @ + k]
  /\ UNCHANGED <<conn, listening, net>>

\* sockClose
Close(n) ==
  /\ app[n].sock = "BUSY"
  /\ app' = [app EXCEPT ![n].sock = "CLOSE"]
  /\ UNCHANGED <<conn, listening, net>>

-----------------------------------------------------------------------------
(* UIP_POLL_REQUEST and UIP_TIMER *)

\* Both poll an established connection with nothing outstanding: it may close,
\* and may start to send.
Poll(n) ==
  LET c == conn[n]
      d == [c EXCEPT !.st = "FIN_WAIT_1", !.len = 1, !.nrtx = 0]
  IN /\ c.st = "ESTABLISHED" /\ ~Outstanding(c)
     /\ IF app[n].sock = "CLOSE"
          THEN Become(n, d, Ended(app[n], "CLOSE_OK"), {FinAckSeg(n, d)})
          ELSE Appsend(n, c, app[n], FALSE, FALSE)
     /\ UNCHANGED listening

\* A poll sends the SYN once more and leaves the timer alone.
PollSyn(n) ==
  /\ conn[n].st = "SYN_SENT"
  /\ Become(n, conn[n], app[n], {SynSeg(n, conn[n])})
  /\ UNCHANGED listening

\* Wrong: only TIME_WAIT is left by itself.
WaitOverLast(n) ==
  /\ conn[n].st = "TIME_WAIT"
  /\ conn' = [conn EXCEPT ![n].st = "CLOSED"]
  /\ UNCHANGED <<app, listening, net>>

\* conn->timer of a state that only waits has come to UIP_TIME_WAIT_TIMEOUT.
WaitOver(n) ==
  /\ conn[n].st \in {"TIME_WAIT", "FIN_WAIT_2"}
  /\ conn' = [conn EXCEPT ![n].st = "CLOSED"]
  /\ UNCHANGED <<app, listening, net>>

\* conn->timer has come to 0 with something outstanding.
TimerRanOut(n) ==
  /\ conn[n].st \notin {"CLOSED", "TIME_WAIT", "FIN_WAIT_2"} /\ Outstanding(conn[n])
  /\ UNCHANGED listening

\* Wrong: one try too many.
LastTryLate(c) == c.nrtx > MaxRtx \/ (c.st \in {"SYN_SENT", "SYN_RCVD"} /\ c.nrtx > MaxSynRtx)

LastTry(c) == c.nrtx = MaxRtx \/ (c.st \in {"SYN_SENT", "SYN_RCVD"} /\ c.nrtx = MaxSynRtx)

GiveUp(n) ==
  /\ TimerRanOut(n) /\ LastTry(conn[n])
  /\ Become(n, [conn[n] EXCEPT !.st = "CLOSED"], Ended(app[n], "PEER_ABORTED"), {Rst(Peer(n))})

\* Wrong: retransmissions of data are not counted.
RetransmitOn(n) ==
  LET c == conn[n] IN
  /\ TimerRanOut(n) /\ ~LastTry(conn[n])
  /\ Become(n, c, app[n],
       {CASE c.st = "SYN_SENT" -> SynSeg(n, c)
          [] c.st = "SYN_RCVD" -> SynAckSeg(n, c)
          [] c.st = "ESTABLISHED" -> DataSeg(n, c, app[n])
          [] OTHER -> FinAckSeg(n, c)})

Retransmit(n) ==
  LET c == [conn[n] EXCEPT !.nrtx = @ + 1] IN
  /\ TimerRanOut(n) /\ ~LastTry(conn[n])
  /\ Become(n, c, app[n],
       {CASE c.st = "SYN_SENT" -> SynSeg(n, c)
          [] c.st = "SYN_RCVD" -> SynAckSeg(n, c)
          [] c.st = "ESTABLISHED" -> DataSeg(n, c, app[n])
          [] OTHER -> FinAckSeg(n, c)})

-----------------------------------------------------------------------------
(* UIP_DATA: tcp_input *)

\* No connection matches, and nobody listens.
Unwanted(n, m) ==
  /\ conn[n].st = "CLOSED"
  /\ ~(n = Passive /\ listening /\ m.flags = {"SYN"})
  /\ net' = net \cup ResetFor(m)
  /\ UNCHANGED <<conn, app, listening>>

\* found_listen.  The listening socket is closed when it has its connection.
Opened(n, m) ==
  LET c == [st |-> "SYN_RCVD", snd |-> Iss[n], rcv |-> Add(m.seq, 1), len |-> 1, nrtx |-> 0]
  IN /\ conn[n].st = "CLOSED" /\ n = Passive /\ listening /\ m.flags = {"SYN"}
     /\ Become(n, c, app[n], {SynAckSeg(n, c)})
     /\ listening' = FALSE

\* found: any reset is believed.
Reset(n, m) ==
  /\ conn[n].st # "CLOSED" /\ "RST" \in m.flags
  /\ Become(n, [conn[n] EXCEPT !.st = "CLOSED"], Ended(app[n], "PEER_ABORTED"), {})
  /\ UNCHANGED listening

\* Out of sequence: say again what is expected.
OutOfSequence(n, m) ==
  LET c == conn[n] IN
  /\ c.st # "CLOSED" /\ "RST" \notin m.flags /\ ~Acceptable(c, m)
  /\ Become(n, c, app[n],
       {IF "SYN" \in m.flags /\ c.st = "SYN_RCVD" THEN SynAckSeg(n, c)
        ELSE IF "SYN" \in m.flags /\ c.st = "SYN_SENT" THEN Seg(n, c, m.flags, <<>>)
        ELSE AckSeg(n, c)})
  /\ UNCHANGED listening

\* A segment that gets to the switch in state st
InState(n, m, st) ==
  /\ conn[n].st = st /\ "RST" \notin m.flags /\ Acceptable(conn[n], m)
  /\ UNCHANGED listening

\* The SYNACK is acknowledged: a task accepts the connection, or nobody does.
\* A FIN in the segment is not looked at.
SynRcvd(n, m) ==
  LET c == [Acked(conn[n], m) EXCEPT !.st = "ESTABLISHED", !.rcv = Add(@, Len(m.data))]
      data == m.data # <<>>
  IN /\ InState(n, m, "SYN_RCVD")
     /\ \/ /\ Acks(conn[n], m)
           /\ \/ Appsend(n, c, app[n], TRUE, data)
              \/ \E a \in Delivered([app[n] EXCEPT !.sock = "BUSY"], m.data) :
                   Appsend(n, c, a, a.sock = "PEER_ABORTED", data)
        \/ /\ ~Acks(conn[n], m) /\ m.flags = {"SYN"}
           /\ Become(n, conn[n], app[n], {SynAckSeg(n, conn[n])})

SynSent(n, m) ==
  LET c == conn[n]
      d == [Acked(c, m) EXCEPT !.st = "ESTABLISHED", !.rcv = Add(m.seq, 1), !.nrtx = 0]
  IN /\ InState(n, m, "SYN_SENT")
     /\ IF Acks(c, m) /\ m.flags = {"SYN", "ACK"}
          THEN Become(n, d, [app[n] EXCEPT !.sock = "BUSY"], {AckSeg(n, d)})
          ELSE Become(n, [Acked(c, m) EXCEPT !.st = "CLOSED"], Ended(app[n], "PEER_ABORTED"),
                      ResetFor(m))

\* A FIN: the end of file, and uIP closes its side too.  With data outstanding
\* it is dropped, and the peer must send it again.
EstablishedFin(n, m) ==
  LET c == Acked(conn[n], m)
      d == [c EXCEPT !.st = "LAST_ACK", !.rcv = Add(@, 1 + Len(m.data)),
                     !.len = 1, !.nrtx = 0]
      a == IF Acks(conn[n], m) THEN AckedApp(app[n]) ELSE app[n]
  IN /\ InState(n, m, "ESTABLISHED") /\ "FIN" \in m.flags /\ ~Outstanding(c)
     /\ \E b \in IF m.data = <<>> THEN {a} ELSE Delivered(a, m.data) :
          Become(n, d, Ended(b, "PEER_CLOSED"), {FinAckSeg(n, d)})

\* Data, an acknowledgement, or both
EstablishedData(n, m) ==
  LET c == [Acked(conn[n], m) EXCEPT !.rcv = Add(@, Len(m.data))]
      a == IF Acks(conn[n], m) THEN AckedApp(app[n]) ELSE app[n]
      data == m.data # <<>>
  IN /\ InState(n, m, "ESTABLISHED") /\ "FIN" \notin m.flags
     /\ Acks(conn[n], m) \/ data
     /\ \E b \in IF data THEN Delivered(a, m.data) ELSE {a} :
          Appsend(n, c, b, b.sock = "PEER_ABORTED", data)

LastAck(n, m) ==
  /\ InState(n, m, "LAST_ACK") /\ Acks(conn[n], m)
  /\ Become(n, [Acked(conn[n], m) EXCEPT !.st = "CLOSED"], app[n], {})

\* The task is gone: data that comes is acknowledged, and nobody gets it.
FinWait1(n, m) ==
  LET c == Acked(conn[n], m)
      fin == "FIN" \in m.flags
      d == [c EXCEPT !.rcv = Add(@, Len(m.data) + IF fin THEN 1 ELSE 0),
                     !.st = CASE fin /\ ~Outstanding(c) -> "TIME_WAIT"
                              [] fin /\ Outstanding(c) -> "CLOSING"
                              [] ~fin /\ ~Outstanding(c) -> "FIN_WAIT_2"
                              [] OTHER -> @]
      silent == ~fin /\ (m.data = <<>> \/ ~Outstanding(c))
  IN /\ InState(n, m, "FIN_WAIT_1")
     /\ Become(n, d, app[n], IF silent THEN {} ELSE {AckSeg(n, d)})

FinWait2(n, m) ==
  LET fin == "FIN" \in m.flags
      d == [conn[n] EXCEPT !.rcv = Add(@, Len(m.data) + IF fin THEN 1 ELSE 0),
                           !.st = IF fin THEN "TIME_WAIT" ELSE @]
  IN /\ InState(n, m, "FIN_WAIT_2")
     /\ fin \/ m.data # <<>>
     /\ Become(n, d, app[n], {AckSeg(n, d)})

TimeWait(n, m) ==
  /\ InState(n, m, "TIME_WAIT")
  /\ Become(n, conn[n], app[n], {AckSeg(n, conn[n])})

ClosingAcked(n, m) ==
  /\ InState(n, m, "CLOSING") /\ Acks(conn[n], m)
  /\ Become(n, [Acked(conn[n], m) EXCEPT !.st = "TIME_WAIT"], app[n], {})

Receive(n, m) ==
  \/ Unwanted(n, m) \/ Opened(n, m) \/ Reset(n, m) \/ OutOfSequence(n, m)
  \/ SynRcvd(n, m) \/ SynSent(n, m) \/ EstablishedFin(n, m) \/ EstablishedData(n, m)
  \/ LastAck(n, m) \/ FinWait1(n, m) \/ FinWait2(n, m) \/ TimeWait(n, m)
  \/ ClosingAcked(n, m)

-----------------------------------------------------------------------------
Next ==
  \/ Connect
  \/ \E n \in Nodes :
       \/ Write(n) \/ Close(n) \/ Poll(n) \/ PollSyn(n) \/ WaitOver(n) \/ GiveUp(n)
       \/ Retransmit(n)
       \/ \E m \in net : m.to = n /\ Receive(n, m)

Spec == Init /\ [][Next]_vars

-----------------------------------------------------------------------------
(* Properties *)

\* Fields have the types that struct uip_conn and the socket give them, and
\* retransmissions are counted no further than the limit.
TcpTypeOK ==
  /\ conn \in [Nodes -> [st : States, snd : Seqnos, rcv : Seqnos, len : 0 .. MSS + 1,
                         nrtx : 0 .. MaxRtx]]
  /\ DOMAIN app = Nodes
  /\ \A n \in Nodes :
       /\ app[n].sock \in Socks
       /\ app[n].want \in 0 .. Total[n] /\ app[n].done \in 0 .. app[n].want
       /\ app[n].got \in Seq(Nat)
  /\ listening \in BOOLEAN
  /\ net \subseteq Segment

\* What a task has read is what the other has written, in order, from the start
\* and without a gap, whatever the network repeats, reorders or remembers: the
\* sequence check of tcp_input and uip_add_rcv_nxt.
StreamIntact ==
  \A n \in Nodes :
    /\ Len(app[n].got) <= app[Peer(n)].want
    /\ \A i \in 1 .. Len(app[n].got) : app[n].got[i] = i

\* While both ends are established, what an end expects is the first byte that the
\* other has outstanding, or the one after the last: one segment is under way, and
\* it has either come or not (snd_nxt, len and rcv_nxt, over their wrap).
StopAndWait ==
  (\A n \in Nodes : conn[n].st = "ESTABLISHED") =>
    \A n \in Nodes :
      conn[Peer(n)].rcv \in {conn[n].snd, Add(conn[n].snd, conn[n].len)}

\* The two sockets get what a TCP connection promises.
Stream == INSTANCE TcpStream WITH
  want <- [n \in Nodes |-> app[n].want],
  done <- [n \in Nodes |-> app[n].done],
  got <- [n \in Nodes |-> Len(app[n].got)],
  up <- [n \in Nodes |->
          CASE app[n].sock = "CLOSE_OK" -> "closed"
            [] app[n].sock = "PEER_CLOSED" -> "eof"
            [] app[n].sock = "PEER_ABORTED" -> "broken"
            [] OTHER -> "open"]
ImplementsStream == Stream!Spec

\* The timers go on; no segment needs to arrive.
Fairness ==
  \A n \in Nodes :
    WF_vars(Poll(n)) /\ WF_vars(WaitOver(n)) /\ WF_vars(GiveUp(n) \/ Retransmit(n))
FairSpec == Spec /\ Fairness

\* A write ends, confirmed or aborted, even when no segment arrives any more.
WriteEnds == \A n \in Nodes : app[n].sock = "WRITING" ~> app[n].sock # "WRITING"

\* A connection that either side began to close, or that is being opened, leaves the
\* table or is established: no state of the close waits for the peer for ever.
CloseEnds ==
  \A n \in Nodes :
    /\ conn[n].st \in Closing ~> conn[n].st = "CLOSED"
    /\ conn[n].st \in {"SYN_SENT", "SYN_RCVD"} ~> conn[n].st \in {"CLOSED", "ESTABLISHED"}
=============================================================================
