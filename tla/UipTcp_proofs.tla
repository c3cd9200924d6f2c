---------------------------- MODULE UipTcp_proofs ----------------------------
(***************************************************************************)
(* The TCP of uip6.c for every size of the sequence space, of the segments *)
(* and of the writes, and every number of retransmissions: proofs.         *)
(***************************************************************************)
EXTENDS UipTcp, SequenceTheorems, TLAPS

-----------------------------------------------------------------------------
(* Arithmetic modulo SeqMod *)

\* Two representations with the same divisor have the same remainder.
LEMMA QuotientUnique ==
  ASSUME NEW M \in Nat \ {0}, NEW a \in Int, NEW b \in Int, NEW s \in 0 .. M - 1,
         NEW t \in 0 .. M - 1, M * a + s = M * b + t
  PROVE  s = t
  OBVIOUS

\* A number is its quotient times the divisor and its remainder.
LEMMA Quotient ==
  ASSUME NEW M \in Nat \ {0}, NEW a \in Nat
  PROVE  a = M * (a \div M) + (a % M)
  OBVIOUS

\* The remainder of a division by a variable.
LEMMA Division ==
  ASSUME NEW M \in Nat \ {0}, NEW a \in Nat
  PROVE  \E q \in Int, r \in 0 .. M - 1 : a = M * q + r /\ r = a % M
<1>1. a % M \in 0 .. M - 1 /\ a \div M \in Int
  OBVIOUS
<1> QED
  BY <1>1, Quotient

\* uip_add32 yields a sequence number.
LEMMA AddSeq == \A x \in Nat, k \in Nat : Add(x, k) \in Seqnos
  BY SeqAssumption DEF Add, Seqnos

\* A sequence number is a natural number.
LEMMA SeqNat == \A x \in Seqnos : x \in Nat
  BY SeqAssumption DEF Seqnos

\* uip_add32 twice is uip_add32 of the sum.
LEMMA AddTwice ==
  ASSUME NEW x \in Nat, NEW j \in Nat, NEW k \in Nat
  PROVE  Add(Add(x, j), k) = Add(x, j + k)
<1>0. SeqMod \in Nat \ {0}
  BY SeqAssumption
<1>1. PICK q \in Int, r \in 0 .. SeqMod - 1 : x + j = SeqMod * q + r /\ r = (x + j) % SeqMod
  BY <1>0, x + j \in Nat, Division
<1>2. PICK u \in Int, v \in 0 .. SeqMod - 1 : r + k = SeqMod * u + v /\ v = (r + k) % SeqMod
  BY <1>0, r + k \in Nat, Division
<1>3. PICK a \in Int, b \in 0 .. SeqMod - 1 :
        x + (j + k) = SeqMod * a + b /\ b = (x + (j + k)) % SeqMod
  BY <1>0, x + (j + k) \in Nat, Division
<1>4. SeqMod * (q + u) = SeqMod * q + SeqMod * u
  BY <1>0
<1>5. \E A, B, C, D \in Int :
        /\ A = SeqMod * q /\ B = SeqMod * u /\ C = SeqMod * a /\ D = SeqMod * (q + u)
        /\ D = A + B
  BY <1>0, <1>4
<1>6. SeqMod * (q + u) + v = SeqMod * a + b
  <2>1. PICK A, B, C, D \in Int :
          /\ A = SeqMod * q /\ B = SeqMod * u /\ C = SeqMod * a /\ D = SeqMod * (q + u)
          /\ D = A + B
    BY <1>5
  <2>2. x + j = A + r /\ r + k = B + v /\ x + (j + k) = C + b
    BY <1>1, <1>2, <1>3, <2>1
  <2>3. D + v = C + b
    BY <1>0, <2>1, <2>2
  <2> QED
    BY <2>1, <2>3
<1>7. v = b
  BY <1>0, <1>6, q + u \in Int, QuotientUnique
<1> QED
  BY <1>1, <1>2, <1>3, <1>7 DEF Add

\* Within one turn of the sequence space, a number is that of one position only.
LEMMA AddInjective ==
  ASSUME NEW x \in Nat, NEW j \in 0 .. SeqMod - 1, NEW k \in 0 .. SeqMod - 1,
         Add(x, j) = Add(x, k)
  PROVE  j = k
<1>0. SeqMod \in Nat \ {0}
  BY SeqAssumption
<1>1. ASSUME NEW i \in 0 .. SeqMod - 1, NEW l \in 0 .. SeqMod - 1, i <= l, Add(x, i) = Add(x, l)
      PROVE  i = l
  <2>1. PICK a \in Int, r \in 0 .. SeqMod - 1 : x + i = SeqMod * a + r /\ r = (x + i) % SeqMod
    BY <1>0, x + i \in Nat, Division
  <2>2. PICK b \in Int, t \in 0 .. SeqMod - 1 : x + l = SeqMod * b + t /\ t = (x + l) % SeqMod
    BY <1>0, x + l \in Nat, Division
  <2>3. r = t
    BY <1>1, <2>1, <2>2 DEF Add
  <2>4. SeqMod * (b - a) = SeqMod * b - SeqMod * a
    BY <1>0
  <2>5. SeqMod * a \in Int /\ SeqMod * b \in Int /\ SeqMod * 0 = 0
    BY <1>0
  <2>6. SeqMod * 0 + (l - i) = SeqMod * (b - a) + 0
    BY <1>0, <2>1, <2>2, <2>3, <2>4, <2>5
  <2>7. l - i \in 0 .. SeqMod - 1 /\ 0 \in 0 .. SeqMod - 1 /\ b - a \in Int
    BY <1>0, <1>1
  <2>8. l - i = 0
    BY <1>0, <2>6, <2>7, QuotientUnique
  <2> QED
    BY <1>0, <2>8
<1>2. j <= k \/ k <= j
  BY <1>0
<1> QED
  BY <1>1, <1>2

-----------------------------------------------------------------------------
(* Types *)

UipConn == [st : States, snd : Seqnos, rcv : Seqnos, len : 0 .. MSS + 1, nrtx : 0 .. MaxRtx]
AppSock == [sock : Socks, want : Nat, done : Nat, got : Seq(Nat)]

\* What a write waits for is part of what was asked for.
AppRight(n, a) == a \in AppSock /\ a.want <= Total[n] /\ a.done <= a.want

TcpTypes ==
  /\ conn \in [Nodes -> UipConn]
  /\ app \in [Nodes -> AppSock] /\ \A n \in Nodes : AppRight(n, app[n])
  /\ listening \in BOOLEAN
  /\ net \subseteq Segment

\* The numbers that the code calculates with
LEMMA Numbers ==
  /\ SeqMod \in Nat \ {0} /\ MSS \in Nat \ {0} /\ MaxRtx \in Nat /\ MaxSynRtx \in 0 .. MaxRtx
  /\ \A n \in Nodes : Iss[n] \in Seqnos /\ Total[n] \in Nat /\ Sizes[n] \subseteq Nat \ {0}
  /\ 0 \in Seqnos /\ Seqnos \subseteq Nat /\ Active \in Nodes /\ Passive \in Nodes
  BY SeqAssumption, SizeAssumption, RtxAssumption DEF Seqnos, Nodes

\* Each end has the other as its peer.
LEMMA PeerNode == \A n \in Nodes : Peer(n) \in Nodes /\ Peer(Peer(n)) = n /\ Peer(n) # n
  BY NodeAssumption DEF Nodes, Peer

\* A step that gives an end a connection, a socket and segments of the right types keeps
\* the types.
LEMMA BecomeTypes ==
  ASSUME TcpTypes, NEW n \in Nodes, NEW c \in UipConn, NEW a, NEW out, AppRight(n, a),
         out \subseteq Segment, Become(n, c, a, out), listening' \in BOOLEAN
  PROVE  TcpTypes'
<1>1. conn' \in [Nodes -> UipConn] /\ net' \subseteq Segment
  BY DEF TcpTypes, Become
<1>2. app' \in [Nodes -> AppSock] /\ \A m \in Nodes : AppRight(m, app'[m])
  BY DEF TcpTypes, Become, AppRight
<1> QED
  BY <1>1, <1>2 DEF TcpTypes, AppRight

\* A connection of these fields
LEMMA ConnRecord ==
  ASSUME NEW st \in States, NEW snd \in Seqnos, NEW rcv \in Seqnos, NEW len \in 0 .. MSS + 1,
         NEW nrtx \in 0 .. MaxRtx
  PROVE  [st |-> st, snd |-> snd, rcv |-> rcv, len |-> len, nrtx |-> nrtx] \in UipConn
BY Zenon DEF UipConn

\* The segments of a connection
LEMMA SegTypes ==
  ASSUME NEW n \in Nodes, NEW c \in UipConn
  PROVE  /\ \A f \in SUBSET Flags : Seg(n, c, f, <<>>) \in Segment
         /\ SynSeg(n, c) \in Segment /\ SynAckSeg(n, c) \in Segment
         /\ AckSeg(n, c) \in Segment /\ FinAckSeg(n, c) \in Segment
         /\ Rst(n) \in Segment /\ Rst(Peer(n)) \in Segment
<1>1. <<>> \in Seq(Nat)
  BY EmptySeq
<1>2. c.snd \in Seqnos /\ c.rcv \in Seqnos /\ 0 \in Seqnos /\ Peer(n) \in Nodes
  BY PeerNode, Numbers DEF UipConn
<1> QED
  BY <1>1, <1>2 DEF Seg, SynSeg, SynAckSeg, AckSeg, FinAckSeg, Rst, Segment, Flags

\* A data segment has the bytes after those confirmed.
LEMMA DataSegType ==
  ASSUME NEW n \in Nodes, NEW c \in UipConn, NEW a \in AppSock
  PROVE  /\ DataSeg(n, c, a) \in Segment
         /\ DataSeg(n, c, a).to = Peer(n) /\ DataSeg(n, c, a).flags = {"ACK"}
         /\ DataSeg(n, c, a).seq = c.snd /\ DataSeg(n, c, a).ack = c.rcv
         /\ Len(DataSeg(n, c, a).data) = c.len
         /\ \A i \in 1 .. c.len : DataSeg(n, c, a).data[i] = a.done + i
<1> DEFINE d == [i \in 1 .. c.len |-> a.done + i]
<1>1. c.len \in Nat /\ \A i \in 1 .. c.len : a.done + i \in Nat
  BY Numbers DEF UipConn, AppSock
<1>2. d \in Seq(Nat)
  <2>1. d \in [1 .. c.len -> Nat]
    BY <1>1
  <2> QED
    BY <1>1, <2>1, SeqDef
<1>3. Len(d) = c.len
  BY <1>1, <1>2, LenProperties
<1>4. c.snd \in Seqnos /\ c.rcv \in Seqnos /\ Peer(n) \in Nodes
  BY PeerNode DEF UipConn
<1>5. DataSeg(n, c, a) = [to |-> Peer(n), flags |-> {"ACK"}, seq |-> c.snd, ack |-> c.rcv, data |-> d]
  BY DEF DataSeg, Seg
<1> HIDE DEF d
<1>6. DataSeg(n, c, a) \in Segment
  BY <1>2, <1>4, <1>5 DEF Segment, Flags
<1> QED
  BY <1>1, <1>3, <1>5, <1>6 DEF d

\* An acknowledgement leaves a connection a connection.
LEMMA AckedType ==
  ASSUME NEW c \in UipConn, NEW m \in Segment
  PROVE  Acked(c, m) \in UipConn
<1>1. m.ack \in Seqnos /\ 0 \in 0 .. MSS + 1
  BY Numbers DEF Segment
<1>2. [c EXCEPT !.snd = m.ack, !.len = 0] \in UipConn
  BY <1>1 DEF UipConn
<1> QED
  BY <1>2 DEF Acked

\* A socket that is over keeps what was read and written.
LEMMA EndedType ==
  ASSUME NEW n \in Nodes, NEW a, AppRight(n, a), NEW how \in Socks
  PROVE  AppRight(n, Ended(a, how)) /\ Ended(a, how).got = a.got /\ Ended(a, how).want = a.want
  BY DEF AppRight, AppSock, Ended, Socks

\* An acknowledged socket keeps what was read.
LEMMA AckedAppType ==
  ASSUME NEW n \in Nodes, NEW a, AppRight(n, a)
  PROVE  AppRight(n, AckedApp(a)) /\ AckedApp(a).got = a.got /\ AckedApp(a).want = a.want
<1>1. a.done \in Nat /\ a.want \in Nat /\ MSS \in Nat
  BY Numbers DEF AppRight, AppSock
<1>2. CASE a.sock # "WRITING"
  BY <1>2 DEF AckedApp
<1>3. CASE a.sock = "WRITING" /\ a.want - a.done <= MSS
  <2>1. AckedApp(a) = [a EXCEPT !.done = a.want, !.sock = "BUSY"]
    BY <1>3 DEF AckedApp
  <2>2. AckedApp(a) \in AppSock /\ AckedApp(a).got = a.got /\ AckedApp(a).want = a.want
        /\ AckedApp(a).done = a.want
    BY <2>1 DEF AppRight, AppSock, Socks
  <2> QED
    BY <1>1, <2>2 DEF AppRight
<1>4. CASE a.sock = "WRITING" /\ ~(a.want - a.done <= MSS)
  <2>1. AckedApp(a) = [a EXCEPT !.done = a.done + MSS]
    BY <1>4 DEF AckedApp, AppRight, AppSock
  <2>2. a.done + MSS \in Nat /\ a.done + MSS <= a.want
    BY <1>1, <1>4
  <2> QED
    BY <1>1, <2>1, <2>2 DEF AppRight, AppSock
<1> QED
  BY <1>2, <1>3, <1>4

\* The reader gets the first bytes of what has come, all of them unless the
\* connection is aborted.
LEMMA DeliveredIs ==
  ASSUME NEW a \in AppSock, NEW data \in Seq(Nat), NEW b \in Delivered(a, data)
  PROVE  \E k \in 0 .. Len(data) :
           /\ b \in AppSock /\ b.want = a.want /\ b.done = a.done
           /\ b.sock = (IF k = Len(data) THEN a.sock ELSE "PEER_ABORTED")
           /\ b.got = a.got \o SubSeq(data, 1, k)
           /\ a.sock # "BUSY" => k = 0
<1>1. Len(data) \in Nat /\ \A i \in 1 .. Len(data) : data[i] \in Nat
  BY LenProperties, ElementOfSeq
<1>2. PICK k \in (IF a.sock = "BUSY" THEN 0 .. Len(data) ELSE {0}) :
        b = [a EXCEPT !.got = @ \o SubSeq(data, 1, k),
                      !.sock = IF k = Len(data) THEN @ ELSE "PEER_ABORTED"]
  BY DEF Delivered
<1>3. k \in 0 .. Len(data)
  BY <1>1, <1>2
<1>4. SubSeq(data, 1, k) \in Seq(Nat)
  BY <1>1, <1>3, SubSeqProperties
<1>5. a.got \o SubSeq(data, 1, k) \in Seq(Nat)
  BY <1>4, ConcatProperties DEF AppSock
<1> QED
  BY <1>2, <1>3, <1>5 DEF AppSock, Socks

\* What appsend does to the connection, and what it sends
LEMMA AppsendTypes ==
  ASSUME TcpTypes, NEW n \in Nodes, NEW c \in UipConn, NEW a, AppRight(n, a),
         NEW abort \in BOOLEAN, NEW newdata \in BOOLEAN, Appsend(n, c, a, abort, newdata),
         listening' \in BOOLEAN
  PROVE  TcpTypes'
<1>1. CASE abort
  <2>1. [c EXCEPT !.st = "CLOSED"] \in UipConn
    BY DEF UipConn, States
  <2> QED
    BY <1>1, <2>1, SegTypes, BecomeTypes DEF Appsend
<1>2. CASE ~abort /\ a.sock = "WRITING" /\ ~Outstanding(c)
  <2> DEFINE d == [c EXCEPT !.len = Smaller(a.want - a.done, MSS), !.nrtx = 0]
  <2>1. Smaller(a.want - a.done, MSS) \in 0 .. MSS + 1 /\ 0 \in 0 .. MaxRtx
    BY Numbers DEF AppRight, AppSock, Smaller
  <2>2. d \in UipConn /\ a \in AppSock
    BY <2>1 DEF UipConn, AppRight
  <2>3. Become(n, d, a, {DataSeg(n, d, a)})
    BY <1>2 DEF Appsend
  <2> HIDE DEF d
  <2> QED
    BY <2>2, <2>3, DataSegType, BecomeTypes
<1>3. CASE ~abort /\ ~(a.sock = "WRITING" /\ ~Outstanding(c))
  <2>1. [c EXCEPT !.nrtx = 0] \in UipConn
    BY Numbers DEF UipConn
  <2> QED
    BY <1>3, <2>1, SegTypes, BecomeTypes DEF Appsend
<1> QED
  BY <1>1, <1>2, <1>3

\* Initial states are of the right type.
LEMMA TypesInit == Init => TcpTypes
<1> SUFFICES ASSUME Init
             PROVE  TcpTypes
  OBVIOUS
<1>1. [st |-> "CLOSED", snd |-> 0, rcv |-> 0, len |-> 0, nrtx |-> 0] \in UipConn
  BY Numbers DEF UipConn, States
<1>2. [sock |-> "NULL", want |-> 0, done |-> 0, got |-> <<>>] \in AppSock
  BY EmptySeq DEF AppSock, Socks
<1> QED
  BY <1>1, <1>2, StaleAssumption, Numbers DEF Init, TcpTypes, AppRight

\* Tasks and timers
LEMMA TypesTimer ==
  ASSUME TcpTypes, NEW n \in Nodes,
         \/ Connect \/ Write(n) \/ Close(n) \/ Poll(n) \/ PollSyn(n) \/ WaitOver(n) \/ GiveUp(n)
         \/ Retransmit(n)
  PROVE  TcpTypes'
<1>0. /\ conn[n] \in UipConn /\ AppRight(n, app[n]) /\ app[n] \in AppSock
      /\ conn \in [Nodes -> UipConn] /\ app \in [Nodes -> AppSock]
  BY DEF TcpTypes
<1>1. CASE Connect
  <2>1. [st |-> "SYN_SENT", snd |-> Iss[Active], rcv |-> 0, len |-> 1, nrtx |-> 0] \in UipConn
    BY Numbers DEF UipConn, States
  <2>2. \A m \in Nodes : AppRight(m, app'[m]) /\ app' \in [Nodes -> AppSock]
    BY <1>0, <1>1 DEF Connect, TcpTypes, AppRight, AppSock, Socks
  <2> QED
    BY <1>1, <2>1, <2>2 DEF Connect, TcpTypes
<1>2. CASE Write(n)
  <2>1. PICK k \in Sizes[n] :
          /\ app[n].want + k <= Total[n]
          /\ app' = [app EXCEPT ![n].sock = "WRITING", ![n].want = @ + k]
    BY <1>2 DEF Write
  <2>2. app[n].want \in Nat /\ app[n].done \in Nat /\ app[n].done <= app[n].want
        /\ app[n].want + k \in Nat /\ app[n].done <= app[n].want + k
    BY <1>0, Numbers DEF AppRight, AppSock
  <2>3. [app[n] EXCEPT !.sock = "WRITING", !.want = app[n].want + k] \in AppSock
    BY <1>0, <2>2 DEF AppSock, Socks
  <2>4. app'[n] = [app[n] EXCEPT !.sock = "WRITING", !.want = app[n].want + k]
    BY <1>0, <2>1 DEF AppSock
  <2>5. AppRight(n, app'[n])
    BY <1>0, <2>1, <2>2, <2>3, <2>4 DEF AppRight, AppSock
  <2>6. app' \in [Nodes -> AppSock] /\ \A m \in Nodes : m # n => app'[m] = app[m]
    BY <1>0, <2>1, <2>3, <2>4
  <2> QED
    BY <1>2, <2>5, <2>6 DEF Write, TcpTypes
<1>3. CASE Close(n)
  <2>1. \A m \in Nodes : AppRight(m, app'[m]) /\ app' \in [Nodes -> AppSock]
    BY <1>0, <1>3 DEF Close, TcpTypes, AppRight, AppSock, Socks
  <2> QED
    BY <1>3, <2>1 DEF Close, TcpTypes
<1>4. CASE Poll(n)
  <2> DEFINE d == [conn[n] EXCEPT !.st = "FIN_WAIT_1", !.len = 1, !.nrtx = 0]
  <2>1. d \in UipConn
    <3>1. 1 \in 0 .. MSS + 1 /\ 0 \in 0 .. MaxRtx
      BY Numbers
    <3> QED
      BY <1>0, <3>1 DEF UipConn, States, Closing
  <2>2. AppRight(n, Ended(app[n], "CLOSE_OK"))
    BY <1>0, EndedType DEF Socks
  <2>3. \/ Become(n, d, Ended(app[n], "CLOSE_OK"), {FinAckSeg(n, d)})
        \/ Appsend(n, conn[n], app[n], FALSE, FALSE)
    BY <1>4 DEF Poll
  <2>4. listening' \in BOOLEAN
    BY <1>4 DEF Poll, TcpTypes
  <2> HIDE DEF d
  <2> QED
    BY <1>0, <2>1, <2>2, <2>3, <2>4, SegTypes, BecomeTypes, AppsendTypes
<1>5. CASE PollSyn(n)
  BY <1>0, <1>5, SegTypes, BecomeTypes DEF PollSyn, TcpTypes
<1>6. CASE WaitOver(n)
  <2>1. conn' \in [Nodes -> UipConn]
    BY <1>0, <1>6 DEF WaitOver, UipConn, States
  <2> QED
    BY <1>6, <2>1 DEF WaitOver, TcpTypes
<1>7. CASE GiveUp(n)
  <2>1. [conn[n] EXCEPT !.st = "CLOSED"] \in UipConn
    BY <1>0 DEF UipConn, States
  <2>2. AppRight(n, Ended(app[n], "PEER_ABORTED"))
    BY <1>0, EndedType DEF Socks
  <2> QED
    BY <1>7, <2>1, <2>2, SegTypes, BecomeTypes DEF GiveUp, TimerRanOut, TcpTypes
<1>8. CASE Retransmit(n)
  <2> DEFINE c == [conn[n] EXCEPT !.nrtx = @ + 1]
  <2>1. c \in UipConn
    <3>1. conn[n].nrtx # MaxRtx
      BY <1>8 DEF Retransmit, LastTry
    <3>2. conn[n].nrtx \in 0 .. MaxRtx
      BY <1>0 DEF UipConn
    <3>3. conn[n].nrtx + 1 \in 0 .. MaxRtx
      BY <3>1, <3>2, Numbers
    <3> QED
      BY <1>0, <3>3 DEF UipConn
  <2>2. PICK m \in {SynSeg(n, c), SynAckSeg(n, c), DataSeg(n, c, app[n]), FinAckSeg(n, c)} :
          Become(n, c, app[n], {m})
    BY <1>8 DEF Retransmit
  <2>3. listening' \in BOOLEAN
    BY <1>8 DEF Retransmit, TimerRanOut, TcpTypes
  <2> HIDE DEF c
  <2>4. m \in Segment
    BY <1>0, <2>1, <2>2, SegTypes, DataSegType
  <2> QED
    BY <1>0, <2>1, <2>2, <2>3, <2>4, BecomeTypes
<1> QED
  BY <1>1, <1>2, <1>3, <1>4, <1>5, <1>6, <1>7, <1>8

\* The arrival of a segment
LEMMA TypesReceive ==
  ASSUME TcpTypes, NEW n \in Nodes, NEW m \in net, Receive(n, m)
  PROVE  TcpTypes'
<1> USE DEF InState
<1>0. /\ conn[n] \in UipConn /\ AppRight(n, app[n]) /\ app[n] \in AppSock
      /\ conn \in [Nodes -> UipConn] /\ app \in [Nodes -> AppSock]
      /\ m \in Segment /\ m.data \in Seq(Nat) /\ Len(m.data) \in Nat /\ m.seq \in Nat
      /\ conn[n].rcv \in Nat /\ m.flags \in SUBSET Flags /\ m.to \in Nodes
      /\ listening \in BOOLEAN /\ net \subseteq Segment
  BY LenProperties, Numbers DEF TcpTypes, Segment, UipConn
<1>1. listening' \in BOOLEAN
  BY <1>0 DEF Receive, Unwanted, Opened, Reset, OutOfSequence, SynRcvd, SynSent, EstablishedFin,
     EstablishedData, LastAck, FinWait1, FinWait2, TimeWait, ClosingAcked
<1>2. ResetFor(m) \subseteq Segment
  BY <1>0, PeerNode, SegTypes DEF ResetFor
<1>3. /\ \A st \in States, k \in Nat : /\ [conn[n] EXCEPT !.st = st] \in UipConn
                                       /\ [conn[n] EXCEPT !.rcv = Add(@, k), !.st = st] \in UipConn
      /\ \A st \in States, k \in Nat :
           /\ [Acked(conn[n], m) EXCEPT !.st = st] \in UipConn
           /\ [Acked(conn[n], m) EXCEPT !.rcv = Add(@, k), !.st = st] \in UipConn
           /\ [Acked(conn[n], m) EXCEPT !.st = st, !.rcv = Add(@, k)] \in UipConn
           /\ [Acked(conn[n], m) EXCEPT !.rcv = Add(@, k)] \in UipConn
           /\ [Acked(conn[n], m) EXCEPT !.st = st, !.rcv = Add(m.seq, k), !.nrtx = 0] \in UipConn
           /\ [Acked(conn[n], m) EXCEPT !.st = st, !.rcv = Add(@, k), !.len = 1, !.nrtx = 0] \in UipConn
  <2>1. Acked(conn[n], m) \in UipConn
    BY <1>0, AckedType
  <2>2. \A c \in UipConn, k \in Nat : Add(c.rcv, k) \in Seqnos /\ Add(m.seq, k) \in Seqnos
    BY <1>0, AddSeq, Numbers DEF UipConn
  <2>3. 1 \in 0 .. MSS + 1 /\ 0 \in 0 .. MaxRtx
    BY Numbers
  <2> QED
    BY <1>0, <2>1, <2>2, <2>3 DEF UipConn
<1>4. \A a, b : AppRight(n, a) /\ b \in Delivered(a, m.data) => AppRight(n, b)
  <2> SUFFICES ASSUME NEW a, NEW b \in Delivered(a, m.data), AppRight(n, a)
               PROVE  AppRight(n, b)
    OBVIOUS
  <2>1. a \in AppSock
    BY DEF AppRight
  <2>2. b \in AppSock /\ b.want = a.want /\ b.done = a.done
    BY <1>0, <2>1, DeliveredIs
  <2> QED
    BY <2>2 DEF AppRight
<1>5. /\ AppRight(n, Ended(app[n], "PEER_ABORTED"))
      /\ AppRight(n, IF Acks(conn[n], m) THEN AckedApp(app[n]) ELSE app[n])
      /\ AppRight(n, [app[n] EXCEPT !.sock = "BUSY"])
  <2>1. AppRight(n, [app[n] EXCEPT !.sock = "BUSY"])
    BY <1>0 DEF AppRight, AppSock, Socks
  <2> QED
    BY <1>0, <2>1, EndedType, AckedAppType DEF Socks
<1>len. /\ 1 + Len(m.data) \in Nat
       /\ \A x \in {0, 1} : Len(m.data) + x \in Nat
  BY <1>0
<1>6. CASE Unwanted(n, m)
  BY <1>0, <1>2, <1>6 DEF Unwanted, TcpTypes
<1>7. CASE Opened(n, m)
  <2> DEFINE c == [st |-> "SYN_RCVD", snd |-> Iss[n], rcv |-> Add(m.seq, 1), len |-> 1, nrtx |-> 0]
  <2>1. c \in UipConn
    <3>1. 1 \in 0 .. MSS + 1 /\ 0 \in 0 .. MaxRtx /\ Add(m.seq, 1) \in Seqnos /\ Iss[n] \in Seqnos
      <4>1. Add(m.seq, 1) \in Seqnos
        BY <1>0, AddSeq
      <4>2. Iss[n] \in Seqnos
        BY Numbers
      <4>3. 1 \in 0 .. MSS + 1 /\ 0 \in 0 .. MaxRtx
        BY Numbers
      <4> QED
        BY <4>1, <4>2, <4>3
    <3>2. "SYN_RCVD" \in States
      BY DEF States
    <3> QED
      BY <3>1, <3>2, ConnRecord
  <2>2. Become(n, c, app[n], {SynAckSeg(n, c)})
    BY <1>7 DEF Opened
  <2> HIDE DEF c
  <2> QED
    BY <1>0, <1>1, <2>1, <2>2, SegTypes, BecomeTypes
<1>8. CASE Reset(n, m)
  <2>1. [conn[n] EXCEPT !.st = "CLOSED"] \in UipConn
    BY <1>3, Zenon DEF States
  <2> QED
    BY <1>1, <1>5, <1>8, <2>1, BecomeTypes DEF Reset
<1>9. CASE OutOfSequence(n, m)
  <2>1. PICK r \in {SynAckSeg(n, conn[n]), Seg(n, conn[n], m.flags, <<>>), AckSeg(n, conn[n])} :
          Become(n, conn[n], app[n], {r})
    BY <1>9 DEF OutOfSequence
  <2>2. r \in Segment
    BY <1>0, <2>1, SegTypes
  <2> QED
    BY <1>0, <1>1, <2>1, <2>2, BecomeTypes
<1>10. CASE SynRcvd(n, m)
  <2> DEFINE c == [Acked(conn[n], m) EXCEPT !.st = "ESTABLISHED", !.rcv = Add(@, Len(m.data))]
             data == m.data # <<>>
  <2>1. c \in UipConn
    BY <1>0, <1>3, Zenon DEF States
  <2>2. \/ Appsend(n, c, app[n], TRUE, data)
        \/ \E a \in Delivered([app[n] EXCEPT !.sock = "BUSY"], m.data) :
             Appsend(n, c, a, a.sock = "PEER_ABORTED", data)
        \/ Become(n, conn[n], app[n], {SynAckSeg(n, conn[n])})
    BY <1>10 DEF SynRcvd
  <2>3. data \in BOOLEAN
    OBVIOUS
  <2> HIDE DEF c, data
  <2>4. CASE Appsend(n, c, app[n], TRUE, data)
    BY <1>0, <1>1, <2>1, <2>3, <2>4, AppsendTypes
  <2>5. ASSUME NEW a \in Delivered([app[n] EXCEPT !.sock = "BUSY"], m.data),
               Appsend(n, c, a, a.sock = "PEER_ABORTED", data)
        PROVE  TcpTypes'
    <3>1. AppRight(n, a)
      BY <1>4, <1>5
    <3>2. (a.sock = "PEER_ABORTED") \in BOOLEAN
      OBVIOUS
    <3> QED
      BY <1>1, <2>1, <2>3, <2>5, <3>1, <3>2, AppsendTypes, Zenon
  <2>6. CASE Become(n, conn[n], app[n], {SynAckSeg(n, conn[n])})
    BY <1>0, <1>1, <2>6, SegTypes, BecomeTypes
  <2> QED
    BY <2>2, <2>4, <2>5, <2>6
<1>11. CASE SynSent(n, m)
  <2> DEFINE d == [Acked(conn[n], m) EXCEPT !.st = "ESTABLISHED", !.rcv = Add(m.seq, 1), !.nrtx = 0]
             e == [Acked(conn[n], m) EXCEPT !.st = "CLOSED"]
  <2>1. d \in UipConn /\ e \in UipConn
    BY <1>3, Zenon DEF States
  <2>2. \/ Become(n, d, [app[n] EXCEPT !.sock = "BUSY"], {AckSeg(n, d)})
        \/ Become(n, e, Ended(app[n], "PEER_ABORTED"), ResetFor(m))
    BY <1>11 DEF SynSent
  <2> HIDE DEF d, e
  <2> QED
    BY <1>1, <1>2, <1>5, <2>1, <2>2, SegTypes, BecomeTypes
<1>12. CASE EstablishedFin(n, m)
  <2> DEFINE d == [Acked(conn[n], m) EXCEPT !.st = "LAST_ACK", !.rcv = Add(@, 1 + Len(m.data)),
                                            !.len = 1, !.nrtx = 0]
             a == IF Acks(conn[n], m) THEN AckedApp(app[n]) ELSE app[n]
  <2>1. d \in UipConn
    BY <1>3, <1>len DEF States, Closing
  <2>2. PICK b \in IF m.data = <<>> THEN {a} ELSE Delivered(a, m.data) :
          Become(n, d, Ended(b, "PEER_CLOSED"), {FinAckSeg(n, d)})
    BY <1>12 DEF EstablishedFin
  <2> HIDE DEF d
  <2>3. AppRight(n, b)
    BY <1>4, <1>5, <2>2
  <2>4. AppRight(n, Ended(b, "PEER_CLOSED"))
    BY <2>3, EndedType DEF Socks
  <2> QED
    BY <1>1, <2>1, <2>2, <2>4, SegTypes, BecomeTypes
<1>13. CASE EstablishedData(n, m)
  <2> DEFINE c == [Acked(conn[n], m) EXCEPT !.rcv = Add(@, Len(m.data))]
             a == IF Acks(conn[n], m) THEN AckedApp(app[n]) ELSE app[n]
             data == m.data # <<>>
  <2>1. c \in UipConn
    BY <1>0, <1>3, Zenon DEF States
  <2>2. PICK b \in IF data THEN Delivered(a, m.data) ELSE {a} :
          Appsend(n, c, b, b.sock = "PEER_ABORTED", data)
    BY <1>13 DEF EstablishedData
  <2> HIDE DEF c
  <2>3. AppRight(n, b)
    BY <1>4, <1>5, <2>2
  <2>4. data \in BOOLEAN /\ (b.sock = "PEER_ABORTED") \in BOOLEAN
    OBVIOUS
  <2> QED
    BY <1>1, <2>1, <2>2, <2>3, <2>4, AppsendTypes
<1>14. CASE LastAck(n, m) \/ ClosingAcked(n, m)
  <2>1. PICK st \in {"CLOSED", "TIME_WAIT"} :
          Become(n, [Acked(conn[n], m) EXCEPT !.st = st], app[n], {})
    BY <1>14 DEF LastAck, ClosingAcked
  <2>2. [Acked(conn[n], m) EXCEPT !.st = st] \in UipConn
    BY <1>3, <2>1 DEF States, Closing
  <2> QED
    BY <1>0, <1>1, <2>1, <2>2, BecomeTypes
<1>15. CASE FinWait1(n, m)
  <2>1. PICK k \in Nat, st \in Closing :
          Become(n, [Acked(conn[n], m) EXCEPT !.rcv = Add(@, k), !.st = st], app[n], {})
          \/ LET d == [Acked(conn[n], m) EXCEPT !.rcv = Add(@, k), !.st = st]
             IN  Become(n, d, app[n], {AckSeg(n, d)})
    <3>1. Len(m.data) + (IF "FIN" \in m.flags THEN 1 ELSE 0) \in Nat
      BY <1>len
    <3>2. Acked(conn[n], m).st = "FIN_WAIT_1" /\ Acked(conn[n], m) \in UipConn
      <4>1. conn[n].st = "FIN_WAIT_1"
        BY <1>15 DEF FinWait1
      <4> QED
        BY <1>0, <4>1, AckedType DEF Acked, UipConn
    <3> QED
      BY <1>15, <3>1, <3>2, Zenon DEF FinWait1, Closing
  <2> DEFINE d == [Acked(conn[n], m) EXCEPT !.rcv = Add(@, k), !.st = st]
  <2>2. d \in UipConn
    BY <1>3, <2>1, Zenon DEF States
  <2>3. Become(n, d, app[n], {}) \/ Become(n, d, app[n], {AckSeg(n, d)})
    BY <2>1
  <2> HIDE DEF d
  <2>4. {AckSeg(n, d)} \subseteq Segment
    BY <2>2, SegTypes
  <2>5. CASE Become(n, d, app[n], {})
    BY <1>0, <1>1, <2>2, <2>5, BecomeTypes
  <2>6. CASE Become(n, d, app[n], {AckSeg(n, d)})
    BY <1>0, <1>1, <2>2, <2>4, <2>6, BecomeTypes
  <2> QED
    BY <2>3, <2>5, <2>6, Zenon
<1>16. CASE FinWait2(n, m)
  <2> DEFINE fin == "FIN" \in m.flags
             d == [conn[n] EXCEPT !.rcv = Add(@, Len(m.data) + IF fin THEN 1 ELSE 0),
                                  !.st = IF fin THEN "TIME_WAIT" ELSE @]
  <2>1. Len(m.data) + (IF fin THEN 1 ELSE 0) \in Nat
    BY <1>len
  <2>2. d \in UipConn
    BY <1>0, <2>1, AddSeq DEF UipConn, States, Closing
  <2>3. Become(n, d, app[n], {AckSeg(n, d)})
    BY <1>16 DEF FinWait2
  <2> HIDE DEF d
  <2> QED
    BY <1>0, <1>1, <2>2, <2>3, SegTypes, BecomeTypes
<1>17. CASE TimeWait(n, m)
  BY <1>0, <1>1, <1>17, SegTypes, BecomeTypes DEF TimeWait
<1> QED
  BY <1>6, <1>7, <1>8, <1>9, <1>10, <1>11, <1>12, <1>13, <1>14, <1>15, <1>16, <1>17 DEF Receive

\* Every step keeps the types.
LEMMA TypesNext == TcpTypes /\ [Next]_vars => TcpTypes'
<1>1. ASSUME TcpTypes, UNCHANGED vars
      PROVE  TcpTypes'
  BY <1>1 DEF vars, TcpTypes
<1> QED
  BY <1>1, TypesTimer, TypesReceive, Numbers DEF Next

\* The types always hold.
LEMMA TypesAlways == Spec => []TcpTypes
  BY TypesInit, TypesNext, PTL DEF Spec

\* The fields of struct uip_conn stay in their ranges, retransmissions are counted
\* no further than UIP_MAXRTX, and no more of a write is acknowledged than was asked
\* for, whatever segments arrive.
THEOREM TcpTypeCorrect == Spec => []TcpTypeOK
<1>1. TcpTypes => TcpTypeOK
  BY DEF TcpTypes, TcpTypeOK, UipConn, AppSock, AppRight
<1> QED
  BY <1>1, TypesAlways, PTL

-----------------------------------------------------------------------------
(* Why what is read is what was written: an inductive invariant *)

\* The sequence number of the byte behind the first k of what n writes
At(n, k) == Add(Iss[n], 1 + k)

\* What is written goes round the sequence space less than once,
SeqWide == \A n \in Nodes : Total[n] < SeqMod

\* and segments of an earlier connection have no data where it has data, and no SYN.
StaleApart == \A m \in Stale :
  /\ "SYN" \notin m.flags
  /\ m.data # <<>> => \A k \in 0 .. Total[Peer(m.to)] : m.seq # At(Peer(m.to), k)

\* What the sequence numbers of a connection and its socket say of each other
ConnRight(n, c, a) ==
  /\ a.sock = "NULL" => a.want = 0 /\ a.done = 0 /\ a.got = <<>>
  /\ c.st = "SYN_SENT" => c.snd = Iss[n] /\ c.len = 1 /\ a.sock = "CONNECT"
  /\ a.sock = "CONNECT" => a.want = 0 /\ a.done = 0 /\ a.got = <<>>
  /\ c.st = "SYN_RCVD" =>
       c.snd = Iss[n] /\ c.rcv = At(Peer(n), 0) /\ c.len = 1 /\ a.sock = "NULL"
  /\ c.st = "ESTABLISHED" =>
       /\ c.snd = At(n, a.done) /\ c.rcv = At(Peer(n), Len(a.got))
       /\ a.sock \in {"BUSY", "WRITING", "CLOSE"}
       /\ c.len > 0 => a.sock = "WRITING" /\ c.len = Smaller(a.want - a.done, MSS)

\* What n has read is the beginning of what its peer, in state b, has written.
GotRight(a, b) == Len(a.got) <= b.want /\ \A i \in 1 .. Len(a.got) : a.got[i] = i

\* A SYN, and data of a node that has written so much
SegRight(m, written) ==
  /\ "SYN" \in m.flags => m.seq = Iss[Peer(m.to)] /\ m.data = <<>>
  /\ m.data # <<>> =>
       \E k \in 0 .. written : /\ k + Len(m.data) <= written /\ m.seq = At(Peer(m.to), k)
                               /\ \A i \in 1 .. Len(m.data) : m.data[i] = k + i

StreamState ==
  /\ \A n \in Nodes : ConnRight(n, conn[n], app[n]) /\ GotRight(app[n], app[Peer(n)])
  /\ \A m \in net : m \in Stale \/ SegRight(m, app[Peer(m.to)].want)
  /\ listening => app[Passive].sock = "NULL" /\ conn[Passive].st = "CLOSED"

\* An initial sequence number is a natural number.
LEMMA IssNat == \A n \in Nodes : Iss[n] \in Nat
<1>1. \A n \in Nodes : Iss[n] \in Seqnos
  BY Numbers
<1> QED
  BY <1>1, SeqNat

\* Sequence numbers add up modulo their space.
LEMMA AtAdd ==
  ASSUME NEW n \in Nodes, NEW j \in Nat, NEW k \in Nat
  PROVE  Add(At(n, j), k) = At(n, j + k)
<1>1. Iss[n] \in Nat
  BY IssNat
<1>2. 1 + j \in Nat /\ (1 + j) + k = 1 + (j + k)
  OBVIOUS
<1>3. Add(Add(Iss[n], 1 + j), k) = Add(Iss[n], (1 + j) + k)
  BY <1>1, <1>2, AddTwice
<1> QED
  BY <1>2, <1>3 DEF At

\* Bytes less than the sequence space apart have different sequence numbers.
LEMMA AtInjective ==
  ASSUME NEW n \in Nodes, NEW j \in 0 .. SeqMod - 1, NEW k \in 0 .. SeqMod - 1, At(n, j) = At(n, k)
  PROVE  j = k
<1>1. Iss[n] \in Nat
  BY IssNat
<1>2. Add(Iss[n], 1) \in Nat
  BY <1>1, AddSeq, SeqNat
<1>3. j \in Nat /\ k \in Nat
  OBVIOUS
<1>4. Add(Add(Iss[n], 1), j) = Add(Iss[n], 1 + j) /\ Add(Add(Iss[n], 1), k) = Add(Iss[n], 1 + k)
  <2>1. \A i \in Nat : Add(Add(Iss[n], 1), i) = Add(Iss[n], 1 + i)
    BY <1>1, AddTwice
  <2> QED
    BY <1>3, <2>1
<1>5. Add(Add(Iss[n], 1), j) = Add(Add(Iss[n], 1), k)
  BY <1>4 DEF At
<1> QED
  BY <1>2, <1>5, AddInjective

\* Segments without data
LEMMA SegsRight ==
  ASSUME NEW n \in Nodes, NEW c, NEW w
  PROVE  /\ SegRight(AckSeg(n, c), w) /\ SegRight(FinAckSeg(n, c), w)
         /\ \A p \in Nodes : SegRight(Rst(p), w)
         /\ c.snd = Iss[n] => /\ SegRight(SynSeg(n, c), w) /\ SegRight(SynAckSeg(n, c), w)
                              /\ \A f : SegRight(Seg(n, c, f, <<>>), w)
  BY PeerNode DEF SegRight, AckSeg, FinAckSeg, Rst, SynSeg, SynAckSeg, Seg

\* A data segment says what its writer has written.
LEMMA DataSegRight ==
  ASSUME NEW n \in Nodes, NEW c \in UipConn, NEW a, AppRight(n, a), c.snd = At(n, a.done),
         c.len = Smaller(a.want - a.done, MSS)
  PROVE  SegRight(DataSeg(n, c, a), a.want)
<1>1. a.done \in 0 .. a.want /\ a.want \in Nat /\ MSS \in Nat /\ a \in AppSock
  BY Numbers DEF AppRight, AppSock
<1>2. a.done + c.len <= a.want
  BY <1>1 DEF Smaller
<1> QED
  BY <1>1, <1>2, DataSegType, PeerNode DEF SegRight

\* A step keeps the invariant of the streams, if the end that it changes and the segments
\* it sends do.
LEMMA BecomeState ==
  ASSUME TcpTypes, StreamState, NEW n \in Nodes, NEW c, NEW a, NEW out, Become(n, c, a, out),
         ConnRight(n, c, a), GotRight(a, app[Peer(n)]), a.want = app[n].want,
         \A r \in out : SegRight(r, app[Peer(r.to)].want) /\ r.to \in Nodes,
         listening' => listening, conn[n].st # "CLOSED" \/ ~listening'
  PROVE  StreamState'
<1>0. /\ conn' = [conn EXCEPT ![n] = c] /\ app' = [app EXCEPT ![n] = a] /\ net' = net \cup out
      /\ Peer(n) \in Nodes /\ Peer(Peer(n)) = n /\ Peer(n) # n
      /\ DOMAIN conn = Nodes /\ DOMAIN app = Nodes
  BY PeerNode DEF Become, TcpTypes
<1>1. \A p \in Nodes : app'[p].want = app[p].want
  BY <1>0
<1>2. ConnRight(n, conn'[n], app'[n]) /\ GotRight(app'[n], app'[Peer(n)])
  BY <1>0
<1>3. \A p \in Nodes : p # n => p = Peer(n)
  BY DEF Nodes, Peer
<1>4. ConnRight(Peer(n), conn'[Peer(n)], app'[Peer(n)]) /\ GotRight(app'[Peer(n)], app'[n])
  <2>1. ConnRight(Peer(n), conn[Peer(n)], app[Peer(n)]) /\ GotRight(app[Peer(n)], app[n])
    BY <1>0 DEF StreamState
  <2> QED
    BY <1>0, <1>1, <2>1 DEF GotRight
<1>5. \A m \in net' : m \in Stale \/ SegRight(m, app'[Peer(m.to)].want)
  <2>1. \A m \in net' : m.to \in Nodes
    BY <1>0 DEF TcpTypes, Segment
  <2> QED
    BY <1>0, <1>1, <2>1, PeerNode DEF StreamState
<1>6. listening' => app'[Passive].sock = "NULL" /\ conn'[Passive].st = "CLOSED"
  BY <1>0 DEF StreamState
<1>7. \A p \in Nodes : ConnRight(p, conn'[p], app'[p]) /\ GotRight(app'[p], app'[Peer(p)])
  BY <1>0, <1>2, <1>3, <1>4
<1> QED
  BY <1>5, <1>6, <1>7 DEF StreamState

\* A connection that is over says nothing.
LEMMA OverRight ==
  ASSUME NEW n \in Nodes, NEW c, NEW d, NEW a, ConnRight(n, c, a),
         d.st \notin {"SYN_SENT", "SYN_RCVD", "ESTABLISHED"}
  PROVE  /\ ConnRight(n, d, a)
         /\ \A how \in {"CLOSE_OK", "PEER_CLOSED", "PEER_ABORTED"} :
              a \in AppSock => ConnRight(n, d, Ended(a, how))
  BY DEF ConnRight, Ended, AppSock

\* So does uip_appsend.
LEMMA AppsendState ==
  ASSUME TcpTypes, StreamState, NEW n \in Nodes, NEW c \in UipConn, NEW a, AppRight(n, a),
         NEW abort \in BOOLEAN, NEW newdata \in BOOLEAN, Appsend(n, c, a, abort, newdata),
         ~abort => c.st = "ESTABLISHED" /\ ConnRight(n, c, a),
         a.sock \in {"NULL", "CONNECT"} => a.want = 0 /\ a.done = 0 /\ a.got = <<>>,
         GotRight(a, app[Peer(n)]), a.want = app[n].want,
         UNCHANGED listening, conn[n].st # "CLOSED"
  PROVE  StreamState'
<1>0. Peer(n) \in Nodes /\ Peer(Peer(n)) = n
  BY PeerNode
<1>1. CASE abort
  <2>1. ConnRight(n, [c EXCEPT !.st = "CLOSED"], a)
    BY DEF ConnRight, UipConn
  <2>2. SegRight(Rst(Peer(n)), app[Peer(Rst(Peer(n)).to)].want) /\ Rst(Peer(n)).to \in Nodes
    BY <1>0, SegsRight DEF Rst
  <2> QED
    BY <1>1, <2>1, <2>2, BecomeState DEF Appsend
<1>2. CASE ~abort /\ a.sock = "WRITING" /\ ~Outstanding(c)
  <2> DEFINE d == [c EXCEPT !.len = Smaller(a.want - a.done, MSS), !.nrtx = 0]
  <2>1. d \in UipConn /\ a \in AppSock
    <3>1. Smaller(a.want - a.done, MSS) \in 0 .. MSS + 1 /\ 0 \in 0 .. MaxRtx
      BY Numbers DEF AppRight, AppSock, Smaller
    <3> QED
      BY <3>1 DEF UipConn, AppRight
  <2>2. d.st = "ESTABLISHED" /\ d.snd = c.snd /\ d.rcv = c.rcv /\ d.len = Smaller(a.want - a.done, MSS)
    BY <1>2 DEF UipConn
  <2>3. Become(n, d, a, {DataSeg(n, d, a)})
    BY <1>2 DEF Appsend
  <2> HIDE DEF d
  <2>4. ConnRight(n, d, a) /\ d.snd = At(n, a.done)
    BY <1>2, <2>2 DEF ConnRight
  <2>5. SegRight(DataSeg(n, d, a), a.want) /\ DataSeg(n, d, a).to = Peer(n)
    BY <2>1, <2>2, <2>4, DataSegRight, DataSegType
  <2> QED
    BY <1>0, <2>3, <2>4, <2>5, BecomeState
<1>3. CASE ~abort /\ ~(a.sock = "WRITING" /\ ~Outstanding(c))
  <2>1. ConnRight(n, [c EXCEPT !.nrtx = 0], a)
    BY <1>3 DEF ConnRight, UipConn
  <2>2. SegRight(AckSeg(n, c), app[Peer(AckSeg(n, c).to)].want) /\ AckSeg(n, c).to \in Nodes
    BY <1>0, SegsRight DEF AckSeg, Seg
  <2> QED
    BY <1>3, <2>1, <2>2, BecomeState DEF Appsend
<1> QED
  BY <1>1, <1>2, <1>3

\* The invariant of the streams holds before a connection is opened.
LEMMA StreamInit == Init => StreamState
<1> SUFFICES ASSUME Init
             PROVE  StreamState
  OBVIOUS
<1>1. Len(<<>>) = 0
  BY EmptySeq
<1> QED
  BY <1>1, PeerNode, Numbers DEF Init, StreamState, ConnRight, GotRight

\* Calls, polls and timers keep it.
LEMMA StreamTimer ==
  ASSUME TcpTypes, StreamState, NEW n \in Nodes,
         \/ Connect \/ Write(n) \/ Close(n) \/ Poll(n) \/ PollSyn(n) \/ WaitOver(n) \/ GiveUp(n)
         \/ Retransmit(n)
  PROVE  StreamState'
<1>0. /\ conn[n] \in UipConn /\ AppRight(n, app[n]) /\ app[n] \in AppSock
      /\ conn \in [Nodes -> UipConn] /\ app \in [Nodes -> AppSock]
      /\ ConnRight(n, conn[n], app[n]) /\ GotRight(app[n], app[Peer(n)])
      /\ Peer(n) \in Nodes /\ Peer(Peer(n)) = n /\ net \subseteq Segment
  BY PeerNode DEF TcpTypes, StreamState
<1>1. CASE Connect
  <2>1. /\ app[Active].sock = "NULL" /\ UNCHANGED <<net, listening>>
        /\ conn' = [conn EXCEPT ![Active] = [st |-> "SYN_SENT", snd |-> Iss[Active], rcv |-> 0,
                                             len |-> 1, nrtx |-> 0]]
        /\ app' = [app EXCEPT ![Active].sock = "CONNECT"]
    BY <1>1 DEF Connect
  <2>2. \A p \in Nodes : /\ app'[p].want = app[p].want /\ app'[p].got = app[p].got
                         /\ app'[p].done = app[p].done
                         /\ p # Active => app'[p] = app[p] /\ conn'[p] = conn[p]
    BY <1>0, <2>1 DEF AppSock
  <2>3. app'[Active].sock = "CONNECT"
    BY <1>0, <2>1, Numbers DEF AppSock
  <2>4. \A p \in Nodes : ConnRight(p, conn'[p], app'[p]) /\ GotRight(app'[p], app'[Peer(p)])
    BY <1>0, <2>1, <2>2, <2>3, PeerNode, Numbers DEF StreamState, ConnRight, GotRight
  <2>5. \A m \in net : m.to \in Nodes /\ Peer(m.to) \in Nodes
    BY <1>0, PeerNode DEF Segment
  <2> QED
    BY <2>1, <2>2, <2>4, <2>5, NodeAssumption, Numbers DEF StreamState
<1>2. CASE Write(n)
  <2>1. PICK k \in Sizes[n] :
          /\ app[n].sock = "BUSY" /\ UNCHANGED <<conn, listening, net>>
          /\ app' = [app EXCEPT ![n].sock = "WRITING", ![n].want = @ + k]
    BY <1>2 DEF Write
  <2>2. k \in Nat /\ k > 0
    BY <2>1, Numbers
  <2>3. \A p \in Nodes : /\ app[p].want \in Nat /\ app'[p].want \in Nat /\ app[p].want <= app'[p].want
                         /\ app'[p].got = app[p].got /\ app'[p].done = app[p].done
                         /\ p # n => app'[p] = app[p]
                         /\ Len(app[p].got) \in Nat
    BY <1>0, <2>1, <2>2, LenProperties DEF AppSock
  <2>4. app'[n].sock = "WRITING"
    BY <1>0, <2>1 DEF AppSock
  <2>5. ConnRight(n, conn'[n], app'[n])
    BY <1>0, <2>1, <2>3, <2>4 DEF ConnRight
  <2>6. \A p \in Nodes : ConnRight(p, conn'[p], app'[p]) /\ GotRight(app'[p], app'[Peer(p)])
    BY <1>0, <2>1, <2>3, <2>5, PeerNode DEF StreamState, GotRight
  <2>7. \A m \in net' : m \in Stale \/ SegRight(m, app'[Peer(m.to)].want)
    <3> SUFFICES ASSUME NEW m \in net, m \notin Stale
                 PROVE  SegRight(m, app'[Peer(m.to)].want)
      BY <2>1
    <3>1. m \in Segment /\ Peer(m.to) \in Nodes /\ Len(m.data) \in Nat
      BY <1>0, PeerNode, LenProperties DEF Segment
    <3>2. SegRight(m, app[Peer(m.to)].want)
      BY DEF StreamState
    <3> QED
      BY <2>3, <3>1, <3>2 DEF SegRight
  <2>8. listening' => app'[Passive].sock = "NULL" /\ conn'[Passive].st = "CLOSED"
    BY <2>1, <2>3, Numbers DEF StreamState
  <2> QED
    BY <2>6, <2>7, <2>8 DEF StreamState
<1>3. CASE Close(n)
  <2>1. /\ app[n].sock = "BUSY" /\ UNCHANGED <<conn, listening, net>>
        /\ app' = [app EXCEPT ![n].sock = "CLOSE"]
    BY <1>3 DEF Close
  <2>2. \A p \in Nodes : /\ app'[p].want = app[p].want /\ app'[p].got = app[p].got
                         /\ app'[p].done = app[p].done
                         /\ p # n => app'[p] = app[p]
    BY <1>0, <2>1 DEF AppSock
  <2>3. app'[n].sock = "CLOSE"
    BY <1>0, <2>1 DEF AppSock
  <2>4. \A p \in Nodes : ConnRight(p, conn'[p], app'[p]) /\ GotRight(app'[p], app'[Peer(p)])
    BY <1>0, <2>1, <2>2, <2>3, PeerNode DEF StreamState, ConnRight, GotRight
  <2>5. \A m \in net : m.to \in Nodes /\ Peer(m.to) \in Nodes
    BY <1>0, PeerNode DEF Segment
  <2> QED
    BY <2>1, <2>2, <2>4, <2>5, Numbers DEF StreamState
<1>4. CASE Poll(n)
  <2> DEFINE d == [conn[n] EXCEPT !.st = "FIN_WAIT_1", !.len = 1, !.nrtx = 0]
  <2>1. /\ conn[n].st = "ESTABLISHED" /\ UNCHANGED listening
        /\ \/ /\ app[n].sock = "CLOSE"
              /\ Become(n, d, Ended(app[n], "CLOSE_OK"), {FinAckSeg(n, d)})
           \/ Appsend(n, conn[n], app[n], FALSE, FALSE)
    BY <1>4 DEF Poll
  <2>2. d.st = "FIN_WAIT_1"
    BY <1>0 DEF UipConn
  <2> HIDE DEF d
  <2>3. ConnRight(n, d, Ended(app[n], "CLOSE_OK"))
    BY <1>0, <2>2, OverRight
  <2>4. GotRight(Ended(app[n], "CLOSE_OK"), app[Peer(n)]) /\ Ended(app[n], "CLOSE_OK").want = app[n].want
    BY <1>0, EndedType DEF GotRight, Socks
  <2>5. SegRight(FinAckSeg(n, d), app[n].want) /\ FinAckSeg(n, d).to = Peer(n)
    BY SegsRight DEF FinAckSeg, Seg
  <2>6. app[n].sock \notin {"NULL", "CONNECT"}
    BY <1>0, <2>1 DEF ConnRight
  <2>7. CASE Become(n, d, Ended(app[n], "CLOSE_OK"), {FinAckSeg(n, d)})
    <3>1. \A r \in {FinAckSeg(n, d)} : SegRight(r, app[Peer(r.to)].want) /\ r.to \in Nodes
      BY <1>0, <2>5
    <3> QED
      BY <2>1, <2>3, <2>4, <2>7, <3>1, BecomeState
  <2>8. CASE Appsend(n, conn[n], app[n], FALSE, FALSE)
    <3>1. FALSE \in BOOLEAN
      OBVIOUS
    <3> QED
      BY <1>0, <2>1, <2>6, <2>8, <3>1, AppsendState
  <2> QED
    BY <2>1, <2>7, <2>8
<1>5. CASE PollSyn(n)
  <2>1. /\ conn[n].st = "SYN_SENT" /\ UNCHANGED listening
        /\ Become(n, conn[n], app[n], {SynSeg(n, conn[n])})
    BY <1>5 DEF PollSyn
  <2>2. SegRight(SynSeg(n, conn[n]), app[n].want) /\ SynSeg(n, conn[n]).to = Peer(n)
    BY <1>0, <2>1, SegsRight DEF ConnRight, SynSeg, Seg
  <2> QED
    BY <1>0, <2>1, <2>2, BecomeState
<1>6. CASE WaitOver(n)
  <2>1. conn'[n].st = "CLOSED" /\ \A p \in Nodes : p # n => conn'[p] = conn[p]
    BY <1>0, <1>6 DEF WaitOver, UipConn
  <2>2. ConnRight(n, conn'[n], app[n])
    BY <1>0, <2>1, OverRight
  <2>3. UNCHANGED <<app, net, listening>>
    BY <1>6 DEF WaitOver
  <2>4. \A p \in Nodes : ConnRight(p, conn'[p], app[p])
    BY <2>1, <2>2 DEF StreamState
  <2>5. listening => conn'[Passive].st = "CLOSED"
    BY <2>1, Numbers DEF StreamState
  <2> QED
    BY <2>3, <2>4, <2>5 DEF StreamState
<1>7. CASE GiveUp(n)
  <2> DEFINE d == [conn[n] EXCEPT !.st = "CLOSED"]
             a == Ended(app[n], "PEER_ABORTED")
  <2>1. Become(n, d, a, {Rst(Peer(n))}) /\ UNCHANGED listening /\ conn[n].st # "CLOSED"
    BY <1>7 DEF GiveUp, TimerRanOut
  <2>2. d.st = "CLOSED"
    BY <1>0 DEF UipConn
  <2>3. ConnRight(n, d, a)
    BY <1>0, <2>2, OverRight
  <2>4. GotRight(a, app[Peer(n)]) /\ a.want = app[n].want
    BY <1>0, EndedType DEF GotRight, Socks
  <2>5. SegRight(Rst(Peer(n)), app[n].want) /\ Rst(Peer(n)).to = Peer(n)
    BY <1>0, SegsRight DEF Rst
  <2> HIDE DEF d, a
  <2> QED
    BY <1>0, <2>1, <2>3, <2>4, <2>5, BecomeState
<1>8. CASE Retransmit(n)
  <2> DEFINE c == [conn[n] EXCEPT !.nrtx = @ + 1]
  <2>1. c.st = conn[n].st /\ c.snd = conn[n].snd /\ c.rcv = conn[n].rcv /\ c.len = conn[n].len
    BY <1>0 DEF UipConn
  <2>2. ConnRight(n, c, app[n])
    BY <1>0, <2>1 DEF ConnRight
  <2>3. c \in UipConn
    <3>1. conn[n].nrtx # MaxRtx
      BY <1>8 DEF Retransmit, LastTry
    <3>2. conn[n].nrtx \in 0 .. MaxRtx
      BY <1>0 DEF UipConn
    <3>3. conn[n].nrtx + 1 \in 0 .. MaxRtx
      BY <3>1, <3>2, Numbers
    <3> QED
      BY <1>0, <3>3 DEF UipConn
  <2>4. PICK m : /\ Become(n, c, app[n], {m})
                 /\ \/ c.st = "SYN_SENT" /\ m = SynSeg(n, c)
                    \/ c.st = "SYN_RCVD" /\ m = SynAckSeg(n, c)
                    \/ c.st = "ESTABLISHED" /\ m = DataSeg(n, c, app[n])
                    \/ m = FinAckSeg(n, c)
    BY <1>8, <2>1 DEF Retransmit
  <2>5. UNCHANGED listening /\ conn[n].st # "CLOSED" /\ c.len > 0
    BY <1>8, <2>1 DEF Retransmit, TimerRanOut, Outstanding
  <2> HIDE DEF c
  <2>6. SegRight(m, app[n].want) /\ m.to = Peer(n)
    <3>1. CASE c.st \in {"SYN_SENT", "SYN_RCVD"} /\ m \in {SynSeg(n, c), SynAckSeg(n, c)}
      <4>1. c.snd = Iss[n]
        BY <2>2, <3>1 DEF ConnRight
      <4>2. SegRight(SynSeg(n, c), app[n].want) /\ SegRight(SynAckSeg(n, c), app[n].want)
        BY <4>1, SegsRight
      <4>3. SynSeg(n, c).to = Peer(n) /\ SynAckSeg(n, c).to = Peer(n)
        BY DEF SynSeg, SynAckSeg, Seg
      <4> QED
        BY <3>1, <4>2, <4>3
    <3>2. CASE c.st = "ESTABLISHED" /\ m = DataSeg(n, c, app[n])
      BY <1>0, <2>2, <2>3, <2>5, <3>2, DataSegRight, DataSegType DEF ConnRight
    <3>3. CASE m = FinAckSeg(n, c)
      BY <3>3, SegsRight DEF FinAckSeg, Seg
    <3> QED
      BY <2>4, <3>1, <3>2, <3>3
  <2> QED
    BY <1>0, <2>2, <2>4, <2>5, <2>6, BecomeState
<1> QED
  BY <1>1, <1>2, <1>3, <1>4, <1>5, <1>6, <1>7, <1>8

\* A reset in answer to a segment
LEMMA ResetForRight ==
  ASSUME NEW m \in Segment
  PROVE  \A r \in ResetFor(m) : r.to \in Nodes /\ \A w : SegRight(r, w)
<1>1. m.to \in Nodes /\ Peer(m.to) \in Nodes
  BY PeerNode DEF Segment
<1> QED
  BY <1>1, PeerNode DEF ResetFor, Rst, SegRight

\* The acknowledgement of a segment of a write
LEMMA AckedRight ==
  ASSUME NEW n \in Nodes, NEW c \in UipConn, NEW m \in Segment, NEW a, AppRight(n, a),
         ConnRight(n, c, a), c.st = "ESTABLISHED"
  PROVE  /\ ConnRight(n, Acked(c, m), IF Acks(c, m) THEN AckedApp(a) ELSE a)
         /\ Acks(c, m) => /\ AckedApp(a).done = a.done + c.len /\ AckedApp(a).sock \in {"BUSY", "WRITING"}
                          /\ m.ack = At(n, a.done + c.len) /\ a.done + c.len <= a.want
                          /\ AckedApp(a).sock = "BUSY" => AckedApp(a).done = a.want
                          /\ a.sock = "WRITING"
<1>1. CASE ~Acks(c, m)
  BY <1>1 DEF Acked
<1>2. CASE Acks(c, m)
  <2>1. /\ c.len \in Nat /\ c.len > 0 /\ m.ack = Add(c.snd, c.len)
        /\ a.done \in Nat /\ a.want \in Nat /\ a.done <= a.want /\ MSS \in Nat
    BY <1>2, Numbers DEF Acks, Outstanding, UipConn, AppRight, AppSock
  <2>2. /\ a.sock = "WRITING" /\ c.len = Smaller(a.want - a.done, MSS)
        /\ c.snd = At(n, a.done) /\ c.rcv = At(Peer(n), Len(a.got))
    BY <2>1 DEF ConnRight
  <2>3. m.ack = At(n, a.done + c.len)
    <3>1. Add(At(n, a.done), c.len) = At(n, a.done + c.len)
      BY <2>1, AtAdd
    <3> QED
      BY <2>1, <2>2, <3>1
  <2>4. /\ Acked(c, m).st = "ESTABLISHED" /\ Acked(c, m).snd = m.ack
        /\ Acked(c, m).len = 0 /\ Acked(c, m).rcv = c.rcv
    BY <1>2 DEF Acked, UipConn
  <2>5. /\ AckedApp(a).done = a.done + c.len /\ AckedApp(a).got = a.got
        /\ AckedApp(a).sock \in {"BUSY", "WRITING"}
        /\ AckedApp(a).sock = "BUSY" => AckedApp(a).done = a.want
    <3>1. CASE a.want - a.done <= MSS
      <4>1. AckedApp(a) = [a EXCEPT !.done = a.want, !.sock = "BUSY"]
        BY <2>2, <3>1 DEF AckedApp
      <4>2. c.len = a.want - a.done /\ a.done + (a.want - a.done) = a.want
        BY <2>1, <2>2, <3>1 DEF Smaller
      <4> QED
        BY <4>1, <4>2 DEF AppRight, AppSock
    <3>2. CASE ~(a.want - a.done <= MSS)
      <4>1. AckedApp(a) = [a EXCEPT !.done = a.done + MSS]
        BY <2>2, <3>2 DEF AckedApp, AppRight, AppSock
      <4>2. c.len = MSS
        BY <2>1, <2>2, <3>2 DEF Smaller
      <4> QED
        BY <2>2, <4>1, <4>2 DEF AppRight, AppSock
    <3> QED
      BY <3>1, <3>2
  <2>6. a.done + c.len <= a.want
    BY <2>1, <2>2 DEF Smaller
  <2> QED
    BY <1>2, <2>2, <2>3, <2>4, <2>5, <2>6 DEF ConnRight
<1> QED
  BY <1>1, <1>2

\* Data in sequence: what the reader gets of it goes on where it stopped.
LEMMA DeliveryRight ==
  ASSUME SeqWide, StaleApart, TcpTypes, StreamState, NEW n \in Nodes, NEW m \in net, m.to = n,
         NEW a, AppRight(n, a), a.got = app[n].got,
         m.data # <<>> => m.seq = At(Peer(n), Len(a.got)),
         NEW b \in Delivered(a, m.data)
  PROVE  /\ AppRight(n, b) /\ b.want = a.want /\ b.done = a.done
         /\ GotRight(b, app[Peer(n)])
         /\ Len(a.got) <= Len(b.got)
         /\ b.sock # "PEER_ABORTED" \/ m.data = <<>> =>
              b.sock = a.sock /\ Len(b.got) = Len(a.got) + Len(m.data)
<1> DEFINE w == app[Peer(n)].want
<1>1. /\ m \in Segment /\ m.data \in Seq(Nat) /\ Len(m.data) \in Nat
      /\ a \in AppSock /\ a.got \in Seq(Nat) /\ Len(a.got) \in Nat
      /\ Peer(n) \in Nodes /\ Peer(Peer(n)) = n
  BY PeerNode, LenProperties DEF TcpTypes, Segment, AppRight, AppSock
<1>2. PICK k \in 0 .. Len(m.data) :
        /\ b \in AppSock /\ b.want = a.want /\ b.done = a.done
        /\ b.sock = (IF k = Len(m.data) THEN a.sock ELSE "PEER_ABORTED")
        /\ b.got = a.got \o SubSeq(m.data, 1, k)
        /\ a.sock # "BUSY" => k = 0
  BY <1>1, DeliveredIs
<1>k. k \in Nat /\ k <= Len(m.data)
  BY <1>1
<1>3. /\ SubSeq(m.data, 1, k) \in Seq(Nat) /\ Len(SubSeq(m.data, 1, k)) = k
      /\ \A i \in 1 .. k : SubSeq(m.data, 1, k)[i] = m.data[i]
  BY <1>1, <1>2, SubSeqProperties
<1>4. /\ Len(b.got) = Len(a.got) + k
      /\ \A i \in 1 .. Len(a.got) : b.got[i] = a.got[i]
      /\ \A i \in 1 .. Len(b.got) :
           i > Len(a.got) => b.got[i] = SubSeq(m.data, 1, k)[i - Len(a.got)]
  <2> DEFINE q == SubSeq(m.data, 1, k)
  <2>1. q \in Seq(Nat) /\ Len(q) = k
    BY <1>3
  <2> HIDE DEF q
  <2>2. /\ Len(a.got \o q) = Len(a.got) + Len(q)
        /\ \A i \in 1 .. Len(a.got) + Len(q) :
             (a.got \o q)[i] = IF i <= Len(a.got) THEN a.got[i] ELSE q[i - Len(a.got)]
    BY <1>1, <2>1, ConcatProperties
  <2>3. b.got = a.got \o q
    BY <1>2 DEF q
  <2>4. \A i \in 1 .. Len(b.got) : i > Len(a.got) => b.got[i] = q[i - Len(a.got)]
    BY <1>1, <1>k, <2>1, <2>2, <2>3
  <2>5. \A i \in 1 .. Len(a.got) : b.got[i] = a.got[i]
    BY <1>1, <1>k, <2>1, <2>2, <2>3
  <2> QED
    BY <2>1, <2>2, <2>3, <2>4, <2>5 DEF q
<1>len. Len(a.got) \in Nat /\ k \in Nat /\ Len(b.got) \in Nat /\ Len(b.got) = Len(a.got) + k
  BY <1>1, <1>k, <1>4
<1>all. /\ Len(a.got) <= Len(b.got)
        /\ k = Len(m.data) => Len(b.got) = Len(a.got) + Len(m.data)
  <2>1. \A x \in Nat, y \in Nat : x <= x + y
    OBVIOUS
  <2> QED
    BY <1>len, <2>1
<1>end. b.sock # "PEER_ABORTED" \/ m.data = <<>> => b.sock = a.sock /\ k = Len(m.data)
  <2>1. m.data = <<>> => k = Len(m.data)
    BY <1>1, <1>k, EmptySeq
  <2> QED
    BY <1>2, <2>1
<1>5. w \in Nat /\ w <= SeqMod - 1 /\ SeqMod \in Nat
  <2>1. AppRight(Peer(n), app[Peer(n)]) /\ Total[Peer(n)] \in Nat /\ Total[Peer(n)] < SeqMod
    BY <1>1, Numbers DEF TcpTypes, SeqWide
  <2> QED
    BY <2>1, Numbers DEF AppRight, AppSock
<1>6. Len(a.got) <= w /\ \A i \in 1 .. Len(a.got) : a.got[i] = i
  BY DEF StreamState, GotRight
<1>7. CASE k = 0
  <2>1. GotRight(b, app[Peer(n)])
    BY <1>4, <1>6, <1>7, <1>len DEF GotRight
  <2> QED
    BY <1>2, <1>all, <1>end, <2>1 DEF AppRight
<1>8. CASE k # 0
  <2>1. m.data # <<>>
    BY <1>1, <1>2, <1>8, EmptySeq
  <2>2. m \notin Stale
    <3>1. Len(a.got) \in 0 .. Total[Peer(n)]
      <4>1. Total[Peer(n)] \in Nat /\ w <= Total[Peer(n)]
        BY <1>1, Numbers DEF TcpTypes, AppRight
      <4> QED
        BY <1>1, <1>5, <1>6, <4>1
    <3> QED
      BY <2>1, <3>1 DEF StaleApart
  <2>3. SegRight(m, w)
    BY <2>2 DEF StreamState
  <2>4. PICK j \in 0 .. w : /\ j + Len(m.data) <= w /\ m.seq = At(Peer(n), j)
                            /\ \A i \in 1 .. Len(m.data) : m.data[i] = j + i
    BY <2>1, <2>3 DEF SegRight
  <2>5. j = Len(a.got)
    <3>1. j \in 0 .. SeqMod - 1 /\ Len(a.got) \in 0 .. SeqMod - 1
      BY <1>1, <1>5, <1>6
    <3>2. At(Peer(n), j) = At(Peer(n), Len(a.got))
      BY <2>1, <2>4
    <3> QED
      BY <1>1, <3>1, <3>2, AtInjective
  <2>6. \A i \in 1 .. Len(b.got) : b.got[i] = i
    <3> SUFFICES ASSUME NEW i \in 1 .. Len(b.got)
                 PROVE  b.got[i] = i
      OBVIOUS
    <3>1. CASE i <= Len(a.got)
      BY <1>1, <1>2, <1>4, <1>6, <3>1
    <3>2. CASE i > Len(a.got)
      <4>1. i - Len(a.got) \in 1 .. k /\ i - Len(a.got) \in 1 .. Len(m.data)
        BY <1>1, <1>k, <1>len, <3>2
      <4>2. b.got[i] = m.data[i - Len(a.got)]
        BY <1>3, <1>4, <3>2, <4>1
      <4>3. m.data[i - Len(a.got)] = Len(a.got) + (i - Len(a.got))
        BY <2>4, <2>5, <4>1
      <4> QED
        BY <1>len, <4>2, <4>3
    <3> QED
      BY <1>len, <3>1, <3>2
  <2>7. Len(b.got) <= w
    <3>1. Len(a.got) + Len(m.data) <= w /\ Len(m.data) \in Nat /\ w \in Nat
      BY <1>1, <1>5, <2>4, <2>5
    <3> HIDE DEF w
    <3>2. \A x \in Nat, y \in Nat, z \in Nat, v \in Nat : x + y <= v /\ z <= y => x + z <= v
      OBVIOUS
    <3>3. Len(a.got) + k <= w
      BY <1>1, <1>k, <3>1, <3>2
    <3> QED
      BY <1>len, <3>3
  <2>8. GotRight(b, app[Peer(n)])
    BY <2>6, <2>7 DEF GotRight
  <2> QED
    BY <1>2, <1>all, <1>end, <2>8 DEF AppRight
<1> QED
  BY <1>7, <1>8

\* What a segment does to the socket of an established connection
LEMMA EstablishedRight ==
  ASSUME SeqWide, StaleApart, TcpTypes, StreamState, NEW n \in Nodes, NEW m \in net, m.to = n,
         conn[n].st = "ESTABLISHED", Acceptable(conn[n], m),
         NEW b \in LET e == IF Acks(conn[n], m) THEN AckedApp(app[n]) ELSE app[n]
                  IN  IF m.data = <<>> THEN {e} ELSE Delivered(e, m.data)
  PROVE  /\ AppRight(n, b) /\ b.want = app[n].want /\ GotRight(b, app[Peer(n)])
         /\ b.sock \notin {"NULL", "CONNECT"}
         /\ b.sock # "PEER_ABORTED" =>
              ConnRight(n, [Acked(conn[n], m) EXCEPT !.rcv = Add(@, Len(m.data))], b)
<1> DEFINE c == conn[n]
           a == app[n]
           e == IF Acks(c, m) THEN AckedApp(a) ELSE a
<1>a. /\ c \in UipConn /\ AppRight(n, a) /\ a \in AppSock
      /\ ConnRight(n, c, a) /\ GotRight(a, app[Peer(n)])
      /\ Peer(n) \in Nodes /\ Peer(Peer(n)) = n /\ Peer(n) # n
      /\ m \in Segment /\ m.data \in Seq(Nat) /\ Len(m.data) \in Nat
      /\ Len(a.got) \in Nat
  BY PeerNode, LenProperties DEF TcpTypes, StreamState, Segment, AppSock
<1>b. /\ Acked(c, m) \in UipConn /\ Acked(c, m).st = c.st /\ Acked(c, m).rcv = c.rcv
  BY <1>a, AckedType DEF Acked, UipConn
<1>c. b \in IF m.data = <<>> THEN {e} ELSE Delivered(e, m.data)
  OBVIOUS
<1> DEFINE d == [Acked(c, m) EXCEPT !.rcv = Add(@, Len(m.data))]
<1>1. AppRight(n, e) /\ e.got = a.got /\ e.want = a.want
  BY <1>a, AckedAppType
<1>2. ConnRight(n, Acked(c, m), e)
  BY <1>a, AckedRight
<1>3. /\ d.st = "ESTABLISHED" /\ d.snd = Acked(c, m).snd /\ d.len = Acked(c, m).len
      /\ d.rcv = Add(c.rcv, Len(m.data))
  BY <1>b DEF UipConn
<1> HIDE DEF d, e
<1>4. /\ c.rcv = At(Peer(n), Len(a.got)) /\ Acked(c, m).snd = At(n, e.done)
      /\ e.sock \in {"BUSY", "WRITING", "CLOSE"}
      /\ d.len > 0 => e.sock = "WRITING" /\ d.len = Smaller(e.want - e.done, MSS)
  BY <1>a, <1>b, <1>2, <1>3 DEF ConnRight
<1>5. d.rcv = At(Peer(n), Len(a.got) + Len(m.data))
  BY <1>a, <1>3, <1>4, AtAdd
<1>6. /\ AppRight(n, b) /\ b.want = a.want /\ b.done = e.done /\ GotRight(b, app[Peer(n)])
      /\ b.sock # "PEER_ABORTED" => b.sock = e.sock /\ Len(b.got) = Len(a.got) + Len(m.data)
  <2>1. CASE m.data = <<>>
    <3>1. b = e /\ Len(m.data) = 0 /\ Len(a.got) + 0 = Len(a.got)
      BY <1>a, <1>c, <2>1, EmptySeq
    <3>2. GotRight(e, app[Peer(n)])
      BY <1>a, <1>1 DEF GotRight
    <3> QED
      BY <1>1, <3>1, <3>2
  <2>2. CASE m.data # <<>>
    <3>1. m.seq = At(Peer(n), Len(e.got))
      BY <1>1, <1>4, <2>2 DEF Acceptable
    <3>2. b \in Delivered(e, m.data)
      BY <1>c, <2>2
    <3>0. e.got = app[n].got
      BY <1>1
    <3> HIDE DEF a
    <3>3. /\ AppRight(n, b) /\ b.want = e.want /\ b.done = e.done
          /\ GotRight(b, app[Peer(n)])
          /\ Len(e.got) <= Len(b.got)
          /\ b.sock # "PEER_ABORTED" \/ m.data = <<>> =>
               b.sock = e.sock /\ Len(b.got) = Len(e.got) + Len(m.data)
      BY <1>1, <3>0, <3>1, <3>2, DeliveryRight
    <3> QED
      BY <1>1, <2>2, <3>3
  <2> QED
    BY <2>1, <2>2
<1>7. b.sock \notin {"NULL", "CONNECT"}
  BY <1>4, <1>6
<1>8. b.sock # "PEER_ABORTED" => ConnRight(n, d, b)
  BY <1>1, <1>3, <1>4, <1>5, <1>6 DEF ConnRight
<1> QED
  BY <1>6, <1>7, <1>8 DEF d

\* A segment that comes
LEMMA StreamReceive ==
  ASSUME SeqWide, StaleApart, TcpTypes, StreamState, NEW n \in Nodes, NEW m \in net, m.to = n,
         Receive(n, m)
  PROVE  StreamState'
<1> DEFINE c == conn[n]
           a == app[n]
<1>1. /\ c \in UipConn /\ AppRight(n, a) /\ a \in AppSock
      /\ ConnRight(n, c, a) /\ GotRight(a, app[Peer(n)])
      /\ Peer(n) \in Nodes /\ Peer(Peer(n)) = n /\ Peer(n) # n
      /\ m \in Segment /\ m.data \in Seq(Nat) /\ Len(m.data) \in Nat
      /\ Len(a.got) \in Nat
  BY PeerNode, LenProperties DEF TcpTypes, StreamState, Segment, AppSock
<1>2. "SYN" \in m.flags => m.seq = Iss[Peer(n)] /\ m.data = <<>>
  BY DEF StaleApart, StreamState, SegRight
<1>3. /\ Acked(c, m) \in UipConn /\ Acked(c, m).st = c.st /\ Acked(c, m).rcv = c.rcv
  BY <1>1, AckedType DEF Acked, UipConn
\* Segments without data
<1>4. \A d : /\ AckSeg(n, d).to = Peer(n) /\ FinAckSeg(n, d).to = Peer(n)
             /\ SynAckSeg(n, d).to = Peer(n)
             /\ SegRight(AckSeg(n, d), a.want) /\ SegRight(FinAckSeg(n, d), a.want)
             /\ d.snd = Iss[n] => SegRight(SynAckSeg(n, d), a.want)
  BY SegsRight DEF AckSeg, FinAckSeg, SynAckSeg, Seg
\* A connection that is over
<1>5. \A d, out :
        /\ d.st \notin {"SYN_SENT", "SYN_RCVD", "ESTABLISHED"} /\ UNCHANGED listening
        /\ c.st # "CLOSED" /\ \A r \in out : r.to \in Nodes /\ SegRight(r, app[Peer(r.to)].want)
        /\ Become(n, d, a, out) \/ Become(n, d, Ended(a, "PEER_ABORTED"), out)
        => StreamState'
  <2> SUFFICES ASSUME NEW d, NEW out, d.st \notin {"SYN_SENT", "SYN_RCVD", "ESTABLISHED"},
                      UNCHANGED listening, c.st # "CLOSED",
                      \A r \in out : r.to \in Nodes /\ SegRight(r, app[Peer(r.to)].want),
                      NEW b \in {a, Ended(a, "PEER_ABORTED")}, Become(n, d, b, out)
               PROVE  StreamState'
    OBVIOUS
  <2>1. ConnRight(n, d, b)
    BY <1>1, OverRight
  <2>2. GotRight(b, app[Peer(n)]) /\ b.want = a.want
    BY <1>1, EndedType DEF GotRight, Socks
  <2> QED
    BY <2>1, <2>2, BecomeState
<1> HIDE DEF c
<1>6. CASE Unwanted(n, m)
  <2>1. UNCHANGED <<conn, app, listening>> /\ net' = net \cup ResetFor(m)
    BY <1>6 DEF Unwanted
  <2>2. \A r \in ResetFor(m) : SegRight(r, app[Peer(r.to)].want)
    BY <1>1, ResetForRight
  <2> QED
    BY <2>1, <2>2 DEF StreamState
<1>7. CASE Opened(n, m)
  <2> DEFINE d == [st |-> "SYN_RCVD", snd |-> Iss[n], rcv |-> Add(m.seq, 1), len |-> 1, nrtx |-> 0]
  <2>1. /\ n = Passive /\ listening /\ "SYN" \in m.flags /\ listening' = FALSE
        /\ Become(n, d, a, {SynAckSeg(n, d)})
    BY <1>7 DEF Opened
  <2>2. a.sock = "NULL"
    BY <2>1 DEF StreamState
  <2>3. At(Peer(n), 0) = Add(Iss[Peer(n)], 1)
    BY DEF At
  <2>4. ConnRight(n, d, a)
    BY <1>1, <1>2, <2>1, <2>2, <2>3 DEF ConnRight
  <2>5. \A r \in {SynAckSeg(n, d)} : SegRight(r, app[Peer(r.to)].want) /\ r.to \in Nodes
    BY <1>1, <1>4
  <2> QED
    BY <1>1, <2>1, <2>4, <2>5, BecomeState
<1>8. CASE Reset(n, m)
  <2> DEFINE d == [c EXCEPT !.st = "CLOSED"]
  <2>1. /\ c.st # "CLOSED" /\ UNCHANGED listening
        /\ Become(n, d, Ended(a, "PEER_ABORTED"), {})
    BY <1>8 DEF Reset, c
  <2>2. d.st = "CLOSED"
    BY <1>1 DEF UipConn
  <2> HIDE DEF d
  <2> QED
    BY <1>5, <2>1, <2>2
<1>9. CASE OutOfSequence(n, m)
  <2>1. PICK r : /\ c.st # "CLOSED" /\ UNCHANGED listening /\ Become(n, c, a, {r})
                 /\ \/ c.st = "SYN_RCVD" /\ r = SynAckSeg(n, c)
                    \/ c.st = "SYN_SENT" /\ r = Seg(n, c, m.flags, <<>>)
                    \/ r = AckSeg(n, c)
    BY <1>9 DEF OutOfSequence, c
  <2>2. r.to = Peer(n) /\ SegRight(r, a.want)
    <3>1. Seg(n, c, m.flags, <<>>).to = Peer(n)
      BY DEF Seg
    <3>2. c.st \in {"SYN_SENT", "SYN_RCVD"} => c.snd = Iss[n]
      BY <1>1 DEF ConnRight
    <3>3. c.snd = Iss[n] => SegRight(Seg(n, c, m.flags, <<>>), a.want)
      BY SegsRight
    <3> QED
      BY <1>4, <2>1, <3>1, <3>2, <3>3
  <2> QED
    BY <1>1, <2>1, <2>2, BecomeState DEF c
<1>10. CASE LastAck(n, m) \/ ClosingAcked(n, m)
  <2>1. PICK st \in {"CLOSED", "TIME_WAIT"} :
          /\ Become(n, [Acked(c, m) EXCEPT !.st = st], a, {}) /\ c.st # "CLOSED" /\ UNCHANGED listening
    BY <1>10 DEF LastAck, ClosingAcked, InState, c
  <2> DEFINE d == [Acked(c, m) EXCEPT !.st = st]
  <2>2. d.st = st
    BY <1>3 DEF UipConn
  <2>3. Become(n, d, a, {})
    BY <2>1
  <2> HIDE DEF d
  <2> QED
    BY <1>5, <2>1, <2>2, <2>3
<1>11. CASE FinWait1(n, m)
  <2>1. PICK d : /\ d.st \in Closing /\ UNCHANGED listening /\ c.st # "CLOSED"
                 /\ Become(n, d, a, {}) \/ Become(n, d, a, {AckSeg(n, d)})
    <3>1. Acked(c, m).st = "FIN_WAIT_1"
      BY <1>3, <1>11 DEF FinWait1, InState, c
    <3> DEFINE fin == "FIN" \in m.flags
               d == [Acked(c, m) EXCEPT
                       !.rcv = Add(@, Len(m.data) + IF fin THEN 1 ELSE 0),
                       !.st = CASE fin /\ ~Outstanding(Acked(c, m)) -> "TIME_WAIT"
                                [] fin /\ Outstanding(Acked(c, m)) -> "CLOSING"
                                [] ~fin /\ ~Outstanding(Acked(c, m)) -> "FIN_WAIT_2"
                                [] OTHER -> @]
    <3>2. d.st \in Closing
      BY <1>3, <3>1 DEF UipConn, Closing
    <3>3. /\ UNCHANGED listening /\ c.st # "CLOSED"
          /\ Become(n, d, a, {}) \/ Become(n, d, a, {AckSeg(n, d)})
      BY <1>11 DEF FinWait1, InState, c
    <3> QED
      BY <3>2, <3>3
  <2>2. d.st \notin {"SYN_SENT", "SYN_RCVD", "ESTABLISHED"}
    BY <2>1 DEF Closing
  <2>3. \A r \in {AckSeg(n, d)} : SegRight(r, app[Peer(r.to)].want) /\ r.to \in Nodes
    BY <1>1, <1>4
  <2> QED
    BY <1>5, <2>1, <2>2, <2>3
<1>12. CASE FinWait2(n, m) \/ TimeWait(n, m)
  <2>1. PICK d : /\ d.st \in Closing /\ UNCHANGED listening /\ c.st # "CLOSED"
                 /\ Become(n, d, a, {AckSeg(n, d)})
    <3>1. CASE FinWait2(n, m)
      <4> DEFINE fin == "FIN" \in m.flags
                 d == [c EXCEPT !.rcv = Add(@, Len(m.data) + IF fin THEN 1 ELSE 0),
                                !.st = IF fin THEN "TIME_WAIT" ELSE @]
      <4>1. c.st = "FIN_WAIT_2" /\ UNCHANGED listening /\ Become(n, d, a, {AckSeg(n, d)})
        BY <3>1 DEF FinWait2, InState, c
      <4>2. d.st \in Closing
        BY <1>1, <4>1 DEF UipConn, Closing
      <4> QED
        BY <4>1, <4>2
    <3>2. CASE TimeWait(n, m)
      BY <3>2 DEF TimeWait, InState, Closing, c
    <3> QED
      BY <1>12, <3>1, <3>2
  <2>2. d.st \notin {"SYN_SENT", "SYN_RCVD", "ESTABLISHED"}
    BY <2>1 DEF Closing
  <2>3. \A r \in {AckSeg(n, d)} : SegRight(r, app[Peer(r.to)].want) /\ r.to \in Nodes
    BY <1>1, <1>4
  <2> QED
    BY <1>5, <2>1, <2>2, <2>3
<1>13. CASE SynSent(n, m)
  <2> DEFINE d == [Acked(c, m) EXCEPT !.st = "ESTABLISHED", !.rcv = Add(m.seq, 1), !.nrtx = 0]
             e == [Acked(c, m) EXCEPT !.st = "CLOSED"]
             b == [a EXCEPT !.sock = "BUSY"]
  <2>1. /\ c.st = "SYN_SENT" /\ UNCHANGED listening
        /\ \/ Acks(c, m) /\ "SYN" \in m.flags /\ Become(n, d, b, {AckSeg(n, d)})
           \/ Become(n, e, Ended(a, "PEER_ABORTED"), ResetFor(m))
    BY <1>13 DEF SynSent, InState, c
  <2>2. e.st = "CLOSED"
    BY <1>3 DEF UipConn
  <2>3. /\ d.st = "ESTABLISHED" /\ d.rcv = Add(m.seq, 1) /\ d.snd = Acked(c, m).snd
        /\ d.len = Acked(c, m).len
    BY <1>3 DEF UipConn
  <2>4. /\ b.sock = "BUSY" /\ b.want = a.want /\ b.done = a.done /\ b.got = a.got
    BY <1>1 DEF AppSock
  <2> HIDE DEF d, e, b
  <2>5. CASE Acks(c, m) /\ "SYN" \in m.flags /\ Become(n, d, b, {AckSeg(n, d)})
    <3>1. /\ c.snd = Iss[n] /\ c.len = 1 /\ a.want = 0 /\ a.done = 0 /\ a.got = <<>>
      BY <1>1, <2>1 DEF ConnRight
    <3>2. d.snd = Add(Iss[n], 1) /\ d.len = 0
      BY <1>1, <2>3, <2>5, <3>1 DEF Acked, Acks, UipConn
    <3>3. At(n, 0) = Add(Iss[n], 1) /\ At(Peer(n), 0) = Add(Iss[Peer(n)], 1)
      BY DEF At
    <3>4. Len(b.got) = 0
      BY <2>4, <3>1, EmptySeq
    <3>5. ConnRight(n, d, b)
      BY <1>2, <2>3, <2>4, <2>5, <3>1, <3>2, <3>3, <3>4 DEF ConnRight
    <3>6. GotRight(b, app[Peer(n)])
      BY <1>1, <2>4 DEF GotRight
    <3>7. \A r \in {AckSeg(n, d)} : SegRight(r, app[Peer(r.to)].want) /\ r.to \in Nodes
      BY <1>1, <1>4
    <3> QED
      BY <2>1, <2>4, <2>5, <3>5, <3>6, <3>7, BecomeState DEF c
  <2>6. CASE Become(n, e, Ended(a, "PEER_ABORTED"), ResetFor(m))
    <3>1. \A r \in ResetFor(m) : r.to \in Nodes /\ SegRight(r, app[Peer(r.to)].want)
      BY <1>1, ResetForRight
    <3> QED
      BY <1>5, <2>1, <2>2, <2>6, <3>1
  <2> QED
    BY <2>1, <2>5, <2>6
<1>14. CASE SynRcvd(n, m)
  <2> DEFINE d == [Acked(c, m) EXCEPT !.st = "ESTABLISHED", !.rcv = Add(@, Len(m.data))]
             b == [a EXCEPT !.sock = "BUSY"]
             data == m.data # <<>>
  <2>1. /\ c.st = "SYN_RCVD" /\ UNCHANGED listening /\ Acceptable(c, m)
        /\ \/ /\ Acks(c, m)
              /\ \/ Appsend(n, d, a, TRUE, data)
                 \/ \E x \in Delivered(b, m.data) : Appsend(n, d, x, x.sock = "PEER_ABORTED", data)
           \/ Become(n, c, a, {SynAckSeg(n, c)})
    BY <1>14 DEF SynRcvd, InState, c
  <2>2. /\ c.snd = Iss[n] /\ c.rcv = At(Peer(n), 0) /\ c.len = 1
        /\ a.sock = "NULL" /\ a.want = 0 /\ a.done = 0 /\ a.got = <<>>
    BY <1>1, <2>1 DEF ConnRight
  <2>3. d.st = "ESTABLISHED" /\ d.rcv = Add(c.rcv, Len(m.data)) /\ d.snd = Acked(c, m).snd
        /\ d.len = Acked(c, m).len
    BY <1>3 DEF UipConn
  <2>4. d \in UipConn
    <3>1. Add(c.rcv, Len(m.data)) \in Seqnos
      BY <1>1, AddSeq, SeqNat DEF UipConn
    <3> QED
      BY <1>3, <3>1 DEF UipConn, States
  <2>5. /\ AppRight(n, b) /\ b.sock = "BUSY" /\ b.want = 0 /\ b.done = 0 /\ b.got = a.got
    BY <1>1, <2>2 DEF AppRight, AppSock, Socks
  <2>6. data \in BOOLEAN /\ TRUE \in BOOLEAN
    OBVIOUS
  <2> HIDE DEF d, b, data
  <2>7. CASE Appsend(n, d, a, TRUE, data)
    BY <1>1, <2>1, <2>2, <2>4, <2>6, <2>7, AppsendState DEF c
  <2>8. ASSUME Acks(c, m), NEW x \in Delivered(b, m.data),
               Appsend(n, d, x, x.sock = "PEER_ABORTED", data)
        PROVE  StreamState'
    <3>1. m.data # <<>> => m.seq = At(Peer(n), Len(b.got))
      <4>1. Len(b.got) = 0
        BY <2>2, <2>5, EmptySeq
      <4>2. "ACK" \in m.flags
        BY <2>8 DEF Acks
      <4>3. m.data # <<>> => m.seq = c.rcv
        BY <2>1, <4>2 DEF Acceptable
      <4> QED
        BY <2>2, <4>1, <4>3
    <3>2. /\ AppRight(n, x) /\ x.want = 0 /\ x.done = 0 /\ GotRight(x, app[Peer(n)])
          /\ x.sock # "PEER_ABORTED" => x.sock = "BUSY" /\ Len(x.got) = Len(b.got) + Len(m.data)
      BY <2>5, <2>8, <3>1, DeliveryRight
    <3>3. d.snd = Add(Iss[n], 1) /\ d.len = 0
      BY <1>1, <2>2, <2>3, <2>8 DEF Acked, Acks, UipConn
    <3>4. At(n, 0) = Add(Iss[n], 1)
      BY DEF At
    <3>5. d.rcv = At(Peer(n), Len(m.data))
      <4>1. 0 \in Nat /\ 0 + Len(m.data) = Len(m.data)
        BY <1>1
      <4> QED
        BY <1>1, <2>2, <2>3, <4>1, AtAdd
    <3>6. x.sock # "PEER_ABORTED" => ConnRight(n, d, x)
      <4>1. Len(b.got) = 0 /\ 0 + Len(m.data) = Len(m.data)
        BY <1>1, <2>2, <2>5, EmptySeq
      <4> QED
        BY <2>3, <3>2, <3>3, <3>4, <3>5, <4>1 DEF ConnRight
    <3>7. (x.sock = "PEER_ABORTED") \in BOOLEAN /\ x.sock \notin {"NULL", "CONNECT"}
      BY <3>2
    <3> QED
      BY <2>1, <2>2, <2>3, <2>4, <2>6, <2>8, <3>2, <3>6, <3>7, AppsendState DEF c
  <2>9. CASE Become(n, c, a, {SynAckSeg(n, c)})
    <3>1. \A r \in {SynAckSeg(n, c)} : SegRight(r, app[Peer(r.to)].want) /\ r.to \in Nodes
      BY <1>1, <1>4, <2>2
    <3> QED
      BY <1>1, <2>1, <2>9, <3>1, BecomeState DEF c
  <2> QED
    BY <2>1, <2>7, <2>8, <2>9
<1> DEFINE e == IF Acks(c, m) THEN AckedApp(a) ELSE a
<1>15. ASSUME c.st = "ESTABLISHED", Acceptable(c, m),
              NEW b \in IF m.data = <<>> THEN {e} ELSE Delivered(e, m.data)
       PROVE  /\ AppRight(n, b) /\ b.want = a.want /\ GotRight(b, app[Peer(n)])
              /\ b.sock \notin {"NULL", "CONNECT"}
              /\ b.sock # "PEER_ABORTED" =>
                   ConnRight(n, [Acked(c, m) EXCEPT !.rcv = Add(@, Len(m.data))], b)
  BY <1>15, EstablishedRight DEF c
<1>16. CASE EstablishedFin(n, m)
  <2> DEFINE d == [Acked(c, m) EXCEPT !.st = "LAST_ACK", !.rcv = Add(@, 1 + Len(m.data)),
                                      !.len = 1, !.nrtx = 0]
  <2>1. PICK b \in IF m.data = <<>> THEN {e} ELSE Delivered(e, m.data) :
          /\ c.st = "ESTABLISHED" /\ Acceptable(c, m) /\ UNCHANGED listening
          /\ Become(n, d, Ended(b, "PEER_CLOSED"), {FinAckSeg(n, d)})
    BY <1>16 DEF EstablishedFin, InState, c
  <2>2. /\ AppRight(n, b) /\ b.want = a.want /\ GotRight(b, app[Peer(n)])
        /\ b.sock \notin {"NULL", "CONNECT"}
    BY <1>15, <2>1
  <2>3. d.st = "LAST_ACK"
    BY <1>3 DEF UipConn
  <2> HIDE DEF d, e
  <2> DEFINE x == Ended(b, "PEER_CLOSED")
  <2>4. x.sock \notin {"NULL", "CONNECT"}
    BY <2>2 DEF Ended, AppRight, AppSock
  <2>5. ConnRight(n, d, x)
    BY <2>3, <2>4 DEF ConnRight
  <2>6. GotRight(x, app[Peer(n)]) /\ x.want = a.want
    BY <2>2, EndedType DEF GotRight, Socks
  <2>7. \A r \in {FinAckSeg(n, d)} : SegRight(r, app[Peer(r.to)].want) /\ r.to \in Nodes
    BY <1>1, <1>4
  <2> HIDE DEF x
  <2>8. Become(n, d, x, {FinAckSeg(n, d)})
    BY <2>1 DEF x
  <2> QED
    BY <2>1, <2>5, <2>6, <2>7, <2>8, BecomeState DEF c
<1>17. CASE EstablishedData(n, m)
  <2> DEFINE d == [Acked(c, m) EXCEPT !.rcv = Add(@, Len(m.data))]
             data == m.data # <<>>
  <2>1. PICK b \in IF m.data = <<>> THEN {e} ELSE Delivered(e, m.data) :
          /\ c.st = "ESTABLISHED" /\ Acceptable(c, m) /\ UNCHANGED listening
          /\ Appsend(n, d, b, b.sock = "PEER_ABORTED", data)
    BY <1>17 DEF EstablishedData, InState, c
  <2>2. /\ AppRight(n, b) /\ b.want = a.want /\ GotRight(b, app[Peer(n)])
        /\ b.sock \notin {"NULL", "CONNECT"}
        /\ b.sock # "PEER_ABORTED" => ConnRight(n, d, b)
    BY <1>15, <2>1
  <2>3. d.st = "ESTABLISHED"
    BY <1>3, <2>1 DEF UipConn
  <2>4. d \in UipConn
    <3>1. Add(c.rcv, Len(m.data)) \in Seqnos
      BY <1>1, AddSeq, SeqNat DEF UipConn
    <3> QED
      BY <1>3, <3>1 DEF UipConn, States
  <2> DEFINE abort == b.sock = "PEER_ABORTED"
  <2>5. data \in BOOLEAN /\ abort \in BOOLEAN
    OBVIOUS
  <2>6. conn[n].st # "CLOSED" /\ UNCHANGED listening /\ Appsend(n, d, b, abort, data)
    BY <2>1 DEF c
  <2> HIDE DEF d, e, data
  <2>7. ~abort => d.st = "ESTABLISHED" /\ ConnRight(n, d, b)
    BY <2>2, <2>3
  <2>8. b.want = app[n].want
    BY <2>2
  <2>9. b.sock \in {"NULL", "CONNECT"} => b.want = 0 /\ b.done = 0 /\ b.got = <<>>
    BY <2>2
  <2> HIDE DEF abort
  <2> QED
    BY <2>2, <2>4, <2>5, <2>6, <2>7, <2>8, <2>9, AppsendState
<1> QED
  BY <1>6, <1>7, <1>8, <1>9, <1>10, <1>11, <1>12, <1>13, <1>14, <1>16, <1>17 DEF Receive

\* So does every step.
LEMMA StreamNext == SeqWide /\ StaleApart /\ TcpTypes /\ StreamState /\ [Next]_vars => StreamState'
<1>1. ASSUME StreamState, UNCHANGED vars
      PROVE  StreamState'
  BY <1>1 DEF vars, StreamState
<1> QED
  BY <1>1, StreamTimer, StreamReceive, Numbers DEF Next

\* What is written goes round the sequence space less than once, and no segment of an
\* earlier connection is a SYN or has data at a number where this one has some.  Then
\* what a task reads is what the other wrote, in order and without a gap, for every
\* window, write, loss, repetition and order of arrival: the sequence check of
\* tcp_input and uip_add_rcv_nxt.
THEOREM StreamIntactAlways ==
  ASSUME SeqWide, StaleApart
  PROVE  Spec => []StreamIntact
<1>1. Init => StreamState
  BY StreamInit
<1>2. TcpTypes /\ StreamState /\ [Next]_vars => StreamState'
  BY StreamNext
<1>3. StreamState => StreamIntact
  BY DEF StreamState, StreamIntact, GotRight
<1> QED
  BY <1>1, <1>2, <1>3, TypesAlways, PTL DEF Spec

-----------------------------------------------------------------------------
(* Why one segment is under way: an inductive invariant *)

\* No segment of an earlier connection acknowledges anything of this one, and
\* none that comes to the node that connects has data or a FIN: the connection has
\* no rcv_nxt yet, so that the answer would acknowledge 0.
StaleQuiet == \A m \in Stale :
  /\ \A k \in 0 .. Total[m.to] : m.ack # At(m.to, k)
  /\ m.to = Active => m.data = <<>> /\ "FIN" \notin m.flags

\* A socket that never had a connection, and one whose connection is over
FreshSock == {"NULL", "CONNECT"}
EndedSock == {"CLOSE_OK", "PEER_CLOSED", "PEER_ABORTED"}

PhaseRight(n, c, a) ==
  /\ c.st \in Closing => a.sock \in EndedSock
  /\ a.sock = "CONNECT" => c.st = "SYN_SENT"
  /\ n = Active => c.st # "SYN_RCVD" /\ (a.sock = "NULL" => c.st = "CLOSED")
  /\ n = Passive => c.st # "SYN_SENT"

\* The peer, with socket b, has what n knows that it has, or that and the segment
\* that n waits for.
WaitRight(c, a, b) ==
  /\ a.sock \in FreshSock => b.got = <<>>
  /\ c.st = "ESTABLISHED" =>
       b.sock \in EndedSock \/ Len(b.got) \in {a.done, a.done + c.len}

\* Data of n, with socket a, has been acknowledged or is all that n waits for;
SentRight(n, m, c, a) ==
  m.data # <<>> =>
    /\ a.sock \notin FreshSock
    /\ c.st = "ESTABLISHED" =>
         \A k \in 0 .. Total[n] : m.seq = At(n, k) =>
           k + Len(m.data) <= a.done \/ (k = a.done /\ Len(m.data) = c.len)

\* what n acknowledges it has read, unless nobody reads it any more.
AckRight(m, a) ==
  "ACK" \in m.flags /\ "RST" \notin m.flags =>
    a.sock \in EndedSock \/ \E k \in 0 .. Len(a.got) : m.ack = At(m.to, k)

\* A segment before the SYN of the passive node has been acknowledged
QuietSeg(m) ==
  \/ "RST" \in m.flags
  \/ m.data = <<>> /\ m.flags \in IF m.to = Passive THEN {{"SYN"}} ELSE {{"SYN", "ACK"}, {"ACK"}}

FreshRight ==
  app[Active].sock \in FreshSock =>
    /\ app[Passive].sock = "NULL" /\ conn[Passive].st \in {"CLOSED", "SYN_RCVD"}
    /\ \A m \in net : m \in Stale \/ QuietSeg(m)

WaitState ==
  /\ \A n \in Nodes : PhaseRight(n, conn[n], app[n]) /\ WaitRight(conn[n], app[n], app[Peer(n)])
  /\ \A m \in net :
       m \in Stale \/ /\ SentRight(Peer(m.to), m, conn[Peer(m.to)], app[Peer(m.to)])
                      /\ AckRight(m, app[Peer(m.to)])
  /\ FreshRight

\* A socket that is over stays so, and a segment that was right stays right.
LEMMA SentKept ==
  ASSUME NEW n \in Nodes, NEW m \in Segment, NEW c \in UipConn, NEW a \in AppSock,
         NEW d \in UipConn, NEW b \in AppSock, SentRight(n, m, c, a),
         b.sock \in FreshSock => a.sock \in FreshSock,
         d.st = "ESTABLISHED" =>
           \/ a.sock \in FreshSock
           \/ c.st = "ESTABLISHED" /\ b.done = a.done /\ d.len = c.len
           \/ c.st = "ESTABLISHED" /\ b.done = a.done + c.len
  PROVE  SentRight(n, m, d, b)
<1> SUFFICES ASSUME m.data # <<>>
             PROVE  SentRight(n, m, d, b)
  BY DEF SentRight
<1>1. /\ m.data \in Seq(Nat) /\ Len(m.data) \in Nat /\ a.done \in Nat /\ b.done \in Nat
      /\ c.len \in Nat /\ Total[n] \in Nat
  BY Numbers, LenProperties DEF Segment, AppSock, UipConn
<1>2. a.sock \notin FreshSock
  BY DEF SentRight
<1> SUFFICES ASSUME d.st = "ESTABLISHED", NEW k \in 0 .. Total[n], m.seq = At(n, k)
             PROVE  k + Len(m.data) <= b.done \/ (k = b.done /\ Len(m.data) = d.len)
  BY <1>2 DEF SentRight
<1>3. k \in Nat
  BY <1>1
<1>4. c.st = "ESTABLISHED"
  BY <1>2
<1>5. k + Len(m.data) <= a.done \/ (k = a.done /\ Len(m.data) = c.len)
  BY <1>4 DEF SentRight
<1>6. CASE b.done = a.done /\ d.len = c.len
  BY <1>5, <1>6
<1>7. CASE b.done = a.done + c.len
  <2>1. \A x \in Nat, y \in Nat, z \in Nat : x <= y => x <= y + z
    OBVIOUS
  <2>2. k + Len(m.data) \in Nat
    BY <1>1, <1>3
  <2>3. CASE k + Len(m.data) <= a.done
    BY <1>1, <1>7, <2>1, <2>2, <2>3
  <2>4. CASE k = a.done /\ Len(m.data) = c.len
    <3>1. k + Len(m.data) = b.done
      BY <1>7, <2>4
    <3> QED
      BY <1>1, <3>1
  <2> QED
    BY <1>5, <2>3, <2>4
<1> QED
  BY <1>2, <1>6, <1>7

\* What an acknowledgement says stays true while its sender goes on.
LEMMA AckKept ==
  ASSUME NEW m, NEW a \in AppSock, NEW b \in AppSock, AckRight(m, a),
         a.sock \in EndedSock => b.sock \in EndedSock, Len(a.got) <= Len(b.got)
  PROVE  AckRight(m, b)
<1>1. Len(a.got) \in Nat /\ Len(b.got) \in Nat
  BY LenProperties DEF AppSock
<1>2. 0 .. Len(a.got) \subseteq 0 .. Len(b.got)
  BY <1>1
<1> QED
  BY <1>2 DEF AckRight

\* What a step of the network thread or a task keeps, when connection and socket of n
\* become c and a
WaitStep(n, c, a) ==
  /\ a.sock \in FreshSock => app[n].sock \in FreshSock
  /\ app[n].sock \in EndedSock => a.sock \in EndedSock
  /\ Len(app[n].got) <= Len(a.got)
  /\ WaitRight(conn[Peer(n)], app[Peer(n)], a)
  /\ c.st = "ESTABLISHED" =>
       \/ app[n].sock \in FreshSock /\ a.done = 0 /\ c.len = 0
       \/ conn[n].st = "ESTABLISHED" /\ a.done = app[n].done /\ c.len = conn[n].len
       \/ /\ conn[n].st = "ESTABLISHED" /\ a.done = app[n].done + conn[n].len
          /\ \/ conn[n].len = 0 \/ app[Peer(n)].sock \in EndedSock
             \/ Len(app[Peer(n)].got) = a.done

FreshStep(n, c, a, out) ==
  app[Active].sock \in FreshSock /\ (n = Active => a.sock \in FreshSock) =>
    /\ n = Passive => a.sock = "NULL" /\ c.st \in {"CLOSED", "SYN_RCVD"}
    /\ \A r \in out : QuietSeg(r)

\* A step keeps the invariant of one segment outstanding, if the end that it changes and
\* the segments it sends do.
LEMMA WaitBecome ==
  ASSUME TcpTypes, WaitState, NEW n \in Nodes, NEW c \in UipConn, NEW a \in AppSock, NEW out,
         Become(n, c, a, out), PhaseRight(n, c, a), WaitStep(n, c, a), FreshStep(n, c, a, out),
         \A r \in out : r.to = Peer(n) /\ SentRight(n, r, c, a) /\ AckRight(r, a)
  PROVE  WaitState'
<1> DEFINE p == Peer(n)
<1>1. /\ conn' = [conn EXCEPT ![n] = c] /\ app' = [app EXCEPT ![n] = a] /\ net' = net \cup out
      /\ p \in Nodes /\ Peer(p) = n /\ p # n /\ n \in Nodes
      /\ conn[n] \in UipConn /\ app[n] \in AppSock /\ conn[p] \in UipConn /\ app[p] \in AppSock
      /\ conn \in [Nodes -> UipConn] /\ app \in [Nodes -> AppSock] /\ net \subseteq Segment
  BY PeerNode DEF Become, TcpTypes
<1>2. conn'[n] = c /\ app'[n] = a /\ conn'[p] = conn[p] /\ app'[p] = app[p]
  BY <1>1
<1>3. \A q \in Nodes : q = n \/ q = p
  BY DEF Nodes, Peer
<1>4. /\ PhaseRight(p, conn[p], app[p]) /\ WaitRight(conn[n], app[n], app[p])
      /\ WaitRight(conn[p], app[p], a)
  BY <1>1 DEF WaitState, WaitStep
<1>5. WaitRight(c, a, app[p])
  <2>1. a.sock \in FreshSock => app[p].got = <<>>
    BY <1>4 DEF WaitRight, WaitStep
  <2>2. ASSUME c.st = "ESTABLISHED", app[p].sock \notin EndedSock
        PROVE  Len(app[p].got) \in {a.done, a.done + c.len}
    <3>1. CASE app[n].sock \in FreshSock /\ a.done = 0 /\ c.len = 0
      <4>1. app[p].got = <<>>
        BY <1>4, <3>1 DEF WaitRight
      <4> QED
        BY <3>1, <4>1, EmptySeq
    <3>2. CASE conn[n].st = "ESTABLISHED" /\ a.done = app[n].done /\ c.len = conn[n].len
      BY <1>4, <2>2, <3>2 DEF WaitRight
    <3>3. CASE /\ conn[n].st = "ESTABLISHED" /\ a.done = app[n].done + conn[n].len
               /\ conn[n].len = 0 \/ Len(app[p].got) = a.done
      <4>1. Len(app[p].got) \in {app[n].done, app[n].done + conn[n].len}
        BY <1>4, <2>2, <3>3 DEF WaitRight
      <4>2. app[n].done \in Nat /\ app[n].done + 0 = app[n].done
        BY <1>1 DEF AppSock
      <4> QED
        BY <3>3, <4>1, <4>2
    <3> QED
      BY <2>2, <3>1, <3>2, <3>3 DEF WaitStep
  <2> QED
    BY <2>1, <2>2 DEF WaitRight
<1>6. ASSUME NEW m \in net', m \notin Stale
      PROVE  /\ SentRight(Peer(m.to), m, conn'[Peer(m.to)], app'[Peer(m.to)])
             /\ AckRight(m, app'[Peer(m.to)])
  <2>1. CASE m \in out
    BY <1>1, <1>2, <2>1
  <2>2. CASE m \in net /\ Peer(m.to) = p
    BY <1>2, <1>6, <2>2 DEF WaitState
  <2>3. CASE m \in net /\ Peer(m.to) = n
    <3>1. SentRight(n, m, conn[n], app[n]) /\ AckRight(m, app[n])
      BY <1>6, <2>3 DEF WaitState
    <3>2. m \in Segment
      BY <1>1, <2>3
    <3>3. SentRight(n, m, c, a)
      BY <1>1, <3>1, <3>2, SentKept DEF WaitStep
    <3>4. AckRight(m, a)
      BY <1>1, <3>1, AckKept DEF WaitStep
    <3> QED
      BY <1>2, <2>3, <3>3, <3>4
  <2>4. m \in net => Peer(m.to) \in Nodes
    BY <1>1, PeerNode DEF Segment
  <2> QED
    BY <1>1, <1>3, <2>1, <2>2, <2>3, <2>4
<1>7. FreshRight'
  <2> SUFFICES ASSUME app'[Active].sock \in FreshSock
               PROVE  /\ app'[Passive].sock = "NULL" /\ conn'[Passive].st \in {"CLOSED", "SYN_RCVD"}
                      /\ \A m \in net' : m \in Stale \/ QuietSeg(m)
    BY DEF FreshRight
  <2>1. app[Active].sock \in FreshSock /\ (n = Active => a.sock \in FreshSock)
    <3>1. CASE n = Active
      BY <1>2, <3>1 DEF WaitStep
    <3>2. CASE n # Active
      <4>1. Active = p
        BY <1>3, <3>2, Numbers
      <4> QED
        BY <1>2, <3>2, <4>1
    <3> QED
      BY <3>1, <3>2
  <2>2. /\ app[Passive].sock = "NULL" /\ conn[Passive].st \in {"CLOSED", "SYN_RCVD"}
        /\ \A m \in net : m \in Stale \/ QuietSeg(m)
    BY <2>1 DEF WaitState, FreshRight
  <2>3. /\ n = Passive => a.sock = "NULL" /\ c.st \in {"CLOSED", "SYN_RCVD"}
        /\ \A r \in out : QuietSeg(r)
    BY <2>1 DEF FreshStep
  <2>4. Passive = n \/ Passive = p
    BY <1>3, Numbers
  <2> QED
    BY <1>1, <1>2, <2>2, <2>3, <2>4
<1>8. \A q \in Nodes : PhaseRight(q, conn'[q], app'[q]) /\ WaitRight(conn'[q], app'[q], app'[Peer(q)])
  BY <1>1, <1>2, <1>3, <1>4, <1>5
<1> QED
  BY <1>6, <1>7, <1>8 DEF WaitState

\* Connection and socket stay what they were, as far as the other end can tell.
LEMMA StayStep ==
  ASSUME WaitState, NEW n \in Nodes, NEW c, NEW a, a.got = app[n].got, a.done = app[n].done,
         Len(app[n].got) \in Nat,
         a.sock \in FreshSock => app[n].sock \in FreshSock,
         app[n].sock \in EndedSock => a.sock \in EndedSock,
         c.st = "ESTABLISHED" => conn[n].st = "ESTABLISHED" /\ c.len = conn[n].len
  PROVE  WaitStep(n, c, a)
<1>1. WaitRight(conn[Peer(n)], app[Peer(n)], app[n])
  BY PeerNode DEF WaitState
<1>2. WaitRight(conn[Peer(n)], app[Peer(n)], a)
  BY <1>1 DEF WaitRight
<1> QED
  BY <1>2 DEF WaitStep

\* A socket that had its connection: the handshake is over.
LEMMA FreshOver ==
  ASSUME WaitState, NEW n \in Nodes, NEW c, NEW a, NEW out, a.sock \notin FreshSock,
         n = Active \/ app[n].sock # "NULL"
  PROVE  FreshStep(n, c, a, out)
  BY Numbers, NodeAssumption DEF FreshStep, WaitState, FreshRight, Nodes

\* Acknowledgements without data say what their sender has.
LEMMA SegsSay ==
  ASSUME NEW n \in Nodes, NEW c, NEW a,
         a.sock \in EndedSock \/ \E k \in 0 .. Len(a.got) : c.rcv = At(Peer(n), k)
  PROVE  \A r \in {AckSeg(n, c), SynAckSeg(n, c), FinAckSeg(n, c)} :
           r.to = Peer(n) /\ SentRight(n, r, c, a) /\ AckRight(r, a)
  BY DEF AckSeg, SynAckSeg, FinAckSeg, Seg, SentRight, AckRight

\* SYN and RST say nothing of data.
LEMMA PlainSay ==
  ASSUME NEW n \in Nodes, NEW c, NEW a
  PROVE  \A r \in {SynSeg(n, c), Rst(Peer(n))} :
           r.to = Peer(n) /\ SentRight(n, r, c, a) /\ AckRight(r, a)
  BY DEF SynSeg, Seg, Rst, SentRight, AckRight

\* A data segment says what its sender has outstanding and has read.
LEMMA DataSay ==
  ASSUME SeqWide, NEW n \in Nodes, NEW c \in UipConn, NEW a, AppRight(n, a), ConnRight(n, c, a),
         c.st = "ESTABLISHED", Len(a.got) \in Nat
  PROVE  /\ DataSeg(n, c, a).to = Peer(n) /\ SentRight(n, DataSeg(n, c, a), c, a)
         /\ AckRight(DataSeg(n, c, a), a)
<1> DEFINE m == DataSeg(n, c, a)
<1>1. a \in AppSock /\ a.done \in Nat /\ a.done <= Total[n] /\ Total[n] \in 0 .. SeqMod - 1
  BY Numbers DEF AppRight, AppSock, SeqWide
<1>2. /\ m.to = Peer(n) /\ m.seq = c.snd /\ m.ack = c.rcv /\ Len(m.data) = c.len
  BY <1>1, DataSegType
<1>3. /\ c.snd = At(n, a.done) /\ c.rcv = At(Peer(n), Len(a.got)) /\ a.sock \notin FreshSock
  BY DEF ConnRight, FreshSock
<1> HIDE DEF m
<1>4. AckRight(m, a)
  BY <1>2, <1>3 DEF AckRight
<1>5. ASSUME NEW k \in 0 .. Total[n], m.seq = At(n, k)
      PROVE  k = a.done
  <2>1. k \in 0 .. SeqMod - 1 /\ a.done \in 0 .. SeqMod - 1
    BY <1>1, Numbers
  <2> QED
    BY <1>2, <1>3, <1>5, <2>1, AtInjective
<1>6. SentRight(n, m, c, a)
  BY <1>2, <1>3, <1>5 DEF SentRight
<1> QED
  BY <1>2, <1>4, <1>6 DEF m

\* A connection is over while the socket had it, or before it got it.
LEMMA AbortWait ==
  ASSUME TcpTypes, WaitState, NEW n \in Nodes, conn[n].st # "CLOSED", NEW c \in UipConn,
         c.st = "CLOSED", NEW out, Become(n, c, Ended(app[n], "PEER_ABORTED"), out),
         \A r \in out : r = Rst(Peer(n))
  PROVE  WaitState'
<1> DEFINE a == Ended(app[n], "PEER_ABORTED")
<1>1. /\ conn[n] \in UipConn /\ AppRight(n, app[n]) /\ app[n] \in AppSock
      /\ PhaseRight(n, conn[n], app[n]) /\ Len(app[n].got) \in Nat
  BY LenProperties DEF TcpTypes, WaitState, AppSock
<1>2. a \in AppSock /\ a.got = app[n].got /\ a.done = app[n].done
  BY <1>1 DEF Ended, AppSock, Socks
<1>3. /\ a.sock # "CONNECT" /\ (a.sock \in FreshSock <=> app[n].sock = "NULL")
      /\ app[n].sock = "NULL" => a.sock = "NULL"
      /\ app[n].sock \in EndedSock => a.sock \in EndedSock
  BY <1>1 DEF Ended, AppSock, FreshSock, EndedSock
<1>4. n = Active => app[n].sock # "NULL"
  BY <1>1 DEF PhaseRight
<1> HIDE DEF a
<1>5. PhaseRight(n, c, a)
  BY <1>3 DEF PhaseRight, Closing
<1>6. WaitStep(n, c, a)
  BY <1>1, <1>2, <1>3, StayStep DEF FreshSock
<1>7. FreshStep(n, c, a, out)
  <2>1. CASE app[n].sock # "NULL"
    BY <1>3, <2>1, FreshOver
  <2>2. CASE app[n].sock = "NULL"
    BY <1>3, <1>4, <2>2 DEF FreshStep, QuietSeg, Rst
  <2> QED
    BY <2>1, <2>2
<1>8. \A r \in out : r.to = Peer(n) /\ SentRight(n, r, c, a) /\ AckRight(r, a)
  BY PlainSay
<1>9. Become(n, c, a, out)
  BY DEF a
<1> QED
  BY <1>2, <1>5, <1>6, <1>7, <1>8, <1>9, WaitBecome

\* The invariant of one segment outstanding holds before a connection is opened.
LEMMA WaitInit == Init => WaitState
<1> SUFFICES ASSUME Init
             PROVE  WaitState
  OBVIOUS
<1>1. /\ \A n \in Nodes : /\ app[n].sock = "NULL" /\ app[n].got = <<>> /\ conn[n].st = "CLOSED"
      /\ net = Stale
  BY DEF Init
<1> QED
  BY <1>1, PeerNode, Numbers DEF WaitState, PhaseRight, WaitRight, FreshRight, Closing

\* uip_appsend keeps it.
LEMMA WaitAppsend ==
  ASSUME SeqWide, TcpTypes, WaitState, NEW n \in Nodes, NEW c \in UipConn, NEW a, AppRight(n, a),
         NEW abort \in BOOLEAN, NEW newdata \in BOOLEAN, Appsend(n, c, a, abort, newdata),
         ~abort => c.st = "ESTABLISHED" /\ ConnRight(n, c, a),
         WaitStep(n, c, a), a.sock = "WRITING" => app[n].sock = "WRITING",
         a.sock # "CONNECT" /\ (n = Active => a.sock # "NULL"),
         n = Passive => app[Active].sock \notin FreshSock
  PROVE  WaitState'
<1>1. /\ a \in AppSock /\ a.done \in Nat /\ a.want \in Nat /\ Len(a.got) \in Nat
      /\ app[n] \in AppSock /\ app[n].done \in Nat /\ conn[n] \in UipConn /\ c.len \in Nat
  BY LenProperties DEF AppRight, AppSock, UipConn, TcpTypes
<1>2. \A d, out : FreshStep(n, d, a, out)
  BY Numbers DEF FreshStep, FreshSock, Nodes
<1>3. CASE abort
  <2> DEFINE d == [c EXCEPT !.st = "CLOSED"]
  <2>1. d \in UipConn /\ d.st = "CLOSED"
    BY DEF UipConn, States
  <2>2. Become(n, d, a, {Rst(Peer(n))})
    BY <1>3 DEF Appsend
  <2> HIDE DEF d
  <2>3. PhaseRight(n, d, a)
    BY <2>1 DEF PhaseRight, Closing
  <2>4. WaitStep(n, d, a)
    BY <2>1 DEF WaitStep
  <2>5. \A r \in {Rst(Peer(n))} : r.to = Peer(n) /\ SentRight(n, r, d, a) /\ AckRight(r, a)
    BY PlainSay
  <2> QED
    BY <1>1, <1>2, <2>1, <2>2, <2>3, <2>4, <2>5, WaitBecome
<1>4. ASSUME ~abort
      PROVE  /\ a.sock \in {"BUSY", "WRITING", "CLOSE"} /\ c.snd = At(n, a.done)
             /\ c.rcv = At(Peer(n), Len(a.got)) /\ c.st = "ESTABLISHED"
             /\ \A d : d.st = "ESTABLISHED" => PhaseRight(n, d, a)
  BY <1>4 DEF ConnRight, PhaseRight, Closing
<1>5. CASE ~abort /\ a.sock = "WRITING" /\ ~Outstanding(c)
  <2> DEFINE d == [c EXCEPT !.len = Smaller(a.want - a.done, MSS), !.nrtx = 0]
  <2>1. d \in UipConn
    <3>1. Smaller(a.want - a.done, MSS) \in 0 .. MSS + 1 /\ 0 \in 0 .. MaxRtx
      BY Numbers DEF AppRight, AppSock, Smaller
    <3> QED
      BY <3>1 DEF UipConn
  <2>2. d.st = "ESTABLISHED" /\ d.snd = c.snd /\ d.rcv = c.rcv /\ d.len = Smaller(a.want - a.done, MSS)
    BY <1>4, <1>5 DEF UipConn
  <2>3. Become(n, d, a, {DataSeg(n, d, a)})
    BY <1>5 DEF Appsend
  <2> HIDE DEF d
  <2>4. PhaseRight(n, d, a) /\ ConnRight(n, d, a)
    BY <1>4, <1>5, <2>2 DEF ConnRight
  <2>5. WaitStep(n, d, a)
    <3>1. c.len = 0
      BY <1>1, <1>5 DEF Outstanding
    <3>2. app[n].sock \notin FreshSock
      BY <1>5 DEF FreshSock
    <3>3. /\ conn[n].st = "ESTABLISHED" /\ a.done = app[n].done + conn[n].len
          /\ \/ conn[n].len = 0 \/ app[Peer(n)].sock \in EndedSock
             \/ Len(app[Peer(n)].got) = a.done
      <4>1. app[n].done + 0 = app[n].done
        BY <1>1
      <4> QED
        BY <1>4, <1>5, <3>1, <3>2, <4>1 DEF WaitStep
    <3> QED
      BY <3>3 DEF WaitStep
  <2>6. \A r \in {DataSeg(n, d, a)} : r.to = Peer(n) /\ SentRight(n, r, d, a) /\ AckRight(r, a)
    BY <1>1, <2>1, <2>2, <2>4, DataSay
  <2> QED
    BY <1>1, <1>2, <2>1, <2>3, <2>4, <2>5, <2>6, WaitBecome
<1>6. CASE ~abort /\ ~(a.sock = "WRITING" /\ ~Outstanding(c))
  <2> DEFINE d == [c EXCEPT !.nrtx = 0]
             out == IF newdata THEN {AckSeg(n, c)} ELSE {}
  <2>1. d \in UipConn /\ d.st = "ESTABLISHED" /\ d.len = c.len /\ d.rcv = c.rcv
    BY <1>4, <1>6, Numbers DEF UipConn
  <2>2. Become(n, d, a, out)
    BY <1>6 DEF Appsend
  <2>3. AckSeg(n, c) = AckSeg(n, d)
    BY <2>1 DEF AckSeg, Seg, UipConn
  <2>4. \E k \in 0 .. Len(a.got) : d.rcv = At(Peer(n), k)
    BY <1>1, <1>4, <1>6, <2>1
  <2>5. \A r \in out : r.to = Peer(n) /\ SentRight(n, r, d, a) /\ AckRight(r, a)
    BY <2>3, <2>4, SegsSay
  <2> HIDE DEF d, out
  <2>6. PhaseRight(n, d, a)
    BY <1>4, <1>6, <2>1
  <2>7. WaitStep(n, d, a)
    BY <1>4, <1>6, <2>1 DEF WaitStep
  <2> QED
    BY <1>1, <1>2, <2>1, <2>2, <2>5, <2>6, <2>7, WaitBecome
<1> QED
  BY <1>3, <1>5, <1>6

\* So do calls, polls and timers.
LEMMA WaitTimer ==
  ASSUME SeqWide, TcpTypes, StreamState, WaitState, NEW n \in Nodes,
         \/ Connect \/ Write(n) \/ Close(n) \/ Poll(n) \/ PollSyn(n) \/ WaitOver(n) \/ GiveUp(n)
         \/ Retransmit(n)
  PROVE  WaitState'
<1>0. /\ \A p \in Nodes : /\ conn[p] \in UipConn /\ AppRight(p, app[p]) /\ app[p] \in AppSock
                           /\ ConnRight(p, conn[p], app[p]) /\ PhaseRight(p, conn[p], app[p])
                           /\ Len(app[p].got) \in Nat
      /\ conn \in [Nodes -> UipConn] /\ app \in [Nodes -> AppSock]
      /\ Active \in Nodes /\ Passive \in Nodes /\ Active # Passive
  BY Numbers, NodeAssumption, LenProperties DEF TcpTypes, StreamState, WaitState, AppSock
\* Nothing is sent.
<1>1. ASSUME NEW p \in Nodes, NEW c \in UipConn, NEW a \in AppSock,
             conn' = [conn EXCEPT ![p] = c], app' = [app EXCEPT ![p] = a], UNCHANGED net,
             PhaseRight(p, c, a), WaitStep(p, c, a), FreshStep(p, c, a, {})
      PROVE  WaitState'
  <2>1. Become(p, c, a, {})
    BY <1>1 DEF Become
  <2> QED
    BY <1>1, <2>1, WaitBecome
<1>2. CASE Connect
  <2> DEFINE c == [st |-> "SYN_SENT", snd |-> Iss[Active], rcv |-> 0, len |-> 1, nrtx |-> 0]
             a == [app[Active] EXCEPT !.sock = "CONNECT"]
  <2>1. c \in UipConn
    BY Numbers DEF UipConn, States
  <2>2. /\ a \in AppSock /\ a.sock = "CONNECT" /\ a.got = app[Active].got /\ a.done = app[Active].done
        /\ c.st = "SYN_SENT"
    BY <1>0 DEF AppSock, Socks
  <2>3. /\ conn' = [conn EXCEPT ![Active] = c] /\ app' = [app EXCEPT ![Active] = a] /\ UNCHANGED net
        /\ app[Active].sock = "NULL"
    BY <1>0, <1>2 DEF Connect
  <2> HIDE DEF c, a
  <2>4. PhaseRight(Active, c, a)
    BY <1>0, <2>2 DEF PhaseRight, Closing
  <2>5. WaitStep(Active, c, a)
    BY <1>0, <2>2, <2>3, StayStep DEF FreshSock, EndedSock
  <2>6. FreshStep(Active, c, a, {})
    BY <1>0 DEF FreshStep
  <2> QED
    BY <1>0, <1>1, <2>1, <2>2, <2>3, <2>4, <2>5, <2>6
<1>3. CASE Write(n) \/ Close(n)
  <2>1. PICK a \in AppSock : /\ a.sock \in {"WRITING", "CLOSE"} /\ app[n].sock = "BUSY"
                             /\ a.got = app[n].got /\ a.done = app[n].done
                             /\ app' = [app EXCEPT ![n] = a]
    <3>1. CASE Write(n)
      <4>1. PICK k \in Sizes[n] :
              /\ app[n].sock = "BUSY"
              /\ app' = [app EXCEPT ![n].sock = "WRITING", ![n].want = @ + k]
        BY <3>1 DEF Write
      <4> DEFINE a == [app[n] EXCEPT !.sock = "WRITING", !.want = app[n].want + k]
      <4>2. app[n].want + k \in Nat
        BY <1>0, <4>1, Numbers DEF AppSock
      <4>3. /\ a \in AppSock /\ a.sock = "WRITING" /\ a.got = app[n].got /\ a.done = app[n].done
        BY <1>0, <4>2 DEF AppSock, Socks
      <4>4. app' = [app EXCEPT ![n] = a]
        BY <1>0, <4>1
      <4> QED
        BY <4>1, <4>3, <4>4
    <3>2. CASE Close(n)
      <4> DEFINE a == [app[n] EXCEPT !.sock = "CLOSE"]
      <4>1. /\ a \in AppSock /\ a.sock = "CLOSE" /\ a.got = app[n].got /\ a.done = app[n].done
        BY <1>0 DEF AppSock, Socks
      <4>2. app[n].sock = "BUSY" /\ app' = [app EXCEPT ![n] = a]
        BY <1>0, <3>2 DEF Close
      <4> QED
        BY <4>1, <4>2
    <3> QED
      BY <1>3, <3>1, <3>2
  <2>2. UNCHANGED <<conn, net>> /\ conn' = [conn EXCEPT ![n] = conn[n]]
    BY <1>0, <1>3 DEF Write, Close
  <2>3. PhaseRight(n, conn[n], a)
    BY <1>0, <2>1 DEF PhaseRight, EndedSock
  <2>4. WaitStep(n, conn[n], a)
    BY <1>0, <2>1, StayStep DEF FreshSock, EndedSock
  <2>5. FreshStep(n, conn[n], a, {})
    BY <2>1, FreshOver DEF FreshSock
  <2> QED
    BY <1>0, <1>1, <2>1, <2>2, <2>3, <2>4, <2>5
<1>4. CASE Poll(n)
  <2> DEFINE d == [conn[n] EXCEPT !.st = "FIN_WAIT_1", !.len = 1, !.nrtx = 0]
             a == Ended(app[n], "CLOSE_OK")
  <2>1. /\ conn[n].st = "ESTABLISHED"
        /\ \/ app[n].sock = "CLOSE" /\ Become(n, d, a, {FinAckSeg(n, d)})
           \/ Appsend(n, conn[n], app[n], FALSE, FALSE)
    BY <1>4 DEF Poll
  <2>2. app[n].sock \in {"BUSY", "WRITING", "CLOSE"}
    BY <1>0, <2>1 DEF ConnRight
  <2>3. d \in UipConn /\ d.st = "FIN_WAIT_1"
    <3>1. 1 \in 0 .. MSS + 1 /\ 0 \in 0 .. MaxRtx
      BY Numbers
    <3> QED
      BY <1>0, <3>1 DEF UipConn, States, Closing
  <2>4. a \in AppSock /\ a.sock = "CLOSE_OK" /\ a.got = app[n].got /\ a.done = app[n].done
    BY <1>0, <2>2 DEF AppSock, Ended, Socks
  <2> HIDE DEF d, a
  <2>5. CASE Become(n, d, a, {FinAckSeg(n, d)})
    <3>1. PhaseRight(n, d, a)
      BY <2>3, <2>4 DEF PhaseRight, EndedSock
    <3>2. WaitStep(n, d, a)
      BY <1>0, <2>3, <2>4, StayStep DEF FreshSock, EndedSock
    <3>3. FreshStep(n, d, a, {FinAckSeg(n, d)})
      BY <2>2, <2>4, FreshOver DEF FreshSock
    <3>4. \A r \in {FinAckSeg(n, d)} : r.to = Peer(n) /\ SentRight(n, r, d, a) /\ AckRight(r, a)
      BY <2>4, SegsSay DEF EndedSock
    <3> QED
      BY <2>3, <2>4, <2>5, <3>1, <3>2, <3>3, <3>4, WaitBecome
  <2>6. CASE Appsend(n, conn[n], app[n], FALSE, FALSE)
    <3>1. FALSE \in BOOLEAN
      OBVIOUS
    <3>2. WaitStep(n, conn[n], app[n])
      BY <1>0, StayStep
    <3>3. n = Passive => app[Active].sock \notin FreshSock
      BY <2>1 DEF WaitState, FreshRight
    <3> QED
      BY <1>0, <2>1, <2>2, <2>6, <3>1, <3>2, <3>3, WaitAppsend
  <2> QED
    BY <2>1, <2>5, <2>6
<1>5. CASE PollSyn(n)
  <2>1. conn[n].st = "SYN_SENT" /\ Become(n, conn[n], app[n], {SynSeg(n, conn[n])})
    BY <1>5 DEF PollSyn
  <2>2. n # Passive
    BY <1>0, <2>1 DEF PhaseRight
  <2>3. QuietSeg(SynSeg(n, conn[n]))
    BY <1>0, <2>2 DEF QuietSeg, SynSeg, Seg, Peer, Nodes
  <2>4. FreshStep(n, conn[n], app[n], {SynSeg(n, conn[n])})
    BY <2>2, <2>3 DEF FreshStep
  <2>5. WaitStep(n, conn[n], app[n])
    BY <1>0, StayStep
  <2> QED
    BY <1>0, <2>1, <2>4, <2>5, PlainSay, WaitBecome
<1>6. CASE WaitOver(n)
  <2> DEFINE d == [conn[n] EXCEPT !.st = "CLOSED"]
  <2>1. /\ conn[n].st \in Closing /\ conn' = [conn EXCEPT ![n] = d] /\ UNCHANGED <<app, net>>
        /\ app' = [app EXCEPT ![n] = app[n]]
    BY <1>0, <1>6 DEF WaitOver, Closing
  <2>2. d \in UipConn /\ d.st = "CLOSED"
    BY <1>0 DEF UipConn, States
  <2>3. app[n].sock \in EndedSock
    BY <1>0, <2>1 DEF PhaseRight
  <2> HIDE DEF d
  <2>4. PhaseRight(n, d, app[n])
    BY <2>2, <2>3 DEF PhaseRight, Closing, EndedSock
  <2>5. WaitStep(n, d, app[n])
    BY <1>0, <2>2, StayStep
  <2>6. FreshStep(n, d, app[n], {})
    BY <2>3, FreshOver DEF FreshSock, EndedSock
  <2> QED
    BY <1>0, <1>1, <2>1, <2>2, <2>4, <2>5, <2>6
<1>7. CASE GiveUp(n)
  <2> DEFINE d == [conn[n] EXCEPT !.st = "CLOSED"]
  <2>1. conn[n].st # "CLOSED" /\ Become(n, d, Ended(app[n], "PEER_ABORTED"), {Rst(Peer(n))})
    BY <1>7 DEF GiveUp, TimerRanOut
  <2>2. d \in UipConn /\ d.st = "CLOSED"
    BY <1>0 DEF UipConn, States
  <2> HIDE DEF d
  <2> QED
    BY <2>1, <2>2, AbortWait
<1>8. CASE Retransmit(n)
  <2> DEFINE c == [conn[n] EXCEPT !.nrtx = @ + 1]
  <2>1. c.st = conn[n].st /\ c.snd = conn[n].snd /\ c.rcv = conn[n].rcv /\ c.len = conn[n].len
    BY <1>0 DEF UipConn
  <2>2. ConnRight(n, c, app[n]) /\ PhaseRight(n, c, app[n])
    BY <1>0, <2>1 DEF ConnRight, PhaseRight
  <2>3. c \in UipConn
    <3>1. conn[n].nrtx # MaxRtx
      BY <1>8 DEF Retransmit, LastTry
    <3>2. conn[n].nrtx \in 0 .. MaxRtx
      BY <1>0 DEF UipConn
    <3>3. conn[n].nrtx + 1 \in 0 .. MaxRtx
      BY <3>1, <3>2, Numbers
    <3> QED
      BY <1>0, <3>3 DEF UipConn
  <2>4. c.st \notin {"CLOSED", "TIME_WAIT", "FIN_WAIT_2"}
    BY <1>8, <2>1 DEF Retransmit, TimerRanOut
  <2>5. PICK m : /\ Become(n, c, app[n], {m})
                 /\ \/ c.st = "SYN_SENT" /\ m = SynSeg(n, c)
                    \/ c.st = "SYN_RCVD" /\ m = SynAckSeg(n, c)
                    \/ c.st = "ESTABLISHED" /\ m = DataSeg(n, c, app[n])
                    \/ c.st \notin {"SYN_SENT", "SYN_RCVD", "ESTABLISHED"} /\ m = FinAckSeg(n, c)
    BY <1>8, <2>1 DEF Retransmit
  <2> HIDE DEF c
  <2>6. WaitStep(n, c, app[n])
    BY <1>0, <2>1, StayStep
  <2>7. m.to = Peer(n) /\ SentRight(n, m, c, app[n]) /\ AckRight(m, app[n]) /\ FreshStep(n, c, app[n], {m})
    <3>1. CASE c.st = "SYN_SENT" /\ m = SynSeg(n, c)
      <4>1. n # Passive
        BY <2>2, <3>1 DEF PhaseRight
      <4>2. QuietSeg(m)
        BY <1>0, <3>1, <4>1 DEF QuietSeg, SynSeg, Seg, Peer, Nodes
      <4> QED
        BY <3>1, <4>1, <4>2, PlainSay DEF FreshStep
    <3>2. CASE c.st = "SYN_RCVD" /\ m = SynAckSeg(n, c)
      <4>1. n = Passive /\ c.rcv = At(Peer(n), 0) /\ app[n].sock = "NULL"
        BY <2>2, <3>2 DEF PhaseRight, ConnRight, Nodes
      <4>2. QuietSeg(m)
        BY <1>0, <3>2, <4>1 DEF QuietSeg, SynAckSeg, Seg, Peer, Nodes
      <4>3. 0 \in 0 .. Len(app[n].got)
        BY <1>0
      <4>4. FreshStep(n, c, app[n], {m})
        BY <3>2, <4>1, <4>2 DEF FreshStep
      <4> QED
        BY <3>2, <4>1, <4>3, <4>4, SegsSay
    <3>3. CASE c.st = "ESTABLISHED" /\ m = DataSeg(n, c, app[n])
      <4>1. app[n].sock \notin FreshSock
        BY <2>2, <3>3 DEF ConnRight, FreshSock
      <4>2. FreshStep(n, c, app[n], {m})
        BY <4>1, FreshOver DEF FreshSock
      <4> QED
        BY <1>0, <2>2, <2>3, <3>3, <4>2, DataSay
    <3>4. CASE c.st \notin {"SYN_SENT", "SYN_RCVD", "ESTABLISHED"} /\ m = FinAckSeg(n, c)
      <4>1. app[n].sock \in EndedSock
        BY <2>2, <2>3, <2>4, <3>4 DEF PhaseRight, UipConn, States
      <4>2. FreshStep(n, c, app[n], {m})
        BY <4>1, FreshOver DEF FreshSock, EndedSock
      <4> QED
        BY <3>4, <4>1, <4>2, SegsSay
    <3> QED
      BY <2>5, <3>1, <3>2, <3>3, <3>4
  <2> QED
    BY <1>0, <2>2, <2>3, <2>5, <2>6, <2>7, WaitBecome
<1> QED
  BY <1>2, <1>3, <1>4, <1>5, <1>6, <1>7, <1>8

\* An acknowledgement of what is outstanding tells that the peer has read it.
LEMMA AckHeard ==
  ASSUME SeqWide, StaleQuiet, TcpTypes, StreamState, WaitState, NEW n \in Nodes, NEW m \in net,
         m.to = n, conn[n].st = "ESTABLISHED", "RST" \notin m.flags, Acks(conn[n], m)
  PROVE  \/ app[Peer(n)].sock \in EndedSock
         \/ Len(app[Peer(n)].got) = app[n].done + conn[n].len
<1> DEFINE g == Len(app[Peer(n)].got)
           e == app[n].done + conn[n].len
<1>1. /\ conn[n] \in UipConn /\ AppRight(n, app[n]) /\ ConnRight(n, conn[n], app[n]) /\ m \in Segment
      /\ GotRight(app[Peer(n)], app[n]) /\ WaitRight(conn[n], app[n], app[Peer(n)])
      /\ app[Peer(n)] \in AppSock /\ Peer(n) \in Nodes
  BY PeerNode DEF TcpTypes, StreamState, WaitState
<1>2. m.ack = At(n, e) /\ e <= app[n].want
  BY <1>1, AckedRight
<1>3. /\ g \in Nat /\ e \in Nat /\ app[n].done \in Nat /\ conn[n].len \in Nat /\ conn[n].len > 0
      /\ g <= app[n].want /\ app[n].want <= Total[n] /\ Total[n] < SeqMod
      /\ app[n].want \in Nat /\ Total[n] \in Nat /\ SeqMod \in Nat
  BY <1>1, LenProperties, Numbers
  DEF GotRight, AppRight, AppSock, UipConn, SeqWide, Acks, Outstanding
<1> SUFFICES ASSUME app[Peer(n)].sock \notin EndedSock
             PROVE  g = e
  OBVIOUS
<1>4. g \in {app[n].done, e}
  BY <1>1 DEF WaitRight
<1> HIDE DEF g, e
<1>5. e \in 0 .. Total[n] /\ e \in 0 .. SeqMod - 1
  BY <1>2, <1>3
<1>6. m \notin Stale
  BY <1>2, <1>5 DEF StaleQuiet
<1>7. PICK k \in 0 .. g : m.ack = At(n, k)
  <2>1. AckRight(m, app[Peer(n)])
    BY <1>6 DEF WaitState
  <2> QED
    BY <2>1 DEF AckRight, Acks, g
<1>8. k \in 0 .. SeqMod - 1 /\ k <= g
  BY <1>3
<1>9. k = e
  BY <1>2, <1>5, <1>7, <1>8, AtInjective
<1>10. app[n].done < e
  BY <1>3 DEF e
<1> QED
  BY <1>3, <1>4, <1>8, <1>9, <1>10

\* What comes in sequence is what the peer waits for.
LEMMA DeliveryWait ==
  ASSUME SeqWide, StaleApart, TcpTypes, StreamState, WaitState, NEW n \in Nodes, NEW m \in net,
         m.to = n, NEW a, AppRight(n, a), a.got = app[n].got, a.sock \notin EndedSock,
         app[n].sock \notin EndedSock,
         m.data # <<>> => m.seq = At(Peer(n), Len(a.got)),
         NEW b \in Delivered(a, m.data)
  PROVE  WaitRight(conn[Peer(n)], app[Peer(n)], b)
<1> DEFINE p == Peer(n)
           g == Len(a.got)
           l == Len(m.data)
<1>1. /\ AppRight(n, b) /\ GotRight(b, app[p])
      /\ b.sock # "PEER_ABORTED" \/ m.data = <<>> => b.sock = a.sock /\ Len(b.got) = g + l
  BY DeliveryRight
<1>2. /\ m \in Segment /\ p \in Nodes /\ Peer(p) = n /\ l \in Nat /\ g \in Nat
      /\ m.data = <<>> => l = 0
      /\ m.data # <<>> => l > 0
      /\ app[p] \in AppSock /\ AppRight(p, app[p]) /\ conn[p] \in UipConn /\ b \in AppSock
      /\ WaitRight(conn[p], app[p], app[n]) /\ GotRight(app[n], app[p])
  <2>1. m \in Segment /\ p \in Nodes /\ Peer(p) = n
    BY PeerNode DEF TcpTypes
  <2>2. m.data \in Seq(Nat) /\ a.got \in Seq(Nat)
    BY <2>1 DEF Segment, AppRight, AppSock
  <2> QED
    BY <1>1, <2>1, <2>2, EmptySeq, LenProperties DEF TcpTypes, StreamState, WaitState, AppRight
<1>3. CASE m.data = <<>>
  <2>1. Len(b.got) = g
    BY <1>1, <1>2, <1>3
  <2>2. a.got = <<>> => b.got = <<>>
    BY <1>2, <2>1, EmptySeq DEF AppSock
  <2> QED
    BY <1>2, <2>1, <2>2 DEF WaitRight
<1>4. CASE m.data # <<>>
  <2>1. g \in 0 .. Total[p] /\ Total[p] \in Nat
    <3>1. g <= app[p].want /\ app[p].want \in Nat /\ app[p].want <= Total[p] /\ Total[p] \in Nat
      BY <1>2, Numbers DEF GotRight, AppRight, AppSock
    <3> QED
      BY <1>2, <3>1
  <2>2. m \notin Stale
    BY <1>4, <2>1 DEF StaleApart
  <2>3. SentRight(p, m, conn[p], app[p])
    BY <1>2, <2>2 DEF WaitState
  <2>4. app[p].sock \notin FreshSock
    BY <1>4, <2>3 DEF SentRight
  <2>5. ASSUME conn[p].st = "ESTABLISHED", b.sock \notin EndedSock
        PROVE  Len(b.got) \in {app[p].done, app[p].done + conn[p].len}
    <3>1. Len(b.got) = g + l
      BY <1>1, <2>5 DEF EndedSock
    <3>2. g + l <= app[p].done \/ (g = app[p].done /\ l = conn[p].len)
      BY <1>4, <2>1, <2>3, <2>5 DEF SentRight
    <3>3. g \in {app[p].done, app[p].done + conn[p].len}
      BY <1>2, <2>5 DEF WaitRight
    <3>4. app[p].done \in Nat /\ conn[p].len \in Nat
      BY <1>2 DEF AppSock, UipConn
    <3> HIDE DEF g, l
    <3>5. ~(g + l <= app[p].done)
      BY <1>2, <1>4, <3>3, <3>4
    <3> QED
      BY <3>1, <3>2, <3>5
  <2> QED
    BY <2>4, <2>5 DEF WaitRight
<1> QED
  BY <1>3, <1>4

\* A segment that comes to an established connection
LEMMA EstablishedWait ==
  ASSUME SeqWide, StaleApart, StaleQuiet, TcpTypes, StreamState, WaitState, NEW n \in Nodes,
         NEW m \in net, m.to = n, conn[n].st = "ESTABLISHED", "RST" \notin m.flags,
         Acceptable(conn[n], m),
         NEW b \in LET e == IF Acks(conn[n], m) THEN AckedApp(app[n]) ELSE app[n]
                  IN  IF m.data = <<>> THEN {e} ELSE Delivered(e, m.data)
  PROVE  /\ WaitStep(n, [Acked(conn[n], m) EXCEPT !.rcv = Add(@, Len(m.data))], b)
         /\ b.sock = "WRITING" => app[n].sock = "WRITING"
         /\ b.sock \in {"BUSY", "CLOSE"} =>
              b.done = app[n].want \/ (b.sock = app[n].sock /\ b.done = app[n].done)
         /\ app[n].sock \notin FreshSock /\ app[n].sock \notin EndedSock
         /\ n = Passive => app[Active].sock \notin FreshSock
<1> DEFINE c == conn[n]
           a == app[n]
           e == IF Acks(c, m) THEN AckedApp(a) ELSE a
           d == [Acked(c, m) EXCEPT !.rcv = Add(@, Len(m.data))]
<1>1. /\ c \in UipConn /\ AppRight(n, a) /\ a \in AppSock /\ ConnRight(n, c, a)
      /\ m \in Segment /\ m.data \in Seq(Nat) /\ Len(a.got) \in Nat
      /\ WaitRight(conn[Peer(n)], app[Peer(n)], a)
  BY PeerNode, LenProperties DEF TcpTypes, StreamState, WaitState, Segment, AppSock
<1>2. b \in IF m.data = <<>> THEN {e} ELSE Delivered(e, m.data)
  OBVIOUS
<1>3. /\ a.sock \in {"BUSY", "WRITING", "CLOSE"} /\ c.rcv = At(Peer(n), Len(a.got))
      /\ a.sock \notin FreshSock /\ a.sock \notin EndedSock
  BY <1>1 DEF ConnRight, FreshSock, EndedSock
<1>4. AppRight(n, e) /\ e.got = a.got
  BY <1>1, AckedAppType
<1>5. /\ Acks(c, m) => /\ e.done = a.done + c.len /\ e.sock \in {"BUSY", "WRITING"}
                       /\ a.sock = "WRITING" /\ (e.sock = "BUSY" => e.done = a.want)
      /\ ~Acks(c, m) => e = a
  BY <1>1, AckedRight
<1>6. /\ Acks(c, m) => d.len = 0
      /\ ~Acks(c, m) => d.len = c.len
      /\ d.st = "ESTABLISHED"
  BY <1>1 DEF Acked, UipConn
<1>7. e.sock \in {"BUSY", "WRITING", "CLOSE"} /\ (e.sock = "WRITING" => a.sock = "WRITING")
  BY <1>3, <1>5
<1> HIDE DEF d, e
<1>8. /\ b.done = e.done /\ b.sock \in {e.sock, "PEER_ABORTED"} /\ Len(a.got) <= Len(b.got)
      /\ WaitRight(conn[Peer(n)], app[Peer(n)], b)
  <2>1. CASE m.data = <<>>
    <3>1. b = e
      BY <1>2, <2>1
    <3>2. WaitRight(conn[Peer(n)], app[Peer(n)], e)
      BY <1>1, <1>3, <1>4 DEF WaitRight
    <3> QED
      BY <1>1, <1>4, <3>1, <3>2
  <2>2. CASE m.data # <<>>
    <3>1. m.seq = At(Peer(n), Len(e.got))
      BY <1>3, <1>4, <2>2 DEF Acceptable
    <3>2. b \in Delivered(e, m.data)
      BY <1>2, <2>2
    <3>3. e.sock \notin EndedSock
      BY <1>7 DEF EndedSock
    <3>4. WaitRight(conn[Peer(n)], app[Peer(n)], b)
      BY <1>3, <1>4, <3>1, <3>2, <3>3, DeliveryWait
    <3>5. /\ b.done = e.done /\ Len(e.got) <= Len(b.got)
          /\ b.sock # "PEER_ABORTED" => b.sock = e.sock
      BY <1>4, <3>1, <3>2, DeliveryRight
    <3> QED
      BY <1>4, <3>4, <3>5
  <2> QED
    BY <2>1, <2>2
<1>9. b.sock \notin FreshSock /\ (b.sock = "WRITING" => a.sock = "WRITING")
  BY <1>7, <1>8 DEF FreshSock
<1>10. \/ b.done = a.done /\ d.len = c.len
       \/ /\ b.done = a.done + c.len
          /\ app[Peer(n)].sock \in EndedSock \/ Len(app[Peer(n)].got) = b.done
  <2>1. CASE Acks(c, m)
    BY <1>5, <1>8, <2>1, AckHeard
  <2>2. CASE ~Acks(c, m)
    BY <1>5, <1>6, <1>8, <2>2
  <2> QED
    BY <2>1, <2>2
<1>11. WaitStep(n, d, b)
  BY <1>3, <1>8, <1>9, <1>10 DEF WaitStep
<1>12. n = Passive => app[Active].sock \notin FreshSock
  BY DEF WaitState, FreshRight
<1>13. b.sock \in {"BUSY", "CLOSE"} => b.done = a.want \/ (b.sock = a.sock /\ b.done = a.done)
  BY <1>5, <1>8
<1> QED
  BY <1>3, <1>9, <1>11, <1>12, <1>13 DEF d

\* The SYNACK is acknowledged, by the node that connects, or sent once more.
LEMMA SynRcvdWait ==
  ASSUME SeqWide, StaleApart, StaleQuiet, TcpTypes, StreamState, WaitState,
         NEW n \in Nodes, NEW m \in net, m.to = n, SynRcvd(n, m)
  PROVE  /\ n = Passive /\ n # Active /\ conn[n].st = "SYN_RCVD" /\ app[n].sock = "NULL"
         /\ conn[n].rcv = At(Peer(n), 0) /\ app[n].want = 0
         /\ \/ Become(n, conn[n], app[n], {SynAckSeg(n, conn[n])})
            \/ \E d \in UipConn, x \in AppSock, abort \in BOOLEAN, newdata \in BOOLEAN :
                 /\ Appsend(n, d, x, abort, newdata) /\ d.st = "ESTABLISHED" /\ AppRight(n, x)
                 /\ ~abort => ConnRight(n, d, x)
                 /\ WaitStep(n, d, x) /\ x.sock \in {"NULL", "BUSY", "PEER_ABORTED"}
                 /\ app[Active].sock \notin FreshSock
                 /\ x.want = 0 /\ x.done = 0 /\ GotRight(x, app[Peer(n)])
<1> DEFINE c == conn[n]
           a == app[n]
<1>1. /\ c \in UipConn /\ AppRight(n, a) /\ a \in AppSock
      /\ ConnRight(n, c, a) /\ PhaseRight(n, c, a) /\ GotRight(a, app[Peer(n)])
      /\ Peer(n) \in Nodes /\ Peer(Peer(n)) = n /\ Peer(n) # n
      /\ m \in Segment /\ m.data \in Seq(Nat) /\ Len(m.data) \in Nat
      /\ Len(a.got) \in Nat
  BY PeerNode, LenProperties DEF TcpTypes, StreamState, WaitState, Segment, AppSock
<1>2. /\ Acked(c, m) \in UipConn /\ Acked(c, m).st = c.st /\ Acked(c, m).rcv = c.rcv
      /\ \A k \in Nat : [Acked(c, m) EXCEPT !.rcv = Add(c.rcv, k)] \in UipConn
  <2>1. \A k \in Nat : Add(c.rcv, k) \in Seqnos
    BY <1>1, AddSeq, SeqNat DEF UipConn
  <2> QED
    BY <1>1, <2>1, AckedType DEF Acked, UipConn
<1> HIDE DEF c
<1> DEFINE d == [Acked(c, m) EXCEPT !.st = "ESTABLISHED", !.rcv = Add(@, Len(m.data))]
           b == [a EXCEPT !.sock = "BUSY"]
           data == m.data # <<>>
<1>3. /\ c.st = "SYN_RCVD" /\ Acceptable(c, m) /\ "RST" \notin m.flags
      /\ \/ /\ Acks(c, m)
            /\ \/ Appsend(n, d, a, TRUE, data)
               \/ \E x \in Delivered(b, m.data) : Appsend(n, d, x, x.sock = "PEER_ABORTED", data)
         \/ Become(n, c, a, {SynAckSeg(n, c)})
  BY DEF SynRcvd, InState, c
<1>4. /\ n = Passive /\ c.snd = Iss[n] /\ c.rcv = At(Peer(n), 0) /\ c.len = 1
      /\ a.sock = "NULL" /\ a.want = 0 /\ a.done = 0 /\ a.got = <<>>
  BY <1>1, <1>3 DEF ConnRight, PhaseRight, Nodes
<1>5. d.st = "ESTABLISHED" /\ d.rcv = Add(c.rcv, Len(m.data)) /\ d.snd = Acked(c, m).snd
      /\ d.len = Acked(c, m).len
  BY <1>2 DEF UipConn
<1>6. d \in UipConn
  BY <1>1, <1>2 DEF UipConn, States
<1>7. /\ AppRight(n, b) /\ b.sock = "BUSY" /\ b.want = 0 /\ b.done = 0 /\ b.got = a.got
  BY <1>1, <1>4 DEF AppRight, AppSock, Socks
<1>8. data \in BOOLEAN /\ TRUE \in BOOLEAN
  OBVIOUS
<1>9. n # Active
  BY <1>4, NodeAssumption
<1>10. WaitRight(conn[Peer(n)], app[Peer(n)], a)
  BY <1>1 DEF WaitState
<1> DEFINE accepted == \E f \in UipConn, x \in AppSock, abort \in BOOLEAN, newdata \in BOOLEAN :
             /\ Appsend(n, f, x, abort, newdata) /\ f.st = "ESTABLISHED" /\ AppRight(n, x)
             /\ ~abort => ConnRight(n, f, x)
             /\ WaitStep(n, f, x) /\ x.sock \in {"NULL", "BUSY", "PEER_ABORTED"}
             /\ app[Active].sock \notin FreshSock
             /\ x.want = 0 /\ x.done = 0 /\ GotRight(x, app[Peer(n)])
<1> HIDE DEF d, b, data
\* The SYNACK was acknowledged by the node that connects.
<1>11. ASSUME Acks(c, m)
      PROVE  d.snd = At(n, 0) /\ d.len = 0 /\ app[Active].sock \notin FreshSock
  <2>1. At(n, 0) = Add(Iss[n], 1)
    BY DEF At
  <2>2. d.snd = m.ack /\ d.len = 0 /\ m.ack = At(n, 0)
    BY <1>1, <1>4, <1>5, <1>11, <2>1 DEF Acked, Acks, UipConn
  <2>3. m \notin Stale
    <3>1. 0 \in 0 .. Total[n]
      BY Numbers
    <3> QED
      BY <2>2, <3>1 DEF StaleQuiet
  <2>4. ~QuietSeg(m)
    BY <1>3, <1>4, <1>11 DEF QuietSeg, Acks
  <2> QED
    BY <2>2, <2>3, <2>4 DEF WaitState, FreshRight
<1>12. ASSUME Acks(c, m), Appsend(n, d, a, TRUE, data)
       PROVE  accepted
  <2>1. WaitStep(n, d, a)
    BY <1>1, <1>4, <1>10, <1>11, <1>12 DEF WaitStep, FreshSock
  <2> QED
    BY <1>1, <1>4, <1>5, <1>6, <1>8, <1>11, <1>12, <2>1
<1>13. ASSUME Acks(c, m), NEW x \in Delivered(b, m.data),
              Appsend(n, d, x, x.sock = "PEER_ABORTED", data)
       PROVE  accepted
  <2>1. m.data # <<>> => m.seq = At(Peer(n), Len(b.got))
    <3>1. Len(b.got) = 0
      BY <1>4, <1>7, EmptySeq
    <3>2. "ACK" \in m.flags
      BY <1>13 DEF Acks
    <3>3. m.data # <<>> => m.seq = c.rcv
      BY <1>3, <3>2 DEF Acceptable
    <3> QED
      BY <1>4, <3>1, <3>3
  <2>2. /\ AppRight(n, x) /\ x.want = 0 /\ x.done = 0 /\ Len(a.got) <= Len(x.got)
        /\ GotRight(x, app[Peer(n)]) /\ x \in AppSock
        /\ x.sock # "PEER_ABORTED" => x.sock = "BUSY" /\ Len(x.got) = Len(b.got) + Len(m.data)
    <3>1. /\ AppRight(n, x) /\ x.want = b.want /\ x.done = b.done /\ Len(b.got) <= Len(x.got)
          /\ GotRight(x, app[Peer(n)])
          /\ x.sock # "PEER_ABORTED" => x.sock = b.sock /\ Len(x.got) = Len(b.got) + Len(m.data)
      BY <1>7, <1>13, <2>1, DeliveryRight
    <3> QED
      BY <1>7, <3>1 DEF AppRight
  <2>3. WaitRight(conn[Peer(n)], app[Peer(n)], x)
    BY <1>4, <1>7, <1>13, <2>1, DeliveryWait DEF EndedSock
  <2>4. d.rcv = At(Peer(n), Len(m.data))
    <3>1. 0 \in Nat /\ 0 + Len(m.data) = Len(m.data)
      BY <1>1
    <3> QED
      BY <1>1, <1>4, <1>5, <3>1, AtAdd
  <2>5. x.sock # "PEER_ABORTED" => ConnRight(n, d, x)
    <3>1. Len(b.got) = 0 /\ 0 + Len(m.data) = Len(m.data)
      BY <1>1, <1>4, <1>7, EmptySeq
    <3> QED
      BY <1>5, <1>11, <1>13, <2>2, <2>4, <3>1 DEF ConnRight
  <2>6. x.sock \in {"BUSY", "PEER_ABORTED"}
    BY <2>2
  <2>7. WaitStep(n, d, x)
    BY <1>4, <1>11, <1>13, <2>2, <2>3, <2>6 DEF WaitStep, FreshSock, EndedSock
  <2> DEFINE abort == x.sock = "PEER_ABORTED"
  <2>8. abort \in BOOLEAN /\ Appsend(n, d, x, abort, data)
    BY <1>13
  <2>9. ~abort => d.st = "ESTABLISHED" /\ ConnRight(n, d, x)
    BY <1>5, <2>5
  <2> HIDE DEF abort
  <2> QED
    BY <1>5, <1>6, <1>8, <1>11, <1>13, <2>2, <2>6, <2>7, <2>8, <2>9
<1>14. accepted \/ Become(n, c, a, {SynAckSeg(n, c)})
  BY <1>3, <1>12, <1>13
<1> QED
  BY <1>3, <1>4, <1>9, <1>14 DEF c

\* Nothing makes the node that connects answer before it has a rcv_nxt.
LEMMA SentQuiet ==
  ASSUME StaleApart, StaleQuiet, StreamState, WaitState, NEW n \in Nodes, NEW m \in net, m.to = n,
         OutOfSequence(n, m)
  PROVE  conn[n].st # "SYN_SENT"
<1> SUFFICES ASSUME conn[n].st = "SYN_SENT"
             PROVE  FALSE
  OBVIOUS
<1>1. n = Active /\ app[n].sock = "CONNECT" /\ n # Passive
  BY NodeAssumption DEF StreamState, ConnRight, WaitState, PhaseRight, Nodes
<1>2. ~Acceptable(conn[n], m) /\ "RST" \notin m.flags
  BY DEF OutOfSequence
<1>3. CASE m \in Stale
  <2>1. m.data = <<>> /\ "FIN" \notin m.flags /\ "SYN" \notin m.flags
    BY <1>1, <1>3 DEF StaleQuiet, StaleApart
  <2> QED
    BY <1>2, <2>1 DEF Acceptable
<1>4. CASE m \notin Stale
  <2>1. QuietSeg(m)
    BY <1>1, <1>4 DEF WaitState, FreshRight, FreshSock
  <2>2. m.data = <<>> /\ m.flags \in {{"SYN", "ACK"}, {"ACK"}}
    BY <1>1, <1>2, <2>1 DEF QuietSeg
  <2> QED
    BY <1>2, <2>2 DEF Acceptable
<1> QED
  BY <1>3, <1>4

\* A segment that comes
LEMMA WaitReceive ==
  ASSUME SeqWide, StaleApart, StaleQuiet, TcpTypes, StreamState, WaitState,
         NEW n \in Nodes, NEW m \in net, m.to = n, Receive(n, m)
  PROVE  WaitState'
<1> DEFINE c == conn[n]
           a == app[n]
           e == IF Acks(c, m) THEN AckedApp(a) ELSE a
<1>1. /\ c \in UipConn /\ AppRight(n, a) /\ a \in AppSock
      /\ ConnRight(n, c, a) /\ PhaseRight(n, c, a)
      /\ Peer(n) \in Nodes /\ Peer(Peer(n)) = n /\ Peer(n) # n
      /\ m \in Segment /\ m.data \in Seq(Nat) /\ Len(m.data) \in Nat
      /\ Len(a.got) \in Nat
  BY PeerNode, LenProperties DEF TcpTypes, StreamState, WaitState, Segment, AppSock
<1>2. "SYN" \in m.flags => m \notin Stale /\ m.seq = Iss[Peer(n)] /\ m.data = <<>>
  BY DEF StaleApart, StreamState, SegRight
<1>3. /\ Acked(c, m) \in UipConn /\ Acked(c, m).st = c.st /\ Acked(c, m).rcv = c.rcv
      /\ \A k \in Nat : [Acked(c, m) EXCEPT !.rcv = Add(c.rcv, k)] \in UipConn
  <2>1. \A k \in Nat : Add(c.rcv, k) \in Seqnos
    BY <1>1, AddSeq, SeqNat DEF UipConn
  <2> QED
    BY <1>1, <2>1, AckedType DEF Acked, UipConn
<1>len. /\ Len(m.data) + (IF "FIN" \in m.flags THEN 1 ELSE 0) \in Nat
        /\ 1 + Len(m.data) \in Nat /\ Add(m.seq, 1) \in Seqnos
  <2>1. Len(m.data) \in Nat /\ m.seq \in Nat /\ 1 \in Nat
    BY <1>1, SeqNat DEF Segment
  <2>2. Len(m.data) + 1 \in Nat /\ Len(m.data) + 0 \in Nat /\ 1 + Len(m.data) \in Nat
    BY <2>1
  <2> QED
    BY <2>1, <2>2, AddSeq
\* A state that keeps its socket
<1>4. ASSUME NEW d \in UipConn, NEW out, Become(n, d, a, out), PhaseRight(n, d, a),
             d.st = "ESTABLISHED" => d = c, FreshStep(n, d, a, out),
             \A r \in out : r.to = Peer(n) /\ SentRight(n, r, d, a) /\ AckRight(r, a)
      PROVE  WaitState'
  <2>1. WaitStep(n, d, a)
    BY <1>1, <1>4, StayStep
  <2> QED
    BY <1>1, <1>4, <2>1, WaitBecome
\* A connection that the socket no longer has
<1>5. ASSUME NEW d \in UipConn, NEW out, Become(n, d, a, out), c.st \in Closing,
             d.st \in Closing \cup {"CLOSED"}, \A r \in out : r = AckSeg(n, d)
      PROVE  WaitState'
  <2>1. a.sock \in EndedSock
    BY <1>1, <1>5 DEF PhaseRight
  <2>2. PhaseRight(n, d, a)
    BY <1>5, <2>1 DEF PhaseRight, Closing, EndedSock
  <2>3. FreshStep(n, d, a, out)
    BY <2>1, FreshOver DEF FreshSock, EndedSock
  <2>4. \A r \in out : r.to = Peer(n) /\ SentRight(n, r, d, a) /\ AckRight(r, a)
    <3>1. \A r \in {AckSeg(n, d), SynAckSeg(n, d), FinAckSeg(n, d)} :
            r.to = Peer(n) /\ SentRight(n, r, d, a) /\ AckRight(r, a)
      BY <2>1, SegsSay
    <3> QED
      BY <1>5, <3>1
  <2> QED
    BY <1>4, <1>5, <2>2, <2>3, <2>4 DEF Closing
<1> HIDE DEF c
<1>6. CASE Unwanted(n, m)
  <2>1. UNCHANGED <<conn, app>> /\ net' = net \cup ResetFor(m) /\ c.st = "CLOSED"
    BY <1>6 DEF Unwanted, c
  <2>2. Become(n, c, a, ResetFor(m))
    BY <2>1 DEF Become, c, TcpTypes
  <2>3. \A r \in ResetFor(m) : r = Rst(Peer(n))
    BY DEF ResetFor
  <2>4. \A r \in ResetFor(m) : r.to = Peer(n) /\ SentRight(n, r, c, a) /\ AckRight(r, a)
    BY <2>3, PlainSay
  <2>5. FreshStep(n, c, a, ResetFor(m))
    BY <2>1, <2>3 DEF FreshStep, QuietSeg, Rst, WaitState, FreshRight, c
  <2> QED
    BY <1>1, <1>4, <2>2, <2>4, <2>5
<1>7. CASE Opened(n, m)
  <2> DEFINE d == [st |-> "SYN_RCVD", snd |-> Iss[n], rcv |-> Add(m.seq, 1), len |-> 1, nrtx |-> 0]
  <2>1. /\ n = Passive /\ listening /\ "SYN" \in m.flags
        /\ Become(n, d, a, {SynAckSeg(n, d)})
    BY <1>7 DEF Opened
  <2>2. a.sock = "NULL"
    BY <2>1 DEF StreamState
  <2>3. d.st = "SYN_RCVD" /\ d.rcv = At(Peer(n), 0)
    BY <1>2, <2>1 DEF At
  <2>4. d \in UipConn
    <3>1. Add(m.seq, 1) \in Seqnos /\ Iss[n] \in Seqnos /\ 1 \in 0 .. MSS + 1 /\ 0 \in 0 .. MaxRtx
      BY <1>len, Numbers
    <3> QED
      BY <3>1 DEF UipConn, States
  <2> HIDE DEF d
  <2>5. \A r \in {SynAckSeg(n, d)} : r.to = Peer(n) /\ SentRight(n, r, d, a) /\ AckRight(r, a)
    <3>1. 0 \in 0 .. Len(a.got)
      BY <1>1
    <3> QED
      BY <2>3, <3>1, SegsSay
  <2>6. n # Active
    BY <2>1, NodeAssumption
  <2>7. PhaseRight(n, d, a)
    BY <2>2, <2>3, <2>6 DEF PhaseRight, Closing
  <2>8. QuietSeg(SynAckSeg(n, d))
    BY <1>1, <2>1 DEF QuietSeg, SynAckSeg, Seg
  <2>9. FreshStep(n, d, a, {SynAckSeg(n, d)})
    BY <2>2, <2>3, <2>8 DEF FreshStep
  <2> QED
    BY <1>4, <2>1, <2>3, <2>4, <2>5, <2>7, <2>9
<1>8. CASE Reset(n, m)
  <2> DEFINE d == [c EXCEPT !.st = "CLOSED"]
  <2>1. c.st # "CLOSED" /\ Become(n, d, Ended(a, "PEER_ABORTED"), {})
    BY <1>8 DEF Reset, c
  <2>2. d \in UipConn /\ d.st = "CLOSED"
    BY <1>1 DEF UipConn, States
  <2> HIDE DEF d
  <2> QED
    BY <2>1, <2>2, AbortWait DEF c
<1>9. CASE OutOfSequence(n, m)
  <2>1. PICK r : /\ c.st # "CLOSED" /\ Become(n, c, a, {r}) /\ ~Acceptable(c, m) /\ "RST" \notin m.flags
                 /\ \/ c.st = "SYN_RCVD" /\ r = SynAckSeg(n, c)
                    \/ c.st = "SYN_SENT"
                    \/ r = AckSeg(n, c)
    BY <1>9 DEF OutOfSequence, c
  <2>2. c.st # "SYN_SENT"
    BY <1>9, SentQuiet DEF c
  <2>3. CASE c.st = "SYN_RCVD"
    <3>1. n = Passive /\ a.sock = "NULL" /\ c.rcv = At(Peer(n), 0) /\ r \in {SynAckSeg(n, c), AckSeg(n, c)}
      BY <1>1, <2>1, <2>3 DEF PhaseRight, ConnRight, Nodes
    <3>2. QuietSeg(r)
      BY <1>1, <3>1 DEF QuietSeg, SynAckSeg, AckSeg, Seg
    <3>3. FreshStep(n, c, a, {r})
      BY <2>3, <3>1, <3>2 DEF FreshStep
    <3>4. 0 \in 0 .. Len(a.got)
      BY <1>1
    <3>5. r.to = Peer(n) /\ SentRight(n, r, c, a) /\ AckRight(r, a)
      BY <3>1, <3>4, SegsSay
    <3> QED
      BY <1>1, <1>4, <2>1, <3>3, <3>5
  <2>4. CASE c.st # "SYN_RCVD"
    <3>1. c.st \in Closing \cup {"ESTABLISHED"} /\ r = AckSeg(n, c)
      BY <1>1, <2>1, <2>2, <2>4 DEF UipConn, States
    <3>2. a.sock \notin FreshSock /\ (a.sock \in EndedSock \/ c.rcv = At(Peer(n), Len(a.got)))
      BY <1>1, <3>1 DEF PhaseRight, ConnRight, FreshSock, EndedSock
    <3>3. Len(a.got) \in 0 .. Len(a.got)
      BY <1>1
    <3>4. r.to = Peer(n) /\ SentRight(n, r, c, a) /\ AckRight(r, a)
      BY <3>1, <3>2, <3>3, SegsSay, Zenon
    <3>5. FreshStep(n, c, a, {r})
      BY <3>2, FreshOver DEF FreshSock
    <3> QED
      BY <1>1, <1>4, <2>1, <3>4, <3>5
  <2> QED
    BY <2>3, <2>4
<1>10. CASE LastAck(n, m) \/ ClosingAcked(n, m)
  <2>1. PICK st \in {"CLOSED", "TIME_WAIT"} :
          Become(n, [Acked(c, m) EXCEPT !.st = st], a, {}) /\ c.st \in Closing
    BY <1>10 DEF LastAck, ClosingAcked, InState, Closing, c
  <2> DEFINE d == [Acked(c, m) EXCEPT !.st = st]
  <2>2. d \in UipConn /\ d.st = st
    BY <1>3, <2>1 DEF UipConn, States, Closing
  <2>3. Become(n, d, a, {})
    BY <2>1
  <2> HIDE DEF d
  <2> QED
    BY <1>5, <2>1, <2>2, <2>3 DEF Closing
<1>11. CASE FinWait1(n, m)
  <2>1. PICK k \in Nat, st \in Closing :
          Become(n, [Acked(c, m) EXCEPT !.rcv = Add(c.rcv, k), !.st = st], a, {})
          \/ LET d == [Acked(c, m) EXCEPT !.rcv = Add(c.rcv, k), !.st = st]
             IN  Become(n, d, a, {AckSeg(n, d)})
    <3>1. Len(m.data) + (IF "FIN" \in m.flags THEN 1 ELSE 0) \in Nat
      BY <1>len
    <3>2. Acked(c, m).st = "FIN_WAIT_1" /\ Acked(c, m) \in UipConn /\ Acked(c, m).rcv = c.rcv
      BY <1>3, <1>11 DEF FinWait1, InState, c
    <3> QED
      BY <1>11, <3>1, <3>2, Zenon DEF FinWait1, Closing, c
  <2> DEFINE d == [Acked(c, m) EXCEPT !.rcv = Add(c.rcv, k), !.st = st]
  <2>2. d \in UipConn /\ d.st \in Closing
    BY <1>3, <2>1 DEF UipConn, States
  <2>3. Become(n, d, a, {}) \/ Become(n, d, a, {AckSeg(n, d)})
    BY <2>1
  <2>4. c.st \in Closing
    BY <1>11 DEF FinWait1, InState, Closing, c
  <2> HIDE DEF d
  <2> QED
    BY <1>5, <2>2, <2>3, <2>4
<1>12. CASE FinWait2(n, m) \/ TimeWait(n, m)
  <2>1. PICK d \in UipConn : d.st \in Closing /\ c.st \in Closing /\ Become(n, d, a, {AckSeg(n, d)})
    <3>1. CASE FinWait2(n, m)
      <4> DEFINE fin == "FIN" \in m.flags
                 d == [c EXCEPT !.rcv = Add(@, Len(m.data) + IF fin THEN 1 ELSE 0),
                                !.st = IF fin THEN "TIME_WAIT" ELSE @]
      <4>1. c.st = "FIN_WAIT_2" /\ Become(n, d, a, {AckSeg(n, d)})
        BY <3>1 DEF FinWait2, InState, c
      <4>2. Add(c.rcv, Len(m.data) + IF fin THEN 1 ELSE 0) \in Seqnos
        <5>1. Len(m.data) + (IF fin THEN 1 ELSE 0) \in Nat
          BY <1>len
        <5> QED
          BY <1>1, <5>1, AddSeq, SeqNat DEF UipConn
      <4>3. d \in UipConn /\ d.st \in Closing
        BY <1>1, <4>1, <4>2 DEF UipConn, States, Closing
      <4> QED
        BY <4>1, <4>3 DEF Closing
    <3>2. CASE TimeWait(n, m)
      BY <1>1, <3>2 DEF TimeWait, InState, Closing, c
    <3> QED
      BY <1>12, <3>1, <3>2
  <2> QED
    BY <1>5, <2>1
<1>13. CASE SynSent(n, m)
  <2> DEFINE d == [Acked(c, m) EXCEPT !.st = "ESTABLISHED", !.rcv = Add(m.seq, 1), !.nrtx = 0]
             f == [Acked(c, m) EXCEPT !.st = "CLOSED"]
             b == [a EXCEPT !.sock = "BUSY"]
  <2>1. /\ c.st = "SYN_SENT"
        /\ \/ Acks(c, m) /\ "SYN" \in m.flags /\ Become(n, d, b, {AckSeg(n, d)})
           \/ Become(n, f, Ended(a, "PEER_ABORTED"), ResetFor(m))
    BY <1>13 DEF SynSent, InState, c
  <2>2. f \in UipConn /\ f.st = "CLOSED"
    BY <1>3 DEF UipConn, States
  <2>3. /\ d.st = "ESTABLISHED" /\ d.rcv = Add(m.seq, 1) /\ d.len = Acked(c, m).len
    BY <1>3 DEF UipConn
  <2>4. d \in UipConn
    <3>1. Add(m.seq, 1) \in Seqnos /\ 0 \in 0 .. MaxRtx
      BY <1>len, Numbers
    <3> QED
      BY <1>3, <3>1 DEF UipConn, States
  <2>5. /\ b \in AppSock /\ b.sock = "BUSY" /\ b.done = a.done /\ b.got = a.got
    BY <1>1 DEF AppSock, Socks
  <2>6. n = Active /\ a.sock = "CONNECT" /\ a.done = 0
    BY <1>1, <2>1 DEF PhaseRight, ConnRight, Nodes
  <2> HIDE DEF d, f, b
  <2>7. CASE Acks(c, m) /\ "SYN" \in m.flags /\ Become(n, d, b, {AckSeg(n, d)})
    <3>1. d.len = 0
      BY <1>1, <2>3, <2>7 DEF Acked, UipConn
    <3>2. d.rcv = At(Peer(n), 0) /\ 0 \in 0 .. Len(b.got)
      BY <1>1, <1>2, <2>3, <2>5, <2>7 DEF At
    <3>3. PhaseRight(n, d, b)
      BY <2>3, <2>5 DEF PhaseRight, Closing
    <3>4. WaitRight(conn[Peer(n)], app[Peer(n)], b)
      <4>1. WaitRight(conn[Peer(n)], app[Peer(n)], a)
        BY <1>1 DEF WaitState
      <4> QED
        BY <2>5, <2>6, <4>1 DEF WaitRight, EndedSock
    <3>5. WaitStep(n, d, b)
      BY <1>1, <2>5, <2>6, <3>1, <3>4 DEF WaitStep, FreshSock, EndedSock
    <3>6. FreshStep(n, d, b, {AckSeg(n, d)})
      BY <2>5, <2>6, FreshOver DEF FreshSock
    <3>7. \A r \in {AckSeg(n, d)} : r.to = Peer(n) /\ SentRight(n, r, d, b) /\ AckRight(r, b)
      <4>1. \A r \in {AckSeg(n, d), SynAckSeg(n, d), FinAckSeg(n, d)} :
              r.to = Peer(n) /\ SentRight(n, r, d, b) /\ AckRight(r, b)
        BY <3>2, SegsSay
      <4> QED
        BY <4>1
    <3> QED
      BY <2>4, <2>5, <2>7, <3>3, <3>5, <3>6, <3>7, WaitBecome
  <2>8. CASE Become(n, f, Ended(a, "PEER_ABORTED"), ResetFor(m))
    <3>1. \A r \in ResetFor(m) : r = Rst(Peer(n))
      BY DEF ResetFor
    <3> QED
      BY <2>1, <2>2, <2>8, <3>1, AbortWait DEF c
  <2> QED
    BY <2>1, <2>7, <2>8
<1>14. CASE SynRcvd(n, m)
  <2>1. /\ n = Passive /\ n # Active /\ c.st = "SYN_RCVD" /\ a.sock = "NULL"
        /\ c.rcv = At(Peer(n), 0)
    BY <1>14, SynRcvdWait DEF c
  <2>2. CASE Become(n, c, a, {SynAckSeg(n, c)})
    <3>1. QuietSeg(SynAckSeg(n, c))
      BY <1>1, <2>1 DEF QuietSeg, SynAckSeg, Seg
    <3>2. FreshStep(n, c, a, {SynAckSeg(n, c)})
      BY <2>1, <3>1 DEF FreshStep
    <3>3. 0 \in 0 .. Len(a.got)
      BY <1>1
    <3>4. \A r \in {SynAckSeg(n, c)} : r.to = Peer(n) /\ SentRight(n, r, c, a) /\ AckRight(r, a)
      BY <2>1, <3>3, SegsSay
    <3> QED
      BY <1>1, <1>4, <2>2, <3>2, <3>4
  <2>3. CASE ~Become(n, c, a, {SynAckSeg(n, c)})
    <3>1. PICK d \in UipConn, x \in AppSock, abort \in BOOLEAN, newdata \in BOOLEAN :
            /\ Appsend(n, d, x, abort, newdata) /\ d.st = "ESTABLISHED" /\ AppRight(n, x)
            /\ ~abort => ConnRight(n, d, x)
            /\ WaitStep(n, d, x) /\ x.sock \in {"NULL", "BUSY", "PEER_ABORTED"}
            /\ app[Active].sock \notin FreshSock
      BY <1>14, <2>3, SynRcvdWait DEF c
    <3> QED
      BY <2>1, <3>1, WaitAppsend
  <2> QED
    BY <2>2, <2>3
<1>15. ASSUME c.st = "ESTABLISHED", Acceptable(c, m), "RST" \notin m.flags,
              NEW b \in IF m.data = <<>> THEN {e} ELSE Delivered(e, m.data)
       PROVE  /\ AppRight(n, b) /\ b.sock \notin {"NULL", "CONNECT"}
              /\ b.sock # "PEER_ABORTED" =>
                   ConnRight(n, [Acked(c, m) EXCEPT !.rcv = Add(@, Len(m.data))], b)
              /\ WaitStep(n, [Acked(c, m) EXCEPT !.rcv = Add(@, Len(m.data))], b)
              /\ b.sock = "WRITING" => a.sock = "WRITING"
              /\ a.sock \notin FreshSock /\ a.sock \notin EndedSock
              /\ n = Passive => app[Active].sock \notin FreshSock
  BY <1>15, EstablishedRight, EstablishedWait DEF c
<1>16. CASE EstablishedFin(n, m)
  <2> DEFINE d == [Acked(c, m) EXCEPT !.st = "LAST_ACK", !.rcv = Add(@, 1 + Len(m.data)),
                                      !.len = 1, !.nrtx = 0]
             g == [Acked(c, m) EXCEPT !.rcv = Add(@, Len(m.data))]
  <2>1. PICK b \in IF m.data = <<>> THEN {e} ELSE Delivered(e, m.data) :
          /\ c.st = "ESTABLISHED" /\ Acceptable(c, m) /\ "RST" \notin m.flags
          /\ Become(n, d, Ended(b, "PEER_CLOSED"), {FinAckSeg(n, d)})
    BY <1>16 DEF EstablishedFin, InState, c
  <2>2. /\ AppRight(n, b) /\ b.sock \notin {"NULL", "CONNECT"} /\ WaitStep(n, g, b)
        /\ a.sock \notin FreshSock /\ a.sock \notin EndedSock
    BY <1>15, <2>1
  <2>3. d.st = "LAST_ACK" /\ d \in UipConn
    <3>1. Add(c.rcv, 1 + Len(m.data)) \in Seqnos /\ 1 \in 0 .. MSS + 1 /\ 0 \in 0 .. MaxRtx
      <4>1. 1 + Len(m.data) \in Nat /\ c.rcv \in Nat
        BY <1>1, <1>len, SeqNat DEF UipConn
      <4>2. Add(c.rcv, 1 + Len(m.data)) \in Seqnos
        BY <4>1, AddSeq
      <4> QED
        BY <4>2, Numbers
    <3> QED
      BY <1>3, <3>1 DEF UipConn, States, Closing
  <2> DEFINE x == Ended(b, "PEER_CLOSED")
  <2>4. /\ x.sock \in EndedSock /\ x.got = b.got /\ x.done = b.done /\ x \in AppSock
    BY <2>2 DEF Ended, AppRight, AppSock, Socks, EndedSock
  <2> HIDE DEF d, e, g
  <2>5. Become(n, d, x, {FinAckSeg(n, d)})
    BY <2>1
  <2> HIDE DEF x
  <2>6. PhaseRight(n, d, x)
    BY <2>3, <2>4 DEF PhaseRight, EndedSock
  <2>7. WaitStep(n, d, x)
    <3>1. WaitRight(conn[Peer(n)], app[Peer(n)], x) /\ Len(a.got) <= Len(x.got)
      BY <2>2, <2>4 DEF WaitStep, WaitRight
    <3> QED
      BY <2>2, <2>3, <2>4, <3>1 DEF WaitStep, FreshSock, EndedSock
  <2>8. FreshStep(n, d, x, {FinAckSeg(n, d)})
    BY <2>2, <2>4, FreshOver DEF FreshSock, EndedSock
  <2>9. \A r \in {FinAckSeg(n, d)} : r.to = Peer(n) /\ SentRight(n, r, d, x) /\ AckRight(r, x)
    BY <2>4, SegsSay
  <2> QED
    BY <2>3, <2>4, <2>5, <2>6, <2>7, <2>8, <2>9, WaitBecome
<1>17. CASE EstablishedData(n, m)
  <2> DEFINE d == [Acked(c, m) EXCEPT !.rcv = Add(@, Len(m.data))]
             data == m.data # <<>>
  <2>1. PICK b \in IF m.data = <<>> THEN {e} ELSE Delivered(e, m.data) :
          /\ c.st = "ESTABLISHED" /\ Acceptable(c, m) /\ "RST" \notin m.flags
          /\ Appsend(n, d, b, b.sock = "PEER_ABORTED", data)
    BY <1>17 DEF EstablishedData, InState, c
  <2>2. /\ AppRight(n, b) /\ b.sock \notin {"NULL", "CONNECT"}
        /\ b.sock # "PEER_ABORTED" => ConnRight(n, d, b)
        /\ WaitStep(n, d, b) /\ (b.sock = "WRITING" => a.sock = "WRITING")
        /\ n = Passive => app[Active].sock \notin FreshSock
    BY <1>15, <2>1
  <2>3. d.st = "ESTABLISHED" /\ d \in UipConn
    BY <1>1, <1>3, <2>1 DEF UipConn
  <2> DEFINE abort == b.sock = "PEER_ABORTED"
  <2>4. data \in BOOLEAN /\ abort \in BOOLEAN
    OBVIOUS
  <2>5. Appsend(n, d, b, abort, data)
    BY <2>1
  <2> HIDE DEF d, e, data
  <2>6. ~abort => d.st = "ESTABLISHED" /\ ConnRight(n, d, b)
    BY <2>2, <2>3
  <2>7. b.sock # "CONNECT" /\ (n = Active => b.sock # "NULL")
    BY <2>2
  <2> HIDE DEF abort
  <2> QED
    BY <2>2, <2>3, <2>4, <2>5, <2>6, <2>7, WaitAppsend
<1> QED
  BY <1>6, <1>7, <1>8, <1>9, <1>10, <1>11, <1>12, <1>13, <1>14, <1>16, <1>17 DEF Receive

\* So does every step.
LEMMA WaitNext ==
  SeqWide /\ StaleApart /\ StaleQuiet /\ TcpTypes /\ StreamState /\ WaitState /\ [Next]_vars
    => WaitState'
<1>1. ASSUME WaitState, UNCHANGED vars
      PROVE  WaitState'
  BY <1>1 DEF vars, WaitState, FreshRight
<1> QED
  BY <1>1, WaitTimer, WaitReceive, Numbers DEF Next

\* It says what StopAndWait says.
LEMMA StopAndWaitState ==
  ASSUME TcpTypes, StreamState, WaitState
  PROVE  StopAndWait
<1> SUFFICES ASSUME \A n \in Nodes : conn[n].st = "ESTABLISHED", NEW n \in Nodes
             PROVE  conn[Peer(n)].rcv \in {conn[n].snd, Add(conn[n].snd, conn[n].len)}
  BY DEF StopAndWait
<1> DEFINE p == Peer(n)
<1>1. /\ p \in Nodes /\ Peer(p) = n /\ ConnRight(n, conn[n], app[n]) /\ ConnRight(p, conn[p], app[p])
      /\ WaitRight(conn[n], app[n], app[p]) /\ conn[p].st = "ESTABLISHED"
      /\ app[n].done \in Nat /\ conn[n].len \in Nat
  BY PeerNode DEF TcpTypes, StreamState, WaitState, AppSock, UipConn
<1>2. /\ conn[n].snd = At(n, app[n].done) /\ conn[p].rcv = At(n, Len(app[p].got))
      /\ app[p].sock \notin EndedSock
  BY <1>1 DEF ConnRight, EndedSock
<1>3. Len(app[p].got) \in {app[n].done, app[n].done + conn[n].len}
  BY <1>1, <1>2 DEF WaitRight
<1>4. Add(conn[n].snd, conn[n].len) = At(n, app[n].done + conn[n].len)
  BY <1>1, <1>2, AtAdd
<1> QED
  BY <1>2, <1>3, <1>4

\* Under the same conditions, and when no segment of an earlier connection acknowledges
\* anything of this one or makes the node that connects answer before it has a rcv_nxt,
\* what an end expects is the first byte that the other has outstanding or the one after
\* the last: one segment is under way, over the wrap of sequence numbers too.
THEOREM StopAndWaitAlways ==
  ASSUME SeqWide, StaleApart, StaleQuiet
  PROVE  Spec => []StopAndWait
<1>1. Init => StreamState /\ WaitState
  BY StreamInit, WaitInit
<1>2. TcpTypes /\ StreamState /\ WaitState /\ [Next]_vars => StreamState' /\ WaitState'
  BY StreamNext, WaitNext
<1>3. TcpTypes /\ StreamState /\ WaitState => StopAndWait
  BY StopAndWaitState
<1> QED
  BY <1>1, <1>2, <1>3, TypesAlways, PTL DEF Spec

-----------------------------------------------------------------------------
(* The two sockets get what a TCP connection promises *)

\* How a socket ended, as TcpStream sees it
Up(a) ==
  CASE a.sock = "CLOSE_OK" -> "closed"
    [] a.sock = "PEER_CLOSED" -> "eof"
    [] a.sock = "PEER_ABORTED" -> "broken"
    [] OTHER -> "open"

\* A step that confirms, reads and ends nothing is no step of the abstract stream.
LEMMA Stutters ==
  ASSUME TcpTypes, NEW n \in Nodes, NEW c, NEW a \in AppSock, NEW out, Become(n, c, a, out),
         a.want = app[n].want, a.done = app[n].done, Len(a.got) = Len(app[n].got),
         Up(a) = Up(app[n])
  PROVE  UNCHANGED Stream!vars
<1>1. \A p \in Nodes : /\ app'[p].want = app[p].want /\ app'[p].done = app[p].done
                       /\ Len(app'[p].got) = Len(app[p].got) /\ Up(app'[p]) = Up(app[p])
  BY DEF Become, TcpTypes
<1> QED
  BY <1>1 DEF Stream!vars, Up

\* A step that confirms what was read, reads what was written, or ends as the abstract
\* stream may, is a step of it.
LEMMA Serves ==
  ASSUME TcpTypes, NEW n \in Nodes, NEW c, NEW a \in AppSock, NEW out, Become(n, c, a, out),
         a.want = app[n].want, Up(app[n]) = "open", a.done \in app[n].done .. app[n].want,
         a.done # app[n].done => a.done <= Len(app[Peer(n)].got) \/ Up(app[Peer(n)]) # "open",
         Len(a.got) \in Len(app[n].got) .. app[Peer(n)].want,
         Up(a) \in {"open", "broken", "eof"},
         Up(a) = "eof" => Up(app[Peer(n)]) = "closed" /\ Len(a.got) = app[Peer(n)].want
  PROVE  Stream!Next
<1> DEFINE want == [p \in Nodes |-> app[p].want]
           done == [p \in Nodes |-> app[p].done]
           got == [p \in Nodes |-> Len(app[p].got)]
           up == [p \in Nodes |-> Up(app[p])]
<1>1. Peer(n) \in Nodes
  BY PeerNode
<1>2. /\ app'[n] = a /\ \A p \in Nodes : p # n => app'[p] = app[p]
  BY DEF Become, TcpTypes
<1>3. want' = want /\ done' = [done EXCEPT ![n] = a.done]
  BY <1>2
<1>4. got' = [got EXCEPT ![n] = Len(a.got)]
  BY <1>2
<1>5. up' = [up EXCEPT ![n] = Up(a)]
  BY <1>2
<1>6. /\ up[n] = "open"
      /\ a.done \in done[n] .. want[n]
      /\ a.done # done[n] => a.done <= got[Peer(n)] \/ up[Peer(n)] # "open"
      /\ Len(a.got) \in got[n] .. want[Peer(n)] /\ got'[n] = Len(a.got)
      /\ Up(a) \in {"open", "broken", "eof"}
      /\ Up(a) = "eof" => up[Peer(n)] = "closed" /\ got'[n] = want[Peer(n)]
  BY <1>1, <1>2
<1> DEFINE serve ==
      /\ up[n] = "open"
      /\ \E d \in done[n] .. want[n] :
           /\ d # done[n] => d <= got[Peer(n)] \/ up[Peer(n)] # "open"
           /\ done' = [done EXCEPT ![n] = d]
      /\ \E g \in got[n] .. want[Peer(n)] : got' = [got EXCEPT ![n] = g]
      /\ \E u \in {"open", "broken", "eof"} :
           /\ u = "eof" => up[Peer(n)] = "closed" /\ got'[n] = want[Peer(n)]
           /\ up' = [up EXCEPT ![n] = u]
      /\ want' = want
<1>7. serve
  <2> HIDE DEF want, done, got, up
  <2> QED
    BY <1>3, <1>4, <1>5, <1>6
<1>8. Stream!Serve(n)
  BY <1>7 DEF Stream!Serve, Up
<1> QED
  BY <1>8 DEF Stream!Next

\* No segment of an earlier connection ends the stream of this one.
StaleNoEnd == \A m \in Stale :
  "FIN" \in m.flags => \A k \in 0 .. Total[Peer(m.to)] : m.seq # At(Peer(m.to), k)

\* A socket that may write or close has nothing to wait for.  A FIN that n, with
\* socket a, may have to send again comes behind all that it wrote, or the peer,
\* with socket b, was the first to close.
EndRight(n, c, a, b) ==
  /\ a.sock \in {"BUSY", "CLOSE"} => a.done = a.want
  /\ c.st \in Closing /\ c.len > 0 =>
       (a.sock = "CLOSE_OK" /\ c.snd = At(n, a.want)) \/ b.sock \in EndedSock

\* The same of a FIN of n
FinRight(n, m, a, b) ==
  "FIN" \in m.flags =>
    /\ m.data = <<>> /\ a.sock \in EndedSock
    /\ (a.sock = "CLOSE_OK" /\ m.seq = At(n, a.want)) \/ b.sock \in EndedSock

EndState ==
  /\ \A n \in Nodes : EndRight(n, conn[n], app[n], app[Peer(n)])
  /\ \A m \in net : m \in Stale \/ FinRight(Peer(m.to), m, app[Peer(m.to)], app[m.to])

\* A step of the network thread or a task is one of the connection, or none.
StreamStep == Stream!Next \/ UNCHANGED Stream!vars

\* A step keeps the invariant of ends, if the end that it changes and the segments it
\* sends do.
LEMMA EndBecome ==
  ASSUME TcpTypes, EndState, NEW n \in Nodes, NEW c, NEW a \in AppSock, NEW out, Become(n, c, a, out),
         EndRight(n, c, a, app[Peer(n)]),
         app[n].sock \in EndedSock => a.sock = app[n].sock /\ a.want = app[n].want,
         \A r \in out : r.to = Peer(n) /\ FinRight(n, r, a, app[Peer(n)])
  PROVE  EndState'
<1> DEFINE p == Peer(n)
<1>1. /\ conn' = [conn EXCEPT ![n] = c] /\ app' = [app EXCEPT ![n] = a] /\ net' = net \cup out
      /\ p \in Nodes /\ Peer(p) = n /\ p # n /\ n \in Nodes
      /\ DOMAIN conn = Nodes /\ DOMAIN app = Nodes /\ net \subseteq Segment
  BY PeerNode DEF Become, TcpTypes
<1>2. conn'[n] = c /\ app'[n] = a /\ conn'[p] = conn[p] /\ app'[p] = app[p]
  BY <1>1
<1>3. \A q \in Nodes : q = n \/ q = p
  BY DEF Nodes, Peer
<1>4. EndRight(p, conn[p], app[p], a)
  <2>1. EndRight(p, conn[p], app[p], app[n])
    BY <1>1 DEF EndState
  <2> QED
    BY <2>1 DEF EndRight
<1>5. ASSUME NEW m \in net', m \notin Stale
      PROVE  FinRight(Peer(m.to), m, app'[Peer(m.to)], app'[m.to])
  <2>1. CASE m \in out
    BY <1>1, <1>2, <2>1
  <2>2. CASE m \in net /\ m.to = p
    <3>1. FinRight(n, m, app[n], app[p])
      BY <1>1, <1>5, <2>2 DEF EndState
    <3>2. FinRight(n, m, a, app[p])
      BY <3>1 DEF FinRight
    <3> QED
      BY <1>1, <1>2, <2>2, <3>2
  <2>3. CASE m \in net /\ m.to = n
    <3>1. FinRight(p, m, app[p], app[n])
      BY <1>5, <2>3 DEF EndState
    <3>2. FinRight(p, m, app[p], a)
      BY <3>1 DEF FinRight
    <3> QED
      BY <1>2, <2>3, <3>2
  <2>4. m \in net => m.to \in Nodes
    BY <1>1 DEF Segment
  <2> QED
    BY <1>1, <1>3, <2>1, <2>2, <2>3, <2>4
<1>6. \A q \in Nodes : EndRight(q, conn'[q], app'[q], app'[Peer(q)])
  BY <1>1, <1>2, <1>3, <1>4
<1> QED
  BY <1>5, <1>6 DEF EndState

\* The socket stays as it was.
LEMMA StayEnd ==
  ASSUME TcpTypes, EndState, NEW n \in Nodes, NEW c, NEW out, Become(n, c, app[n], out),
         EndRight(n, c, app[n], app[Peer(n)]),
         \A r \in out : r.to = Peer(n) /\ FinRight(n, r, app[n], app[Peer(n)])
  PROVE  EndState' /\ StreamStep
<1>1. app[n] \in AppSock
  BY DEF TcpTypes
<1>2. EndState'
  BY <1>1, EndBecome
<1>3. UNCHANGED Stream!vars
  BY <1>1, Stutters
<1> QED
  BY <1>2, <1>3 DEF StreamStep

\* An abort keeps it, and is a step of the abstract stream.
LEMMA AbortEnd ==
  ASSUME TcpTypes, StreamState, EndState, NEW n \in Nodes, NEW c, c.st = "CLOSED", NEW out,
         Become(n, c, Ended(app[n], "PEER_ABORTED"), out), \A r \in out : r = Rst(Peer(n))
  PROVE  EndState' /\ StreamStep
<1> DEFINE a == Ended(app[n], "PEER_ABORTED")
<1>1. /\ app[n] \in AppSock /\ AppRight(n, app[n]) /\ GotRight(app[n], app[Peer(n)])
      /\ Len(app[n].got) \in Nat /\ app[Peer(n)].want \in Nat
  BY PeerNode, LenProperties DEF TcpTypes, StreamState, AppSock
<1>2. /\ a \in AppSock /\ a.got = app[n].got /\ a.done = app[n].done /\ a.want = app[n].want
      /\ \/ a = app[n] /\ app[n].sock \in {"NULL"} \cup EndedSock
         \/ a.sock = "PEER_ABORTED" /\ app[n].sock \in {"CONNECT", "BUSY", "WRITING", "CLOSE"}
  BY <1>1 DEF Ended, AppSock, Socks, EndedSock
<1> HIDE DEF a
<1>3. EndRight(n, c, a, app[Peer(n)])
  BY <1>2 DEF EndRight, Closing, EndedSock
<1>4. \A r \in out : r.to = Peer(n) /\ FinRight(n, r, a, app[Peer(n)])
  BY DEF Rst, FinRight
<1>5. Become(n, c, a, out)
  BY DEF a
<1>6. EndState'
  BY <1>2, <1>3, <1>4, <1>5, EndBecome DEF EndedSock
<1>7. CASE a = app[n]
  <2>1. UNCHANGED Stream!vars
    BY <1>1, <1>5, <1>7, Stutters
  <2> QED
    BY <1>6, <2>1 DEF StreamStep
<1>8. CASE a.sock = "PEER_ABORTED" /\ app[n].sock \in {"CONNECT", "BUSY", "WRITING", "CLOSE"}
  <2>1. Up(app[n]) = "open" /\ Up(a) = "broken"
    BY <1>8 DEF Up
  <2>2. a.done \in app[n].done .. app[n].want
    BY <1>1, <1>2 DEF AppRight, AppSock
  <2>3. Len(a.got) \in Len(app[n].got) .. app[Peer(n)].want
    BY <1>1, <1>2 DEF GotRight
  <2>4. Stream!Next
    BY <1>2, <1>5, <2>1, <2>2, <2>3, Serves
  <2> QED
    BY <1>6, <2>4 DEF StreamStep
<1> QED
  BY <1>2, <1>6, <1>7, <1>8

\* What is confirmed has been read, or nobody reads any more.
LEMMA DoneStep ==
  ASSUME TcpTypes, StreamState, NEW n \in Nodes, NEW c, NEW a, WaitStep(n, c, a),
         c.st = "ESTABLISHED", AppRight(n, a), a.want = app[n].want
  PROVE  /\ a.done \in app[n].done .. app[n].want
         /\ a.done # app[n].done => a.done <= Len(app[Peer(n)].got) \/ Up(app[Peer(n)]) # "open"
<1>1. /\ a.done \in Nat /\ a.done <= app[n].want /\ app[n].want \in Nat /\ app[n].done \in Nat
      /\ conn[n].len \in Nat /\ app[n].done <= app[n].want
      /\ app[n].sock \in FreshSock => app[n].done = 0
  BY DEF AppRight, AppSock, TcpTypes, UipConn, StreamState, ConnRight, FreshSock
<1>2. Len(app[Peer(n)].got) \in Nat
  BY PeerNode, LenProperties DEF TcpTypes, AppSock
<1>3. app[Peer(n)].sock \in EndedSock => Up(app[Peer(n)]) # "open"
  BY DEF EndedSock, Up
<1> DEFINE g == Len(app[Peer(n)].got)
           up == Up(app[Peer(n)])
           ended == app[Peer(n)].sock \in EndedSock
           x == app[n].done
           l == conn[n].len
<1>4. \/ a.done = x
      \/ a.done = x + l /\ (l = 0 \/ ended \/ g = a.done)
  <2>1. CASE app[n].sock \in FreshSock /\ a.done = 0 /\ c.len = 0
    BY <1>1, <2>1
  <2>2. CASE conn[n].st = "ESTABLISHED" /\ a.done = app[n].done /\ c.len = conn[n].len
    BY <2>2
  <2>3. CASE /\ conn[n].st = "ESTABLISHED" /\ a.done = app[n].done + conn[n].len
             /\ \/ conn[n].len = 0 \/ app[Peer(n)].sock \in EndedSock
                \/ Len(app[Peer(n)].got) = a.done
    BY <2>3
  <2> QED
    BY <2>1, <2>2, <2>3 DEF WaitStep
<1>5. ended => up # "open"
  BY <1>3
<1> HIDE DEF g, up, ended, x, l
<1>6. x \in Nat /\ l \in Nat /\ g \in Nat /\ x <= app[n].want
  BY <1>1, <1>2 DEF x, l, g
<1>7. x <= a.done
  BY <1>1, <1>4, <1>6
<1>8. a.done # x => a.done <= g \/ up # "open"
  <2>1. g <= g /\ x + 0 = x
    BY <1>6
  <2> QED
    BY <1>4, <1>5, <2>1
<1>9. a.done \in x .. app[n].want
  BY <1>1, <1>6, <1>7
<1> QED
  BY <1>8, <1>9 DEF x, g, up

\* So does uip_appsend, and is one.
LEMMA AppsendEnd ==
  ASSUME TcpTypes, StreamState, EndState, NEW n \in Nodes, NEW c \in UipConn, NEW a, AppRight(n, a),
         NEW abort \in BOOLEAN, NEW newdata \in BOOLEAN, Appsend(n, c, a, abort, newdata),
         c.st = "ESTABLISHED", WaitStep(n, c, a), a.want = app[n].want,
         a.sock \in {"BUSY", "CLOSE"} => a.done = a.want,
         a.sock \notin {"CLOSE_OK", "PEER_CLOSED"}, app[n].sock \notin EndedSock,
         GotRight(a, app[Peer(n)])
  PROVE  EndState' /\ StreamStep
<1>1. PICK d, out : /\ Become(n, d, a, out) /\ d.st \in {"CLOSED", "ESTABLISHED"}
                    /\ \A r \in out : r.to = Peer(n) /\ "FIN" \notin r.flags
  <2>1. CASE abort
    <3> DEFINE d == [c EXCEPT !.st = "CLOSED"]
    <3>1. d.st = "CLOSED" /\ Become(n, d, a, {Rst(Peer(n))})
      BY <2>1 DEF Appsend, UipConn
    <3> HIDE DEF d
    <3> QED
      BY <3>1 DEF Rst
  <2>2. CASE ~abort /\ a.sock = "WRITING" /\ ~Outstanding(c)
    <3> DEFINE d == [c EXCEPT !.len = Smaller(a.want - a.done, MSS), !.nrtx = 0]
    <3>1. d.st = "ESTABLISHED" /\ Become(n, d, a, {DataSeg(n, d, a)})
      BY <2>2 DEF Appsend, UipConn
    <3> HIDE DEF d
    <3>2. DataSeg(n, d, a).to = Peer(n) /\ "FIN" \notin DataSeg(n, d, a).flags
      BY DEF DataSeg, Seg
    <3> QED
      BY <3>1, <3>2
  <2>3. CASE ~abort /\ ~(a.sock = "WRITING" /\ ~Outstanding(c))
    <3> DEFINE d == [c EXCEPT !.nrtx = 0]
               out == IF newdata THEN {AckSeg(n, c)} ELSE {}
    <3>1. d.st = "ESTABLISHED" /\ Become(n, d, a, out)
      BY <2>3 DEF Appsend, UipConn
    <3>2. \A r \in out : r.to = Peer(n) /\ "FIN" \notin r.flags
      BY DEF AckSeg, Seg
    <3> HIDE DEF d, out
    <3> QED
      BY <3>1, <3>2
  <2> QED
    BY <2>1, <2>2, <2>3
<1>2. a \in AppSock /\ Len(a.got) \in Nat /\ app[Peer(n)].want \in Nat /\ Len(app[n].got) \in Nat
  BY PeerNode, LenProperties DEF AppRight, AppSock, TcpTypes
<1>3. EndRight(n, d, a, app[Peer(n)])
  BY <1>1 DEF EndRight, Closing
<1>4. EndState'
  BY <1>1, <1>2, <1>3, EndBecome DEF FinRight
<1>5. Up(app[n]) = "open" /\ Up(a) \in {"open", "broken"}
  BY DEF Up, EndedSock
<1>6. Len(a.got) \in Len(app[n].got) .. app[Peer(n)].want
  BY <1>2 DEF GotRight, WaitStep
<1>7. Stream!Next
  BY <1>1, <1>2, <1>5, <1>6, DoneStep, Serves
<1> QED
  BY <1>4, <1>7 DEF StreamStep

\* The invariant of ends holds before a connection is opened.
LEMMA EndInit == Init => EndState
<1> SUFFICES ASSUME Init
             PROVE  EndState
  OBVIOUS
<1>1. (\A n \in Nodes : app[n].sock = "NULL" /\ conn[n].st = "CLOSED") /\ net = Stale
  BY DEF Init
<1> QED
  BY <1>1 DEF EndState, EndRight, Closing

\* A FIN whose connection is as it was
LEMMA FinAgain ==
  ASSUME NEW n \in Nodes, NEW c, NEW d, NEW a, NEW b, EndRight(n, c, a, b),
         c.st \in Closing, d.snd = c.snd, d.len = c.len
  PROVE  /\ EndRight(n, d, a, b)
         /\ c.len > 0 /\ a.sock \in EndedSock => FinRight(n, FinAckSeg(n, d), a, b)
  BY DEF EndRight, FinRight, FinAckSeg, Seg, Closing

\* Calls, polls and timers keep it, and are steps of the abstract stream, or none.
LEMMA EndTimer ==
  ASSUME TcpTypes, StreamState, WaitState, EndState, NEW n \in Nodes,
         \/ Connect \/ Write(n) \/ Close(n) \/ Poll(n) \/ PollSyn(n) \/ WaitOver(n) \/ GiveUp(n)
         \/ Retransmit(n)
  PROVE  EndState' /\ StreamStep
<1>0. /\ \A p \in Nodes : /\ conn[p] \in UipConn /\ AppRight(p, app[p]) /\ app[p] \in AppSock
                           /\ ConnRight(p, conn[p], app[p]) /\ PhaseRight(p, conn[p], app[p])
                           /\ Len(app[p].got) \in Nat
                           /\ EndRight(p, conn[p], app[p], app[Peer(p)])
                           /\ GotRight(app[p], app[Peer(p)])
      /\ conn \in [Nodes -> UipConn] /\ app \in [Nodes -> AppSock]
      /\ Active \in Nodes
  BY Numbers, LenProperties DEF TcpTypes, StreamState, WaitState, EndState, AppSock
\* Nothing is sent, and the socket is not at its end.
<1>1. ASSUME NEW p \in Nodes, NEW c, NEW a \in AppSock, Become(p, c, a, {}),
             a.sock \notin {"BUSY", "CLOSE"} \/ a.done = a.want, c.st \notin Closing,
             app[p].sock \notin EndedSock
      PROVE  EndState'
  <2>1. EndRight(p, c, a, app[Peer(p)])
    BY <1>1 DEF EndRight
  <2> QED
    BY <1>1, <2>1, EndBecome
<1>2. CASE Connect
  <2> DEFINE c == [st |-> "SYN_SENT", snd |-> Iss[Active], rcv |-> 0, len |-> 1, nrtx |-> 0]
             a == [app[Active] EXCEPT !.sock = "CONNECT"]
  <2>1. /\ a \in AppSock /\ a.sock = "CONNECT" /\ a.want = app[Active].want
        /\ a.done = app[Active].done /\ a.got = app[Active].got /\ c.st \notin Closing
    BY <1>0 DEF AppSock, Socks, Closing
  <2>2. Become(Active, c, a, {}) /\ app[Active].sock = "NULL"
    BY <1>0, <1>2 DEF Connect, Become
  <2> HIDE DEF c, a
  <2>3. EndState'
    BY <1>0, <1>1, <2>1, <2>2 DEF EndedSock
  <2>4. UNCHANGED Stream!vars
    <3>1. Up(a) = Up(app[Active])
      BY <2>1, <2>2 DEF Up
    <3> QED
      BY <1>0, <2>1, <2>2, <3>1, Stutters
  <2> QED
    BY <2>3, <2>4 DEF StreamStep
<1>3. CASE Write(n)
  <2>1. PICK k \in Sizes[n] :
          /\ app[n].sock = "BUSY" /\ UNCHANGED <<conn, net>>
          /\ app' = [app EXCEPT ![n].sock = "WRITING", ![n].want = @ + k]
    BY <1>3 DEF Write
  <2> DEFINE a == [app[n] EXCEPT !.sock = "WRITING", !.want = app[n].want + k]
  <2>2. app[n].want \in Nat /\ app[n].want + k \in Nat /\ app[n].want + k > app[n].want
    BY <1>0, <2>1, Numbers DEF AppSock
  <2>3. /\ a \in AppSock /\ a.sock = "WRITING" /\ a.want = app[n].want + k
        /\ a.done = app[n].done /\ a.got = app[n].got
    BY <1>0, <2>2 DEF AppSock, Socks
  <2>4. Become(n, conn[n], a, {})
    BY <1>0, <2>1 DEF Become
  <2> HIDE DEF a
  <2>5. EndState'
    <3>1. conn[n].st \notin Closing
      BY <1>0, <2>1 DEF PhaseRight, EndedSock
    <3> QED
      BY <1>1, <2>1, <2>3, <2>4, <3>1 DEF EndedSock
  <2>6. Stream!Write(n)
    <3> DEFINE want == [p \in Nodes |-> app[p].want]
               done == [p \in Nodes |-> app[p].done]
               got == [p \in Nodes |-> Len(app[p].got)]
               up == [p \in Nodes |-> Up(app[p])]
    <3>1. app'[n] = a /\ \A p \in Nodes : p # n => app'[p] = app[p]
      BY <1>0, <2>4 DEF Become
    <3>2. want'[n] = a.want /\ want' = [want EXCEPT ![n] = a.want] /\ want[n] = app[n].want
      BY <3>1
    <3>3. done' = done /\ got' = got
      BY <2>3, <3>1
    <3>4. Up(a) = Up(app[n]) /\ Up(app[n]) = "open" /\ up[n] = "open"
      BY <2>1, <2>3 DEF Up
    <3>5. up' = up
      BY <3>1, <3>4
    <3>6. done[n] = want[n]
      BY <1>0, <2>1 DEF EndRight
    <3>7. want' = [want EXCEPT ![n] = want'[n]] /\ want'[n] > want[n]
      BY <2>2, <2>3, <3>2
    <3> QED
      BY <3>3, <3>4, <3>5, <3>6, <3>7 DEF Stream!Write, Up
  <2> QED
    BY <2>5, <2>6 DEF StreamStep, Stream!Next
<1>4. CASE Close(n)
  <2> DEFINE a == [app[n] EXCEPT !.sock = "CLOSE"]
  <2>1. /\ a \in AppSock /\ a.sock = "CLOSE" /\ a.want = app[n].want
        /\ a.done = app[n].done /\ a.got = app[n].got
    BY <1>0 DEF AppSock, Socks
  <2>2. Become(n, conn[n], a, {}) /\ app[n].sock = "BUSY"
    BY <1>0, <1>4 DEF Close, Become
  <2> HIDE DEF a
  <2>3. EndState'
    <3>1. conn[n].st \notin Closing /\ a.done = a.want
      BY <1>0, <2>1, <2>2 DEF PhaseRight, EndedSock, EndRight
    <3> QED
      BY <1>1, <2>1, <2>2, <3>1 DEF EndedSock
  <2>4. UNCHANGED Stream!vars
    <3>1. Up(a) = Up(app[n])
      BY <2>1, <2>2 DEF Up
    <3> QED
      BY <2>1, <2>2, <3>1, Stutters
  <2> QED
    BY <2>3, <2>4 DEF StreamStep
<1>5. CASE Poll(n)
  <2> DEFINE d == [conn[n] EXCEPT !.st = "FIN_WAIT_1", !.len = 1, !.nrtx = 0]
             a == Ended(app[n], "CLOSE_OK")
  <2>1. /\ conn[n].st = "ESTABLISHED"
        /\ \/ app[n].sock = "CLOSE" /\ Become(n, d, a, {FinAckSeg(n, d)})
           \/ Appsend(n, conn[n], app[n], FALSE, FALSE)
    BY <1>5 DEF Poll
  <2>2. app[n].sock \in {"BUSY", "WRITING", "CLOSE"} /\ conn[n].snd = At(n, app[n].done)
    BY <1>0, <2>1 DEF ConnRight
  <2>3. CASE app[n].sock = "CLOSE" /\ Become(n, d, a, {FinAckSeg(n, d)})
    <3>1. d.snd = conn[n].snd /\ d.st = "FIN_WAIT_1"
      BY <1>0 DEF UipConn
    <3>2. /\ a \in AppSock /\ a.sock = "CLOSE_OK" /\ a.want = app[n].want
          /\ a.done = app[n].done /\ a.got = app[n].got
      BY <1>0, <2>3 DEF AppSock, Ended, Socks
    <3>3. Become(n, d, a, {FinAckSeg(n, d)})
      BY <2>3
    <3> HIDE DEF d, a
    <3>4. app[n].done = app[n].want /\ d.snd = At(n, a.want)
      BY <1>0, <2>2, <2>3, <3>1, <3>2 DEF EndRight
    <3>5. EndRight(n, d, a, app[Peer(n)])
      BY <3>2, <3>4 DEF EndRight
    <3>6. \A r \in {FinAckSeg(n, d)} : r.to = Peer(n) /\ FinRight(n, r, a, app[Peer(n)])
      BY <3>2, <3>4 DEF FinRight, FinAckSeg, Seg, EndedSock
    <3>7. EndState'
      BY <2>2, <3>2, <3>3, <3>5, <3>6, EndBecome DEF EndedSock
    <3>8. Stream!Close(n)
      <4> DEFINE want == [p \in Nodes |-> app[p].want]
                 done == [p \in Nodes |-> app[p].done]
                 got == [p \in Nodes |-> Len(app[p].got)]
                 up == [p \in Nodes |-> Up(app[p])]
      <4>1. app'[n] = a /\ \A p \in Nodes : p # n => app'[p] = app[p]
        BY <1>0, <3>3 DEF Become
      <4>2. want' = want /\ done' = done /\ got' = got
        BY <3>2, <4>1
      <4>3. Up(a) = "closed" /\ Up(app[n]) = "open" /\ up[n] = "open"
        BY <2>3, <3>2 DEF Up
      <4>4. up' = [up EXCEPT ![n] = "closed"]
        BY <4>1, <4>3
      <4>5. done[n] = want[n]
        BY <3>4
      <4> QED
        BY <4>2, <4>3, <4>4, <4>5 DEF Stream!Close, Up
    <3> QED
      BY <3>7, <3>8 DEF StreamStep, Stream!Next
  <2>4. CASE Appsend(n, conn[n], app[n], FALSE, FALSE)
    <3>1. FALSE \in BOOLEAN
      OBVIOUS
    <3>2. WaitStep(n, conn[n], app[n])
      BY <1>0, StayStep
    <3>3. app[n].sock \in {"BUSY", "CLOSE"} => app[n].done = app[n].want
      BY <1>0 DEF EndRight
    <3>4. app[n].sock \notin EndedSock
      BY <2>2 DEF EndedSock
    <3> QED
      BY <1>0, <2>1, <2>2, <2>4, <3>1, <3>2, <3>3, <3>4, AppsendEnd
  <2> QED
    BY <2>1, <2>3, <2>4
<1>6. CASE PollSyn(n)
  <2>1. Become(n, conn[n], app[n], {SynSeg(n, conn[n])})
    BY <1>6 DEF PollSyn
  <2>2. \A r \in {SynSeg(n, conn[n])} : r.to = Peer(n) /\ FinRight(n, r, app[n], app[Peer(n)])
    BY DEF SynSeg, Seg, FinRight
  <2> QED
    BY <1>0, <2>1, <2>2, StayEnd
<1>7. CASE WaitOver(n)
  <2> DEFINE d == [conn[n] EXCEPT !.st = "CLOSED"]
  <2>1. Become(n, d, app[n], {})
    BY <1>0, <1>7 DEF WaitOver, Become
  <2>2. d.st = "CLOSED"
    BY <1>0 DEF UipConn
  <2> HIDE DEF d
  <2>3. EndRight(n, d, app[n], app[Peer(n)])
    BY <1>0, <2>2 DEF EndRight, Closing
  <2> QED
    BY <2>1, <2>3, StayEnd
<1>8. CASE GiveUp(n)
  <2> DEFINE d == [conn[n] EXCEPT !.st = "CLOSED"]
  <2>1. Become(n, d, Ended(app[n], "PEER_ABORTED"), {Rst(Peer(n))})
    BY <1>8 DEF GiveUp
  <2>2. d.st = "CLOSED"
    BY <1>0 DEF UipConn
  <2> HIDE DEF d
  <2> QED
    BY <2>1, <2>2, AbortEnd
<1>9. CASE Retransmit(n)
  <2> DEFINE c == [conn[n] EXCEPT !.nrtx = @ + 1]
  <2>1. c.st = conn[n].st /\ c.snd = conn[n].snd /\ c.len = conn[n].len
    BY <1>0 DEF UipConn
  <2>2. conn[n].len > 0 /\ c.st # "CLOSED"
    BY <1>9, <2>1 DEF Retransmit, TimerRanOut, Outstanding
  <2>3. PICK m : /\ Become(n, c, app[n], {m})
                 /\ \/ m \in {SynSeg(n, c), SynAckSeg(n, c), DataSeg(n, c, app[n])}
                    \/ c.st \notin {"SYN_SENT", "SYN_RCVD", "ESTABLISHED"} /\ m = FinAckSeg(n, c)
    BY <1>9, <2>1 DEF Retransmit
  <2> HIDE DEF c
  <2>4. EndRight(n, c, app[n], app[Peer(n)])
    BY <1>0, <2>1 DEF EndRight
  <2>5. m.to = Peer(n) /\ FinRight(n, m, app[n], app[Peer(n)])
    <3>1. CASE m \in {SynSeg(n, c), SynAckSeg(n, c), DataSeg(n, c, app[n])}
      <4>1. \A f, data : Seg(n, c, f, data).to = Peer(n) /\ Seg(n, c, f, data).flags = f
        BY DEF Seg
      <4>2. m.to = Peer(n) /\ "FIN" \notin m.flags
        BY <3>1, <4>1 DEF SynSeg, SynAckSeg, DataSeg
      <4> QED
        BY <4>2 DEF FinRight
    <3>2. CASE c.st \notin {"SYN_SENT", "SYN_RCVD", "ESTABLISHED"} /\ m = FinAckSeg(n, c)
      <4>1. conn[n].st \in Closing
        BY <1>0, <2>1, <2>2, <3>2 DEF UipConn, States
      <4>2. app[n].sock \in EndedSock
        BY <1>0, <4>1 DEF PhaseRight
      <4>3. FinRight(n, m, app[n], app[Peer(n)])
        BY <1>0, <2>1, <2>2, <3>2, <4>1, <4>2, FinAgain
      <4> QED
        BY <3>2, <4>3 DEF FinAckSeg, Seg
    <3> QED
      BY <2>3, <3>1, <3>2
  <2> QED
    BY <2>3, <2>4, <2>5, StayEnd
<1> QED
  BY <1>2, <1>3, <1>4, <1>5, <1>6, <1>7, <1>8, <1>9

\* The segment that ends the stream comes behind all that the peer wrote.
LEMMA FinHeard ==
  ASSUME SeqWide, StaleNoEnd, TcpTypes, StreamState, EndState, NEW n \in Nodes, NEW m \in net,
         m.to = n, conn[n].st = "ESTABLISHED", "FIN" \in m.flags, Acceptable(conn[n], m)
  PROVE  /\ m.data = <<>> /\ app[Peer(n)].sock = "CLOSE_OK"
         /\ Len(app[n].got) = app[Peer(n)].want
<1> DEFINE p == Peer(n)
           g == Len(app[n].got)
           w == app[p].want
<1>1. /\ p \in Nodes /\ Peer(p) = n /\ ConnRight(n, conn[n], app[n]) /\ GotRight(app[n], app[p])
      /\ AppRight(p, app[p]) /\ app[p] \in AppSock /\ app[n] \in AppSock
  BY PeerNode DEF TcpTypes, StreamState
<1>2. g \in Nat /\ w \in Nat /\ g <= w /\ w <= Total[p] /\ Total[p] \in Nat /\ Total[p] < SeqMod
      /\ SeqMod \in Nat
  BY <1>1, LenProperties, Numbers DEF GotRight, AppRight, AppSock, SeqWide
<1>3. m.seq = At(p, g) /\ app[n].sock \notin EndedSock
  BY <1>1 DEF Acceptable, ConnRight, EndedSock
<1>4. g \in 0 .. Total[p] /\ g \in 0 .. SeqMod - 1 /\ w \in 0 .. SeqMod - 1
  <2> HIDE DEF g, w
  <2> QED
    BY <1>2
<1>5. m \notin Stale
  BY <1>3, <1>4 DEF StaleNoEnd
<1>6. FinRight(p, m, app[p], app[n])
  BY <1>5 DEF EndState
<1>7. m.data = <<>> /\ app[p].sock = "CLOSE_OK" /\ m.seq = At(p, w)
  BY <1>3, <1>6 DEF FinRight
<1>8. g = w
  BY <1>1, <1>3, <1>4, <1>7, AtInjective
<1> QED
  BY <1>7, <1>8

\* So does and is every segment that comes.
LEMMA EndReceive ==
  ASSUME SeqWide, StaleApart, StaleQuiet, StaleNoEnd, TcpTypes, StreamState, WaitState, EndState,
         NEW n \in Nodes, NEW m \in net, m.to = n, Receive(n, m)
  PROVE  EndState' /\ StreamStep
<1> DEFINE c == conn[n]
           a == app[n]
           p == Peer(n)
           e == IF Acks(c, m) THEN AckedApp(a) ELSE a
<1>1. /\ c \in UipConn /\ AppRight(n, a) /\ a \in AppSock
      /\ ConnRight(n, c, a) /\ PhaseRight(n, c, a) /\ EndRight(n, c, a, app[p]) /\ GotRight(a, app[p])
      /\ p \in Nodes /\ Peer(p) = n
      /\ m \in Segment /\ m.data \in Seq(Nat) /\ Len(m.data) \in Nat
      /\ Len(a.got) \in Nat
  BY PeerNode, LenProperties DEF TcpTypes, StreamState, WaitState, EndState, Segment, AppSock
<1>2. Acked(c, m) \in UipConn /\ Acked(c, m).st = c.st /\ Acked(c, m).rcv = c.rcv
  BY <1>1, AckedType DEF Acked, UipConn
<1>3. Acked(c, m).len = 0 \/ (Acked(c, m).len = c.len /\ Acked(c, m).snd = c.snd)
  BY <1>1 DEF Acked, UipConn
\* A state that keeps its socket, with no FIN for an answer
<1>4. ASSUME NEW d, NEW out, Become(n, d, a, out),
             d.st \in Closing => \/ d.len = 0
                                 \/ d.len = c.len /\ d.snd = c.snd /\ c.st \in Closing,
             \A r \in out : r.to = p /\ "FIN" \notin r.flags
      PROVE  EndState' /\ StreamStep
  <2>1. EndRight(n, d, a, app[p])
    <3>1. ~(0 > 0)
      OBVIOUS
    <3> QED
      BY <1>1, <1>4, <3>1 DEF EndRight
  <2>2. \A r \in out : r.to = p /\ FinRight(n, r, a, app[p])
    BY <1>4 DEF FinRight
  <2> QED
    BY <1>4, <2>1, <2>2, StayEnd
<1>5. \A r \in ResetFor(m) : r = Rst(p)
  BY DEF ResetFor
<1>6. /\ \A r \in ResetFor(m) : r.to = p /\ "FIN" \notin r.flags
      /\ \A d : AckSeg(n, d).to = p /\ "FIN" \notin AckSeg(n, d).flags
      /\ \A d : SynAckSeg(n, d).to = p /\ "FIN" \notin SynAckSeg(n, d).flags
  BY <1>5 DEF Rst, AckSeg, SynAckSeg, Seg
<1> HIDE DEF c
<1>7. CASE Unwanted(n, m)
  <2>1. Become(n, c, a, ResetFor(m)) /\ c.st \notin Closing
    BY <1>7 DEF Unwanted, Become, c, TcpTypes, Closing
  <2> QED
    BY <1>4, <1>6, <2>1
<1>8. CASE Opened(n, m)
  <2> DEFINE d == [st |-> "SYN_RCVD", snd |-> Iss[n], rcv |-> Add(m.seq, 1), len |-> 1, nrtx |-> 0]
  <2>1. Become(n, d, a, {SynAckSeg(n, d)}) /\ d.st \notin Closing
    BY <1>8 DEF Opened, Closing
  <2> HIDE DEF d
  <2> QED
    BY <1>4, <1>6, <2>1
<1>9. CASE Reset(n, m)
  <2> DEFINE d == [c EXCEPT !.st = "CLOSED"]
  <2>1. d.st = "CLOSED" /\ Become(n, d, Ended(a, "PEER_ABORTED"), {})
    BY <1>1, <1>9 DEF Reset, c, UipConn
  <2> HIDE DEF d
  <2> QED
    BY <2>1, AbortEnd
<1>10. CASE OutOfSequence(n, m)
  <2>1. c.st # "SYN_SENT"
    BY <1>10, SentQuiet DEF c
  <2>2. PICK r \in {SynAckSeg(n, c), AckSeg(n, c)} : Become(n, c, a, {r})
    BY <1>10, <2>1 DEF OutOfSequence, c
  <2> QED
    BY <1>4, <1>6, <2>2
<1>11. CASE SynRcvd(n, m)
  <2>1. c.st = "SYN_RCVD" /\ a.sock = "NULL" /\ a.want = 0
    BY <1>11, SynRcvdWait DEF c
  <2>2. CASE Become(n, c, a, {SynAckSeg(n, c)})
    BY <1>4, <1>6, <2>2
  <2>3. CASE ~Become(n, c, a, {SynAckSeg(n, c)})
    <3>1. PICK d \in UipConn, x \in AppSock, abort \in BOOLEAN, newdata \in BOOLEAN :
            /\ Appsend(n, d, x, abort, newdata) /\ d.st = "ESTABLISHED" /\ AppRight(n, x)
            /\ WaitStep(n, d, x) /\ x.sock \in {"NULL", "BUSY", "PEER_ABORTED"}
            /\ x.want = 0 /\ x.done = 0 /\ GotRight(x, app[p])
      BY <1>11, <2>3, SynRcvdWait DEF c
    <3> QED
      BY <2>1, <3>1, AppsendEnd DEF EndedSock
  <2> QED
    BY <2>2, <2>3
<1>12. CASE SynSent(n, m)
  <2> DEFINE d == [Acked(c, m) EXCEPT !.st = "ESTABLISHED", !.rcv = Add(m.seq, 1), !.nrtx = 0]
             f == [Acked(c, m) EXCEPT !.st = "CLOSED"]
             b == [a EXCEPT !.sock = "BUSY"]
  <2>1. /\ c.st = "SYN_SENT"
        /\ \/ Become(n, d, b, {AckSeg(n, d)})
           \/ Become(n, f, Ended(a, "PEER_ABORTED"), ResetFor(m))
    BY <1>12 DEF SynSent, InState, c
  <2>2. f.st = "CLOSED" /\ d.st = "ESTABLISHED"
    BY <1>2 DEF UipConn
  <2>3. a.sock = "CONNECT" /\ a.done = 0 /\ a.want = 0
    BY <1>1, <2>1 DEF ConnRight
  <2>4. b \in AppSock /\ b.sock = "BUSY" /\ b.want = a.want /\ b.done = a.done /\ b.got = a.got
    BY <1>1 DEF AppSock, Socks
  <2> HIDE DEF d, f, b
  <2>5. CASE Become(n, d, b, {AckSeg(n, d)})
    <3>1. EndRight(n, d, b, app[p])
      BY <2>2, <2>3, <2>4 DEF EndRight, Closing
    <3>2. \A r \in {AckSeg(n, d)} : r.to = p /\ FinRight(n, r, b, app[p])
      BY <1>6 DEF FinRight
    <3>3. EndState'
      BY <2>3, <2>4, <2>5, <3>1, <3>2, EndBecome DEF EndedSock
    <3>4. UNCHANGED Stream!vars
      <4>1. Up(b) = Up(app[n])
        BY <2>3, <2>4 DEF Up
      <4> QED
        BY <2>4, <2>5, <4>1, Stutters
    <3> QED
      BY <3>3, <3>4 DEF StreamStep
  <2>6. CASE Become(n, f, Ended(a, "PEER_ABORTED"), ResetFor(m))
    BY <1>5, <2>2, <2>6, AbortEnd
  <2> QED
    BY <2>1, <2>5, <2>6
<1>13. ASSUME c.st = "ESTABLISHED", Acceptable(c, m), "RST" \notin m.flags,
              NEW b \in IF m.data = <<>> THEN {e} ELSE Delivered(e, m.data)
       PROVE  /\ AppRight(n, b) /\ b.want = a.want /\ GotRight(b, app[p])
              /\ b.sock \notin {"NULL", "CONNECT"}
              /\ b.sock # "PEER_ABORTED" =>
                   ConnRight(n, [Acked(c, m) EXCEPT !.rcv = Add(@, Len(m.data))], b)
              /\ WaitStep(n, [Acked(c, m) EXCEPT !.rcv = Add(@, Len(m.data))], b)
              /\ b.sock \in {"BUSY", "CLOSE"} =>
                   b.done = a.want \/ (b.sock = a.sock /\ b.done = a.done)
              /\ a.sock \notin EndedSock
  BY <1>13, EstablishedRight, EstablishedWait DEF c
<1>14. CASE EstablishedFin(n, m)
  <2> DEFINE d == [Acked(c, m) EXCEPT !.st = "LAST_ACK", !.rcv = Add(@, 1 + Len(m.data)),
                                      !.len = 1, !.nrtx = 0]
             g == [Acked(c, m) EXCEPT !.rcv = Add(@, Len(m.data))]
             x == Ended(e, "PEER_CLOSED")
  <2>1. PICK b \in IF m.data = <<>> THEN {e} ELSE Delivered(e, m.data) :
          /\ c.st = "ESTABLISHED" /\ Acceptable(c, m) /\ "RST" \notin m.flags /\ "FIN" \in m.flags
          /\ Become(n, d, Ended(b, "PEER_CLOSED"), {FinAckSeg(n, d)})
    BY <1>14 DEF EstablishedFin, InState, c
  <2>2. m.data = <<>> /\ app[p].sock = "CLOSE_OK" /\ Len(a.got) = app[p].want
    BY <2>1, FinHeard DEF c
  <2>3. b = e /\ e.got = a.got
    BY <1>1, <2>1, <2>2, AckedAppType
  <2>4. /\ AppRight(n, e) /\ e.want = a.want /\ WaitStep(n, g, e) /\ a.sock \notin EndedSock
        /\ e.sock \notin {"NULL", "CONNECT"}
    BY <1>13, <2>1, <2>3
  <2>5. g.st = "ESTABLISHED"
    BY <1>2, <2>1 DEF UipConn
  <2>6. e.sock \in {"BUSY", "WRITING", "CLOSE"}
    <3>1. a.sock \in {"BUSY", "WRITING", "CLOSE"}
      BY <1>1, <2>1 DEF ConnRight
    <3> QED
      BY <3>1 DEF AckedApp
  <2>7. /\ x \in AppSock /\ x.sock = "PEER_CLOSED" /\ x.want = a.want /\ x.done = e.done
        /\ x.got = a.got
    BY <2>3, <2>4, <2>6 DEF Ended, AppRight, AppSock, Socks
  <2>8. Become(n, d, x, {FinAckSeg(n, d)})
    BY <2>1, <2>3
  <2> HIDE DEF d, e, g, x
  <2>9. EndRight(n, d, x, app[p])
    BY <2>2, <2>7 DEF EndRight, EndedSock
  <2>10. \A r \in {FinAckSeg(n, d)} : r.to = p /\ FinRight(n, r, x, app[p])
    BY <2>2, <2>7 DEF FinRight, FinAckSeg, Seg, EndedSock
  <2>11. EndState'
    BY <2>4, <2>7, <2>8, <2>9, <2>10, EndBecome
  <2>12. /\ e.done \in a.done .. a.want
         /\ e.done # a.done => e.done <= Len(app[p].got) \/ Up(app[p]) # "open"
    BY <2>4, <2>5, DoneStep
  <2>13. Up(a) = "open" /\ Up(x) = "eof" /\ Up(app[p]) = "closed"
    BY <2>2, <2>4, <2>7 DEF Up, EndedSock
  <2>14. Len(x.got) = app[p].want /\ Len(x.got) \in Len(a.got) .. app[p].want
    BY <1>1, <2>2, <2>7
  <2>15. Stream!Next
    BY <2>7, <2>8, <2>12, <2>13, <2>14, Serves
  <2> QED
    BY <2>11, <2>15 DEF StreamStep
<1>15. CASE EstablishedData(n, m)
  <2> DEFINE d == [Acked(c, m) EXCEPT !.rcv = Add(@, Len(m.data))]
             data == m.data # <<>>
  <2>1. PICK b \in IF m.data = <<>> THEN {e} ELSE Delivered(e, m.data) :
          /\ c.st = "ESTABLISHED" /\ Acceptable(c, m) /\ "RST" \notin m.flags
          /\ Appsend(n, d, b, b.sock = "PEER_ABORTED", data)
    BY <1>15 DEF EstablishedData, InState, c
  <2>2. /\ AppRight(n, b) /\ b.want = a.want /\ GotRight(b, app[p])
        /\ b.sock \notin {"NULL", "CONNECT"}
        /\ b.sock # "PEER_ABORTED" => ConnRight(n, d, b)
        /\ WaitStep(n, d, b) /\ a.sock \notin EndedSock
        /\ b.sock \in {"BUSY", "CLOSE"} =>
             b.done = a.want \/ (b.sock = a.sock /\ b.done = a.done)
    BY <1>13, <2>1
  <2>3. d.st = "ESTABLISHED" /\ d \in UipConn
    <3>1. Add(c.rcv, Len(m.data)) \in Seqnos
      BY <1>1, AddSeq, SeqNat DEF UipConn
    <3> QED
      BY <1>2, <2>1, <3>1 DEF UipConn
  <2> DEFINE abort == b.sock = "PEER_ABORTED"
  <2>4. data \in BOOLEAN /\ abort \in BOOLEAN
    OBVIOUS
  <2>5. Appsend(n, d, b, abort, data)
    BY <2>1
  <2> HIDE DEF d, e, data
  <2>6. b.sock \notin {"CLOSE_OK", "PEER_CLOSED"}
    BY <2>2, <2>3 DEF ConnRight
  <2>7. b.sock \in {"BUSY", "CLOSE"} => b.done = b.want
    BY <1>1, <2>2 DEF EndRight
  <2> HIDE DEF abort
  <2> QED
    BY <2>2, <2>3, <2>4, <2>5, <2>6, <2>7, AppsendEnd
\* The socket has left the connection.
<1>16. CASE LastAck(n, m) \/ ClosingAcked(n, m)
  <2>1. PICK st \in {"CLOSED", "TIME_WAIT"} :
          Become(n, [Acked(c, m) EXCEPT !.st = st], a, {}) /\ Acks(c, m)
    BY <1>16 DEF LastAck, ClosingAcked, InState, c
  <2> DEFINE d == [Acked(c, m) EXCEPT !.st = st]
  <2>2. d.len = 0
    BY <1>1, <2>1 DEF Acked, UipConn
  <2>3. Become(n, d, a, {})
    BY <2>1
  <2> HIDE DEF d
  <2> QED
    BY <1>4, <2>2, <2>3
<1>17. CASE FinWait1(n, m)
  <2>1. PICK k, st, out :
          LET d == [Acked(c, m) EXCEPT !.rcv = k, !.st = st]
          IN  Become(n, d, a, out) /\ out \in {{}, {AckSeg(n, d)}}
    BY <1>17 DEF FinWait1, c
  <2> DEFINE d == [Acked(c, m) EXCEPT !.rcv = k, !.st = st]
  <2>2. d.len = Acked(c, m).len /\ d.snd = Acked(c, m).snd
    BY <1>2 DEF UipConn
  <2>3. c.st \in Closing
    BY <1>17 DEF FinWait1, InState, Closing, c
  <2>4. Become(n, d, a, out) /\ out \in {{}, {AckSeg(n, d)}}
    BY <2>1
  <2> HIDE DEF d
  <2> QED
    BY <1>3, <1>4, <1>6, <2>2, <2>3, <2>4
<1>18. CASE FinWait2(n, m)
  <2> DEFINE fin == "FIN" \in m.flags
             d == [c EXCEPT !.rcv = Add(@, Len(m.data) + IF fin THEN 1 ELSE 0),
                            !.st = IF fin THEN "TIME_WAIT" ELSE @]
  <2>1. c.st \in Closing /\ Become(n, d, a, {AckSeg(n, d)})
    BY <1>18 DEF FinWait2, InState, Closing, c
  <2>2. d.len = c.len /\ d.snd = c.snd
    BY <1>1 DEF UipConn
  <2> HIDE DEF d
  <2> QED
    BY <1>4, <1>6, <2>1, <2>2
<1>19. CASE TimeWait(n, m)
  <2>1. c.st \in Closing /\ Become(n, c, a, {AckSeg(n, c)})
    BY <1>19 DEF TimeWait, InState, Closing, c
  <2> QED
    BY <1>4, <1>6, <2>1
<1> QED
  BY <1>7, <1>8, <1>9, <1>10, <1>11, <1>12, <1>14, <1>15, <1>16, <1>17, <1>18, <1>19 DEF Receive

\* Every step keeps it, and is a step of the abstract stream, or none.
LEMMA EndNext ==
  ASSUME SeqWide, StaleApart, StaleQuiet, StaleNoEnd, TcpTypes, StreamState, WaitState, EndState,
         [Next]_vars
  PROVE  EndState' /\ [Stream!Next]_Stream!vars
<1>1. ASSUME UNCHANGED vars
      PROVE  EndState' /\ [Stream!Next]_Stream!vars
  BY <1>1 DEF vars, EndState, Stream!vars
<1>2. ASSUME Next
      PROVE  EndState' /\ StreamStep
  BY <1>2, EndTimer, EndReceive, Numbers DEF Next
<1> QED
  BY <1>1, <1>2 DEF StreamStep

\* Under the same conditions, and when no FIN of an earlier connection fits in, the two
\* sockets get what a TCP connection promises, whatever the network loses, repeats and
\* reorders: bytes in order, confirmed when they have come, and an end of file behind
\* all of them (tcp_input, netTcpAppcall).
THEOREM StreamImplemented ==
  ASSUME SeqWide, StaleApart, StaleQuiet, StaleNoEnd
  PROVE  Spec => ImplementsStream
<1>1. Init => StreamState /\ WaitState /\ EndState
  BY StreamInit, WaitInit, EndInit
<1>2. Init => Stream!Init
  <2> SUFFICES ASSUME Init
               PROVE  Stream!Init
    OBVIOUS
  <2>1. \A n \in Nodes : /\ app[n].sock = "NULL" /\ app[n].want = 0 /\ app[n].done = 0
                         /\ Len(app[n].got) = 0
    BY EmptySeq DEF Init
  <2> QED
    BY <2>1 DEF Stream!Init
<1>3. TcpTypes /\ StreamState /\ WaitState /\ EndState /\ [Next]_vars
        => StreamState' /\ WaitState' /\ EndState' /\ [Stream!Next]_Stream!vars
  BY StreamNext, WaitNext, EndNext
<1> QED
  BY <1>1, <1>2, <1>3, TypesAlways, PTL DEF Spec, ImplementsStream, Stream!Spec
=============================================================================
