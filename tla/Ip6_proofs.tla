----------------------------- MODULE Ip6_proofs -----------------------------
(***************************************************************************)
(* Proofs about Ip6 and the reassembly buffer of UipReass: what a node     *)
(* delivers is whole and for it, and its errors and replies go where they  *)
(* belong, for any number of nodes, any tables, and any packets of the     *)
(* stranger that satisfy ForeignCuts and ForeignAnswers.                   *)
(***************************************************************************)
EXTENDS Ip6, Lists_proofs

-----------------------------------------------------------------------------
(* Packets *)

\* The fields of a packet; what it carries is not typed.
IsPacket(p) ==
  /\ DOMAIN p = {"src", "dst", "hl", "fit", "exts", "top"}
  /\ p.hl \in Nat /\ p.exts \in Seq(Ext)
  /\ p.top.proto # "mixed"

\* A packet that is input at n: for n or for a group
ForMe(n, p) == p.dst \in Mine(n) \/ Mcast(p.dst)

\* An address that n may send from
MaySendFrom(n, a) == a \in Mine(n) \/ (a = Unspecified /\ n \notin Globals)

\* A packet that n itself sends: an answer, or one of a task
Own(n, q) ==
  /\ IsPacket(q) /\ q.exts = <<>>
  /\ Answers(q) /\ MaySendFrom(n, q.src) /\ q.hl = HopLimit

\* The stranger's packets have the fields of packets.
LEMMA SentArePackets ==
  ASSUME NEW p \in SentPackets
  PROVE  IsPacket(p)
<1>1. PICK k \in 1 .. MaxSent : \E f \in Foreign[k] : p = f.pkt
  BY DEF SentPackets
<1>2. Foreign[k] \in SUBSET [to : Nodes, pkt : Packets]
  BY <1>1, Ip6Assumption DEF MaxSent
<1>3. p \in Packets
  BY <1>1, <1>2
<1>4. p.top.proto # "mixed"
  <2>1. p.top \in Tops
    BY <1>3 DEF Packets
  <2> QED
    BY <2>1 DEF Tops
<1> QED
  BY <1>3, <1>4 DEF Packets, IsPacket

\* An address chosen for a destination is one that the node may send from.
LEMMA SelectSrcRight ==
  ASSUME NEW n, NEW dst
  PROVE  MaySendFrom(n, SelectSrc(n, dst))
BY DEF MaySendFrom, SelectSrc, Mine

\* A new packet has the fields of one.
LEMMA PacketFields ==
  ASSUME NEW src, NEW dst, NEW top, top.proto # "mixed"
  PROVE  IsPacket(Packet(src, dst, top))
BY Ip6Assumption DEF IsPacket, Packet

\* What ErrorOutput leaves is an error as it should be: eaten headers are there, and a
\* host that answers is the one that the packet is for.
LEMMA ErrorOutputRight ==
  ASSUME NEW n, NEW p, NEW eaten \in Nat, NEW why, NEW q \in ErrorOutput(n, p, eaten, why),
         eaten > 0 => p.exts # <<>>,
         n \in Routers \/ ForMe(n, p)
  PROVE  Own(n, q)
<1> DEFINE src == IF n \in Routers \/ Mcast(p.dst) THEN SelectSrc(n, p.dst) ELSE p.dst
           top == Icmp("error", why, p)
<1>1. /\ q = Packet(src, p.src, top)
      /\ ~QuietAbout(p, eaten) /\ p.src # Unspecified /\ (Mcast(p.dst) => why = "option")
  BY DEF ErrorOutput, ErrorFrom
<1>2. MaySendFrom(n, src)
  BY SelectSrcRight DEF MaySendFrom, ForMe
<1>3. /\ top.proto = "icmp" /\ top.type = "error" /\ top.why = why /\ top.src = p.src
      /\ top.dst = p.dst /\ top.error = IsError(p) /\ top.bare = (p.exts = <<>>)
  BY DEF Icmp, IsError
<1>4. ~(IsError(p) /\ p.exts = <<>>)
  BY <1>1 DEF QuietAbout
<1> HIDE DEF src, top
<1>5. /\ q.src = src /\ q.dst = p.src /\ q.hl = HopLimit /\ q.exts = <<>> /\ q.top = top
  BY <1>1 DEF Packet
<1>6. Answers(q)
  BY <1>1, <1>3, <1>4, <1>5 DEF Answers
<1>7. IsPacket(q)
  BY <1>1, <1>3, PacketFields
<1> QED
  BY <1>2, <1>3, <1>5, <1>6, <1>7 DEF Own

\* An echo reply goes back to the one who asked.
LEMMA EchoReplyRight ==
  ASSUME NEW n, NEW p, ForMe(n, p)
  PROVE  Own(n, EchoReply(n, p))
<1> DEFINE src == IF Mcast(p.dst) THEN SelectSrc(n, p.src) ELSE p.dst
           top == Icmp("reply", "", p)
           q == EchoReply(n, p)
<1>1. MaySendFrom(n, src)
  BY SelectSrcRight DEF MaySendFrom, ForMe
<1>2. top.proto = "icmp" /\ top.type = "reply" /\ top.src = p.src
  BY DEF Icmp
<1>3. q = [Packet(src, p.src, top) EXCEPT !.fit = p.fit]
  BY DEF EchoReply
<1> HIDE DEF src, top
<1>4. q = [src |-> src, dst |-> p.src, hl |-> HopLimit, fit |-> p.fit, exts |-> <<>>, top |-> top]
  BY <1>3 DEF Packet
<1> HIDE DEF q
<1>5. IsPacket(q)
  BY <1>2, <1>4, Ip6Assumption DEF IsPacket
<1>6. Answers(q)
  BY <1>2, <1>4 DEF Answers
<1>7. Own(n, q)
  BY <1>1, <1>2, <1>4, <1>5, <1>6 DEF Own
<1> QED
  BY <1>7 DEF q

-----------------------------------------------------------------------------
(* The headers of a packet *)

\* The upper layers of n leave an answer at most, get this packet at most, and leave the
\* reassembly alone.
LEMMA UpperRight ==
  ASSUME NEW n, NEW p, NEW r, p.exts \in Seq(Ext), ForMe(n, p)
  PROVE  /\ \A q \in Upper(n, p, r).out : Own(n, q)
         /\ Upper(n, p, r).got \subseteq {p}
         /\ Upper(n, p, r).reass = r
<1> DEFINE error == ErrorOutput(n, p, Len(p.exts), "nexthdr")
           u == Upper(n, p, r)
<1>1. \A q \in error : Own(n, q)
  <2>1. Len(p.exts) \in Nat /\ (Len(p.exts) > 0 => p.exts # <<>>)
    OBVIOUS
  <2> QED
    BY <2>1, ErrorOutputRight
<1>2. Own(n, EchoReply(n, p))
  BY EchoReplyRight
<1> HIDE DEF error
<1>3. \/ u = Result({}, {p}, r) \/ u = Result({EchoReply(n, p)}, {}, r)
      \/ u = Result(error, {}, r) \/ u = Result({}, {}, r)
  BY DEF Upper, Drop, error
<1> HIDE DEF u
<1>4. u.out \in {{}, {EchoReply(n, p)}, error} /\ u.got \in {{}, {p}} /\ u.reass = r
  BY <1>3 DEF Result
<1>5. (\A q \in u.out : Own(n, q)) /\ u.got \subseteq {p} /\ u.reass = r
  BY <1>1, <1>2, <1>4
<1> QED
  BY <1>5 DEF u

-----------------------------------------------------------------------------
(* The reassembly buffer *)

\* The fields of the buffer
IsReass(r) ==
  /\ DOMAIN r = {"on", "src", "dst", "id", "first", "last", "total", "exts", "proto", "blocks",
                 "data", "even"}
  /\ r.on \in BOOLEAN /\ r.first \in BOOLEAN /\ r.last \in BOOLEAN /\ r.even \in BOOLEAN
  /\ r.total \in Nat /\ r.exts \in Seq(Ext) /\ r.blocks \subseteq 0 .. ReassBlocks
  /\ DOMAIN r.data = Places

\* A reassembly that is on is of a packet for n.
ReassRight(n, r) ==
  /\ IsReass(r)
  /\ r.on => r.dst \in Mine(n) \/ Mcast(r.dst)

\* A buffer that is given up keeps its fields but one.
LEMMA StoppedFields ==
  ASSUME NEW n, NEW r, IsReass(r)
  PROVE  ReassRight(n, Stopped(r)) /\ ~Stopped(r).on
BY DEF Stopped, IsReass, ReassRight

\* Places under headers are empty, the others keep what they have.
LEMMA UnderFields ==
  ASSUME NEW data, DOMAIN data = Places, NEW exts \in Seq(Ext)
  PROVE  /\ DOMAIN UnderHeaders(data, exts) = Places
         /\ \A b \in Places : UnderHeaders(data, exts)[b] = IF b < Len(exts) THEN {} ELSE data[b]
BY DEF UnderHeaders

\* A reassembly that begins is of the packet that comes.
LEMMA BegunFields ==
  ASSUME NEW r, IsReass(r), NEW p, NEW f, NEW exts \in Seq(Ext)
  PROVE  LET b == Begun(r, p, f, exts)
         IN /\ IsReass(b) /\ b.on
            /\ r.on => b = r
            /\ ~r.on => /\ b.src = p.src /\ b.dst = p.dst /\ b.id = f.id /\ ~b.last /\ b.blocks = {}
                       /\ b.exts = exts /\ b.data = UnderHeaders(r.data, exts)
<1>1. CASE r.on
  BY <1>1 DEF Begun
<1>2. CASE ~r.on
  <2> DEFINE D == UnderHeaders(r.data, exts)
  <2>1. DOMAIN D = Places
    BY UnderFields DEF IsReass
  <2>2. Begun(r, p, f, exts) =
          [r EXCEPT !.on = TRUE, !.src = p.src, !.dst = p.dst, !.id = f.id, !.exts = exts,
                    !.data = D, !.first = FALSE, !.last = FALSE, !.blocks = {}, !.even = TRUE]
    BY <1>2 DEF Begun
  <2> HIDE DEF D
  <2>3. LET b == Begun(r, p, f, exts)
        IN /\ IsReass(b) /\ b.on
           /\ b.src = p.src /\ b.dst = p.dst /\ b.id = f.id /\ ~b.last /\ b.blocks = {}
           /\ b.exts = exts /\ b.data = D
    BY <2>1, <2>2 DEF IsReass
  <2> QED
    BY <1>2, <2>3 DEF D
<1> QED
  BY <1>1, <1>2

\* What the header of a fragment changes of the buffer
LEMMA HeadedFields ==
  ASSUME NEW r, IsReass(r), NEW p, NEW f \in Fragment, NEW exts \in Seq(Ext)
  PROVE  LET h == FirstHeaded(r, p, f, exts)
         IN /\ IsReass(h)
            /\ h.on = r.on /\ h.src = r.src /\ h.dst = r.dst /\ h.id = r.id
            /\ h.last = r.last /\ h.total = r.total /\ h.blocks = r.blocks
            /\ h.even => r.even /\ Len(exts) = Len(r.exts) /\ Fits(f, exts)
            /\ h.exts \in {r.exts, exts}
            /\ h.data \in {r.data, UnderHeaders(r.data, exts)}
<1> DEFINE D == UnderHeaders(r.data, exts)
           even == r.even /\ Len(exts) = Len(r.exts) /\ Fits(f, exts)
           s == [r EXCEPT !.even = even]
           h == FirstHeaded(r, p, f, exts)
<1>1. DOMAIN D = Places
  BY UnderFields DEF IsReass
<1>2. even \in BOOLEAN
  OBVIOUS
<1>3. h = IF f.off > 0 THEN s
          ELSE [s EXCEPT !.first = TRUE, !.exts = exts, !.proto = p.top.proto, !.data = D]
  BY DEF FirstHeaded, IsReass
<1>4. even => r.even /\ Len(exts) = Len(r.exts) /\ Fits(f, exts)
  OBVIOUS
<1> HIDE DEF D, even, s, h
<1>5. /\ IsReass(s) /\ s.even = even
      /\ s.on = r.on /\ s.src = r.src /\ s.dst = r.dst /\ s.id = r.id
      /\ s.last = r.last /\ s.total = r.total /\ s.blocks = r.blocks
      /\ s.exts = r.exts /\ s.data = r.data
  BY <1>2 DEF IsReass, s
<1>6. /\ IsReass(h) /\ h.even = s.even
      /\ h.on = s.on /\ h.src = s.src /\ h.dst = s.dst /\ h.id = s.id
      /\ h.last = s.last /\ h.total = s.total /\ h.blocks = s.blocks
      /\ h.exts \in {s.exts, exts} /\ h.data \in {s.data, D}
  <2>1. CASE f.off > 0
    BY <1>3, <1>5, <2>1
  <2>2. CASE ~(f.off > 0)
    BY <1>1, <1>3, <1>5, <2>2 DEF IsReass
  <2> QED
    BY <2>1, <2>2
<1> QED
  BY <1>4, <1>5, <1>6 DEF h, D

\* What a place holds of block k of the packet p that fragment f is of
Piece(p, f, k) == {[top |-> p.top, whole |-> f.whole, at |-> k]}

\* The blocks of a fragment
Cells(f) == f.off .. f.off + f.len - 1

\* data with those of a fragment behind n headers
Filled(data, p, f, n) ==
  [b \in DOMAIN data |-> IF b \in n + f.off .. n + f.off + f.len - 1 THEN Piece(p, f, b - n)
                         ELSE data[b]]

\* a is r with the data of a fragment that came behind these headers.
IsAdded(a, r, p, f, exts) ==
  /\ IsReass(a)
  /\ a.on = r.on /\ a.src = r.src /\ a.dst = r.dst /\ a.id = r.id
  /\ a.exts = r.exts /\ a.even = r.even
  /\ a.last => r.last \/ ~f.more
  /\ f.more => a.total = r.total
  /\ ~f.more => a.total = f.off + f.len
  /\ a.blocks = r.blocks \cup Cells(f)
  /\ a.data = Filled(r.data, p, f, Len(exts))

\* The data of a fragment that passes the check change no more of the buffer.
LEMMA AddedFields ==
  ASSUME NEW r, IsReass(r), NEW p, NEW f \in Fragment, ~Overflows(f), NEW exts \in Seq(Ext)
  PROVE  IsAdded(Added(r, p, f, exts), r, p, f, exts)
<1> DEFINE a == Added(r, p, f, exts)
           n == Len(exts)
           D == Filled(r.data, p, f, n)
<1>1. f.off \in Nat /\ f.len \in Nat /\ f.more \in BOOLEAN /\ f.off + f.len <= ReassBlocks
  BY ReassAssumption DEF Fragment, Overflows
<1>2. Cells(f) \subseteq 0 .. ReassBlocks
  BY <1>1, ReassAssumption DEF Cells
<1>3. DOMAIN D = Places
  BY DEF IsReass, Filled
<1>4. a = [r EXCEPT !.last = @ \/ ~f.more, !.total = IF f.more THEN @ ELSE f.off + f.len,
                    !.blocks = @ \cup Cells(f), !.data = D]
  BY DEF Added, Filled, Piece, Cells
<1> HIDE DEF a, D
<1>5. /\ DOMAIN a = DOMAIN r
      /\ a.on = r.on /\ a.src = r.src /\ a.dst = r.dst /\ a.id = r.id /\ a.first = r.first
      /\ a.exts = r.exts /\ a.even = r.even
  BY <1>4 DEF IsReass
<1>6. a.last \in BOOLEAN /\ (a.last => r.last \/ ~f.more)
  BY <1>4 DEF IsReass
<1>7. (f.more => a.total = r.total) /\ (~f.more => a.total = f.off + f.len)
  BY <1>4 DEF IsReass
<1>8. a.blocks = r.blocks \cup Cells(f)
  BY <1>4 DEF IsReass
<1>9. a.data = D
  BY <1>4 DEF IsReass
<1>10. IsReass(a)
  <2>1. a.total \in Nat
    BY <1>1, <1>7 DEF IsReass
  <2>2. a.blocks \subseteq 0 .. ReassBlocks
    BY <1>2, <1>8 DEF IsReass
  <2> QED
    BY <1>3, <1>5, <1>6, <1>9, <2>1, <2>2 DEF IsReass
<1> QED
  BY <1>3, <1>5, <1>6, <1>7, <1>8, <1>9, <1>10 DEF IsAdded, a, D

\* The fragment header of a packet, and the headers before it
LEMMA FragmentHeader ==
  ASSUME NEW p, p.exts \in Seq(Ext), NEW i \in 1 .. Len(p.exts), p.exts[i].type = "frag"
  PROVE  /\ p.exts[i].frag \in Fragment
         /\ p.exts[i].frag \in Cut(p)
         /\ SubSeq(p.exts, 1, i - 1) \in Seq(Ext)
<1>1. p.exts[i] \in Ext
  OBVIOUS
<1>2. p.exts[i].frag \in Fragment
  BY <1>1 DEF Ext
<1>3. p.exts[i].frag \in Cut(p)
  BY DEF Cut
<1>4. \A j \in 1 .. i - 1 : p.exts[j] \in Ext
  OBVIOUS
<1>5. SubSeq(p.exts, 1, i - 1) \in Seq(Ext)
  OBVIOUS
<1> QED
  BY <1>2, <1>3, <1>5

\* What is done with a fragment is right for its receiver.
LEMMA FragmentInRight ==
  ASSUME NEW n, NEW p, p.exts \in Seq(Ext), ForMe(n, p),
         NEW i \in 1 .. Len(p.exts), p.exts[i].type = "frag",
         NEW r, ReassRight(n, r)
  PROVE  LET res == FragmentIn(n, p, i, r)
         IN /\ \A q \in res.out : Own(n, q)
            /\ \A w \in res.got : ForMe(n, w)
            /\ ReassRight(n, res.reass)
<1> DEFINE f == p.exts[i].frag
           exts == SubSeq(p.exts, 1, i - 1)
           b == Begun(r, p, f, exts)
           h == FirstHeaded(b, p, f, exts)
           a == Added(h, p, f, exts)
           whole == [Packet(a.src, a.dst, Contents(a, exts)) EXCEPT !.exts = a.exts]
           error == ErrorOutput(n, p, i - 1, "header")
           res == FragmentIn(n, p, i, r)
<1> SUFFICES /\ \A q \in res.out : Own(n, q)
             /\ \A w \in res.got : ForMe(n, w)
             /\ ReassRight(n, res.reass)
  OBVIOUS
<1>1. f \in Fragment /\ exts \in Seq(Ext)
  BY FragmentHeader
<1>0. res = IF ~Belongs(b, p, f) THEN Drop(b)
            ELSE IF Overflows(f) THEN Drop(Stopped(h))
            ELSE IF Misaligned(f) THEN Result(error, {}, Stopped(h))
            ELSE IF Complete(a) THEN Upper(n, whole, Stopped(a))
            ELSE Drop(a)
  BY DEF FragmentIn
<1> HIDE DEF f, exts, res
<1>2. IsReass(b) /\ b.on /\ (r.on => b = r) /\ (~r.on => b.dst = p.dst)
  BY <1>1, BegunFields DEF ReassRight
<1>3. ReassRight(n, b)
  BY <1>2 DEF ReassRight, ForMe
<1>4. IsReass(h) /\ h.on = b.on /\ h.dst = b.dst
  BY <1>1, <1>2, HeadedFields
<1> HIDE DEF b, h
<1>5. CASE res \in {Drop(b), Drop(Stopped(h))}
  BY <1>3, <1>4, <1>5, StoppedFields DEF Drop, Result
<1>6. CASE res = Result(error, {}, Stopped(h))
  <2>1. i - 1 \in Nat /\ (i - 1 > 0 => p.exts # <<>>)
    OBVIOUS
  <2>2. \A q \in error : Own(n, q)
    BY <2>1, ErrorOutputRight
  <2> QED
    BY <1>4, <1>6, <2>2, StoppedFields DEF Result
<1>7. CASE Belongs(b, p, f) /\ ~Overflows(f) /\ res \in {Upper(n, whole, Stopped(a)), Drop(a)}
  <2>0. ~Overflows(f)
    BY <1>7
  <2>1. IsAdded(a, h, p, f, exts)
    BY <1>1, <1>4, <2>0, AddedFields
  <2>2. ReassRight(n, a)
    BY <1>3, <1>4, <2>1 DEF IsAdded, ReassRight
  <2>3. whole.exts = a.exts /\ whole.dst = a.dst
    BY DEF Packet
  <2> HIDE DEF a, whole
  <2>4. whole.exts \in Seq(Ext) /\ ForMe(n, whole)
    BY <1>2, <1>3, <1>4, <2>1, <2>3 DEF IsAdded, IsReass, ReassRight, ForMe
  <2>5. CASE res = Drop(a)
    BY <2>2, <2>5 DEF Drop, Result
  <2>6. CASE res = Upper(n, whole, Stopped(a))
    BY <2>1, <2>4, <2>6, UpperRight, StoppedFields DEF IsAdded
  <2> QED
    BY <1>7, <2>5, <2>6
<1> QED
  BY <1>0, <1>5, <1>6, <1>7

\* What Headers does is one of five.
LEMMA HeadersCases ==
  ASSUME NEW n, NEW p, NEW r, p.exts \in Seq(Ext)
  PROVE  LET res == Headers(n, p, r)
         IN \/ res = Upper(n, p, r) \/ res = Drop(r)
            \/ \E i \in 1 .. Len(p.exts), why \in {"nexthdr", "option", "header"} :
                 res = Result(ErrorOutput(n, p, i - 1, why), {}, r)
            \/ \E i \in 1 .. Len(p.exts) : p.exts[i].type = "frag" /\ res = FragmentIn(n, p, i, r)
<1> DEFINE halts == {j \in 1 .. Len(p.exts) : Halts(p, j)}
           i == CHOOSE j \in halts : \A k \in halts : j <= k
           res == Headers(n, p, r)
<1>1. res = IF halts = {} THEN Upper(n, p, r)
            ELSE IF Repeated(p, i) THEN Result(ErrorOutput(n, p, i - 1, "nexthdr"), {}, r)
            ELSE IF BadOption(p, i) THEN OptionError(n, p, i, r)
            ELSE IF p.exts[i].type = "routing" THEN Result(ErrorOutput(n, p, i - 1, "header"), {}, r)
            ELSE FragmentIn(n, p, i, r)
  BY DEF Headers
<1>2. ASSUME halts # {} PROVE i \in 1 .. Len(p.exts) /\ Halts(p, i)
  <2>1. halts \in SUBSET Nat
    OBVIOUS
  <2>2. \E j \in halts : \A k \in halts : j <= k
    BY <1>2, <2>1, LeastNatural
  <2>3. i \in halts
    BY <2>2
  <2> QED
    BY <2>3
<1> HIDE DEF i, halts, res
<1>3. CASE halts = {}
  BY <1>1, <1>3 DEF res
<1>4. CASE halts # {}
  <2>1. OptionError(n, p, i, r) \in {Drop(r), Result(ErrorOutput(n, p, i - 1, "option"), {}, r)}
    BY DEF OptionError
  <2>2. ~Repeated(p, i) /\ ~BadOption(p, i) /\ p.exts[i].type # "routing" => p.exts[i].type = "frag"
    BY <1>2, <1>4 DEF Halts
  <2> QED
    BY <1>1, <1>2, <1>4, <2>1, <2>2 DEF res
<1> QED
  BY <1>3, <1>4

\* What Process leaves is a packet that goes on, or answers; what it gives to the upper
\* layers is for the node, or for a group.
LEMMA HeadersRight ==
  ASSUME NEW n, NEW p, p.exts \in Seq(Ext), ForMe(n, p), NEW r, ReassRight(n, r)
  PROVE  LET res == Headers(n, p, r)
         IN /\ \A q \in res.out : Own(n, q)
            /\ \A w \in res.got : ForMe(n, w)
            /\ ReassRight(n, res.reass)
<1> DEFINE res == Headers(n, p, r)
<1> SUFFICES /\ \A q \in res.out : Own(n, q)
             /\ \A w \in res.got : ForMe(n, w)
             /\ ReassRight(n, res.reass)
  OBVIOUS
<1>1. \/ res = Upper(n, p, r) \/ res = Drop(r)
      \/ \E i \in 1 .. Len(p.exts), why \in {"nexthdr", "option", "header"} :
           res = Result(ErrorOutput(n, p, i - 1, why), {}, r)
      \/ \E i \in 1 .. Len(p.exts) : p.exts[i].type = "frag" /\ res = FragmentIn(n, p, i, r)
  BY HeadersCases
<1> HIDE DEF res
<1>2. CASE res = Upper(n, p, r)
  BY <1>2, UpperRight
<1>3. CASE res = Drop(r)
  BY <1>3 DEF Drop, Result
<1>4. ASSUME NEW i \in 1 .. Len(p.exts), NEW why, res = Result(ErrorOutput(n, p, i - 1, why), {}, r)
      PROVE  /\ \A q \in res.out : Own(n, q)
             /\ \A w \in res.got : ForMe(n, w)
             /\ ReassRight(n, res.reass)
  <2>1. i - 1 \in Nat /\ p.exts # <<>>
    OBVIOUS
  <2>2. \A q \in ErrorOutput(n, p, i - 1, why) : Own(n, q)
    BY <2>1, ErrorOutputRight
  <2> QED
    BY <1>4, <2>2 DEF Result
<1>5. ASSUME NEW i \in 1 .. Len(p.exts), p.exts[i].type = "frag", res = FragmentIn(n, p, i, r)
      PROVE  /\ \A q \in res.out : Own(n, q)
             /\ \A w \in res.got : ForMe(n, w)
             /\ ReassRight(n, res.reass)
  BY <1>5, FragmentInRight
<1> QED
  BY <1>1, <1>2, <1>3, <1>4, <1>5

-----------------------------------------------------------------------------
(* Routing *)

\* What Process leaves at n of p is p with a smaller hop limit, or an answer; what it gives
\* to the upper layers is for n or for a group.
LEMMA ProcessRight ==
  ASSUME NEW n, NEW p, IsPacket(p), NEW r, ReassRight(n, r)
  PROVE  LET res == Process(n, p, r)
         IN /\ \A q \in res.out : Own(n, q) \/ (q = Forwarded(p) /\ p.hl > 1)
            /\ \A w \in res.got : ForMe(n, w)
            /\ ReassRight(n, res.reass)
<1> DEFINE res == Process(n, p, r)
           hbh == p.exts # <<>> /\ p.exts[1].type = "hbh"
           eaten == IF hbh THEN 1 ELSE 0
           Right(o) == /\ \A q \in o.out : Own(n, q) \/ (q = Forwarded(p) /\ p.hl > 1)
                       /\ \A w \in o.got : ForMe(n, w)
                       /\ ReassRight(n, o.reass)
<1> SUFFICES Right(res)
  OBVIOUS
<1>1. p.exts \in Seq(Ext) /\ p.hl \in Nat
  BY DEF IsPacket
<1>2. Right(Drop(r))
  BY DEF Drop, Result
<1>3. ASSUME ForMe(n, p) PROVE Right(Headers(n, p, r))
  <2> DEFINE h == Headers(n, p, r)
  <2>1. /\ \A q \in h.out : Own(n, q)
        /\ \A w \in h.got : ForMe(n, w)
        /\ ReassRight(n, h.reass)
    BY <1>1, <1>3, HeadersRight
  <2> QED
    BY <2>1
<1>4. ASSUME n \in Routers, NEW k \in Nat, NEW why, k > 0 => p.exts # <<>>
      PROVE  Right(Result(ErrorOutput(n, p, k, why), {}, r))
  <2>1. \A q \in ErrorOutput(n, p, k, why) : Own(n, q)
    BY <1>4, ErrorOutputRight
  <2> QED
    BY <2>1 DEF Result
<1>5. Right(Result({Forwarded(p)}, {}, r)) \/ p.hl <= 1
  BY <1>1 DEF Result
<1>6. eaten \in Nat /\ (eaten > 0 => p.exts # <<>>)
  OBVIOUS
<1> HIDE DEF Right, eaten
<1>7. ASSUME n \in Routers PROVE Right(Route(n, p, eaten, r))
  <2>1. \/ Route(n, p, eaten, r) = Drop(r)
        \/ \E why \in {"too big", "hops", "not neighbour"} :
             Route(n, p, eaten, r) = Result(ErrorOutput(n, p, eaten, why), {}, r)
        \/ ~(p.hl <= 1) /\ Route(n, p, eaten, r) = Result({Forwarded(p)}, {}, r)
    BY DEF Route
  <2>2. \A why : Right(Result(ErrorOutput(n, p, eaten, why), {}, r))
    BY <1>4, <1>6, <1>7
  <2> QED
    BY <1>2, <1>5, <2>1, <2>2
<1>8. ASSUME n \in Routers PROVE Right(OptionError(n, p, 1, r))
  <2>1. OptionError(n, p, 1, r) \in {Drop(r), Result(ErrorOutput(n, p, 0, "option"), {}, r)}
    BY DEF OptionError
  <2>2. Right(Result(ErrorOutput(n, p, 0, "option"), {}, r))
    BY <1>4, <1>8
  <2> QED
    BY <1>2, <2>1, <2>2
<1>9. ASSUME n \in Routers PROVE Right(RouterInput(n, p, r))
  <2>1. RouterInput(n, p, r) = IF hbh /\ BadOption(p, 1) THEN OptionError(n, p, 1, r)
                               ELSE IF p.dst \in Mine(n) \cup MyGroups THEN Headers(n, p, r)
                               ELSE Route(n, p, eaten, r)
    BY DEF RouterInput, eaten
  <2>2. p.dst \in Mine(n) \cup MyGroups => ForMe(n, p)
    BY DEF MyGroups, AllNodes, ForMe, Mcast
  <2> QED
    BY <1>3, <1>7, <1>8, <1>9, <2>1, <2>2
<1>10. Right(HostInput(n, p, r))
  BY <1>2, <1>3 DEF HostInput, ForMe
<1> QED
  BY <1>2, <1>9, <1>10 DEF Process

-----------------------------------------------------------------------------
(* Steps *)

\* The variables have their shape.
Shaped ==
  /\ sent \in Nat /\ DOMAIN reass = Nodes /\ DOMAIN up = Nodes
  /\ \A f \in flight : IsPacket(f.pkt)
  /\ \A n \in Nodes : ReassRight(n, reass[n])

\* Output sends a packet as it is.
LEMMA OutputFrames ==
  ASSUME NEW n, NEW q, NEW g \in Output(n, q)
  PROVE  g.from = n /\ g.pkt = q
BY DEF Output

\* A frame that a step adds is the stranger's, or of a node: a packet of its own, or one that
\* it forwards.
NewFrame(g) ==
  \/ g.from = Stranger /\ g.pkt \in SentPackets
  \/ g.from \in Nodes /\ Own(g.from, g.pkt)
  \/ g.from \in Nodes /\ \E f \in flight : g.pkt = Forwarded(f.pkt) /\ f.pkt.hl > 1

\* What a task sends is a packet of the node's own.
LEMMA TaskSends ==
  ASSUME NEW n \in Nodes, NEW dst, NEW top, top.proto # "mixed",
         top.proto = "icmp" => top.type \notin {"error", "reply"},
         NEW g \in Output(n, Packet(SelectSrc(n, dst), dst, top))
  PROVE  NewFrame(g)
<1> DEFINE q == Packet(SelectSrc(n, dst), dst, top)
<1>1. g.from = n /\ g.pkt = q
  BY OutputFrames
<1>2. q.exts = <<>> /\ q.top = top /\ q.hl = HopLimit /\ q.src = SelectSrc(n, dst)
  BY DEF Packet
<1>3. IsPacket(q)
  BY PacketFields
<1> HIDE DEF q
<1>4. MaySendFrom(n, q.src)
  BY <1>2, SelectSrcRight
<1>5. Own(n, q)
  BY <1>2, <1>3, <1>4 DEF Own, Answers
<1> QED
  BY <1>1, <1>5 DEF NewFrame

\* Each step keeps frames or adds new ones, and does with a node's reassembly and upper
\* layers nothing, or what Process does; or the reassembly is given up.
LEMMA StepCases ==
  ASSUME Shaped, [Next]_vars
  PROVE  /\ sent' \in Nat /\ DOMAIN reass' = Nodes /\ DOMAIN up' = Nodes
         /\ \A g \in flight' : g \in flight \/ NewFrame(g)
         /\ \A n \in Nodes :
              \/ reass'[n] = reass[n] /\ up'[n] = up[n]
              \/ reass'[n] = Stopped(reass[n]) /\ up'[n] = up[n]
              \/ \E f \in flight : LET res == Process(n, f.pkt, reass[n])
                                   IN reass'[n] = res.reass /\ up'[n] = res.got
<1>1. CASE StrangerSends
  <2>1. PICK f \in Foreign[sent + 1] :
          flight' = flight \cup {[from |-> Stranger, to |-> f.to, pkt |-> f.pkt]}
    BY <1>1 DEF StrangerSends
  <2>2. sent + 1 \in 1 .. MaxSent
    BY <1>1, Ip6Assumption DEF StrangerSends, Shaped, MaxSent
  <2>3. f.pkt \in SentPackets
    BY <2>1, <2>2 DEF SentPackets
  <2>4. \A g \in flight' : g \in flight \/ NewFrame(g)
    BY <2>1, <2>3 DEF NewFrame
  <2>5. sent' \in Nat /\ reass' = reass /\ up' = up
    BY <1>1 DEF StrangerSends, Shaped
  <2> QED
    BY <2>4, <2>5 DEF Shaped
<1>2. ASSUME NEW n \in Nodes, UdpSend(n)
      PROVE  (\A g \in flight' : g \in flight \/ NewFrame(g)) /\ sent' = sent + 1 /\ reass' = reass
             /\ up' = up
  <2>1. PICK c \in UdpConns[n] :
          flight' = flight \cup Output(n, Packet(SelectSrc(n, c.rip), c.rip,
                      [proto |-> "udp", sport |-> c.lport, dport |-> c.rport]))
    BY <1>2 DEF UdpSend
  <2> DEFINE top == [proto |-> "udp", sport |-> c.lport, dport |-> c.rport]
  <2>2. top.proto = "udp"
    OBVIOUS
  <2> HIDE DEF top
  <2>3. \A g \in Output(n, Packet(SelectSrc(n, c.rip), c.rip, top)) : NewFrame(g)
    BY <2>2, TaskSends
  <2> QED
    BY <1>2, <2>1, <2>3 DEF UdpSend, top
<1>3. ASSUME NEW n \in Nodes, Ping(n)
      PROVE  (\A g \in flight' : g \in flight \/ NewFrame(g)) /\ sent' = sent + 1 /\ reass' = reass
             /\ up' = up
  <2>1. PICK dst :
          LET p == Packet(SelectSrc(n, dst), dst, [proto |-> "none"])
          IN flight' = flight \cup Output(n, [p EXCEPT !.top = Icmp("request", "", p)])
    BY <1>3 DEF Ping
  <2> DEFINE p == Packet(SelectSrc(n, dst), dst, [proto |-> "none"])
             top == Icmp("request", "", p)
  <2>2. top.proto = "icmp" /\ top.type = "request"
    BY DEF Icmp
  <2> HIDE DEF top
  <2>3. [p EXCEPT !.top = top] = Packet(SelectSrc(n, dst), dst, top)
    BY DEF Packet
  <2>4. \A g \in Output(n, [p EXCEPT !.top = top]) : NewFrame(g)
    BY <2>2, <2>3, TaskSends
  <2> QED
    BY <1>3, <2>1, <2>4 DEF Ping, top
<1>4. ASSUME NEW n \in Nodes, ReassOver(n)
      PROVE  /\ \A g \in flight' : g \in flight \/ NewFrame(g)
             /\ reass' = [reass EXCEPT ![n] = Stopped(@)] /\ up' = up /\ sent' = sent
  <2> DEFINE r == reass[n]
             quoted == [Packet(r.src, r.dst, [proto |-> "none"]) EXCEPT !.exts = r.exts]
             error == ErrorOutput(n, quoted, 0, "reassembly")
  <2>1. PICK e \in OverErrors(n, r) : flight' = flight \cup UNION {Output(n, q) : q \in e}
    BY <1>4 DEF ReassOver
  <2>2. e \in {{}, error}
    BY DEF OverErrors
  <2>3. quoted.dst = r.dst
    BY DEF Packet
  <2>4. ForMe(n, quoted)
    BY <1>4, <2>3 DEF ReassOver, Shaped, ReassRight, ForMe
  <2> HIDE DEF quoted
  <2>5. \A q \in error : Own(n, q)
    BY <2>4, ErrorOutputRight
  <2> HIDE DEF error, r
  <2>6. \A q \in e : \A g \in Output(n, q) : NewFrame(g)
    BY <2>2, <2>5, OutputFrames DEF NewFrame
  <2> QED
    BY <1>4, <2>1, <2>6 DEF ReassOver, r
<1>5. ASSUME NEW f \in flight, Input(f)
      PROVE  /\ \A g \in flight' : g \in flight \/ NewFrame(g)
             /\ f.to \in Nodes /\ sent' = sent
             /\ LET res == Process(f.to, f.pkt, reass[f.to])
                IN /\ reass' = [reass EXCEPT ![f.to] = res.reass]
                   /\ up' = [up EXCEPT ![f.to] = res.got]
  <2> DEFINE res == Process(f.to, f.pkt, reass[f.to])
  <2>1. IsPacket(f.pkt) /\ ReassRight(f.to, reass[f.to]) /\ f.to \in Nodes
    BY <1>5 DEF Input, Shaped
  <2>2. \A q \in res.out : Own(f.to, q) \/ (q = Forwarded(f.pkt) /\ f.pkt.hl > 1)
    BY <2>1, ProcessRight
  <2>3. flight' = (flight \ {f}) \cup UNION {Output(f.to, q) : q \in res.out}
    BY <1>5 DEF Input
  <2> HIDE DEF res
  <2>4. \A q \in res.out : \A g \in Output(f.to, q) : NewFrame(g)
    BY <2>1, <2>2, OutputFrames DEF NewFrame
  <2>5. \A g \in flight' : g \in flight \/ NewFrame(g)
    BY <2>3, <2>4
  <2> QED
    BY <1>5, <2>1, <2>5 DEF Input
<1>6. ASSUME NEW f \in flight, Lose(f)
      PROVE  flight' \subseteq flight /\ UNCHANGED <<reass, up, sent>>
  BY <1>6 DEF Lose
<1>7. CASE UNCHANGED vars
  BY <1>7 DEF vars, Shaped
<1>8. CASE \E n \in Nodes : UdpSend(n) \/ Ping(n)
  BY <1>2, <1>3, <1>8 DEF Shaped
<1>9. CASE \E n \in Nodes : ReassOver(n)
  BY <1>4, <1>9 DEF Shaped
<1>10. CASE \E f \in flight : Input(f)
  BY <1>5, <1>10 DEF Shaped
<1>11. CASE \E f \in flight : Lose(f)
  BY <1>6, <1>11 DEF Shaped
<1> QED
  BY <1>1, <1>7, <1>8, <1>9, <1>10, <1>11 DEF Next

\* A packet that is forwarded keeps all fields but one.
LEMMA ForwardedFields ==
  ASSUME NEW p, IsPacket(p), p.hl > 1
  PROVE  LET q == Forwarded(p)
         IN /\ IsPacket(q) /\ q.hl = p.hl - 1
            /\ q.src = p.src /\ q.dst = p.dst /\ q.exts = p.exts /\ q.top = p.top
BY DEF Forwarded, IsPacket

\* The shape is kept.
LEMMA ShapedStep ==
  Shaped /\ [Next]_vars => Shaped'
<1> SUFFICES ASSUME Shaped, [Next]_vars PROVE Shaped'
  OBVIOUS
<1>1. ASSUME NEW g \in flight' PROVE IsPacket(g.pkt)
  <2>1. g \in flight \/ NewFrame(g)
    BY <1>1, StepCases
  <2>2. CASE g \in flight
    BY <2>2 DEF Shaped
  <2>3. CASE NewFrame(g)
    BY <2>3, SentArePackets, ForwardedFields DEF NewFrame, Own, Shaped
  <2> QED
    BY <2>1, <2>2, <2>3
<1>2. ASSUME NEW n \in Nodes PROVE ReassRight(n, reass'[n])
  <2>1. ReassRight(n, reass[n])
    BY DEF Shaped
  <2>2. \/ reass'[n] = reass[n]
        \/ reass'[n] = Stopped(reass[n])
        \/ \E f \in flight : reass'[n] = Process(n, f.pkt, reass[n]).reass
    BY StepCases
  <2>3. ReassRight(n, Stopped(reass[n]))
    BY <2>1, StoppedFields DEF ReassRight
  <2>4. \A f \in flight : ReassRight(n, Process(n, f.pkt, reass[n]).reass)
    BY <2>1, ProcessRight DEF Shaped
  <2> QED
    BY <2>1, <2>2, <2>3, <2>4
<1>3. sent' \in Nat /\ DOMAIN reass' = Nodes /\ DOMAIN up' = Nodes
  BY StepCases
<1> QED
  BY <1>1, <1>2, <1>3 DEF Shaped

LEMMA ShapedInit ==
  Init => Shaped
<1> SUFFICES ASSUME Init PROVE Shaped
  OBVIOUS
<1>1. IsReass(IdleReass) /\ ~IdleReass.on
  BY DEF IdleReass, IsReass
<1>2. \A n \in Nodes : ReassRight(n, reass[n])
  BY <1>1 DEF Init, ReassRight
<1> QED
  BY <1>2 DEF Init, Shaped

-----------------------------------------------------------------------------
(* Answers *)

\* Every frame on the link is as answers should be, also while others forward it: only its
\* first hop has the full hop limit.
FramesAnswer ==
  \A f \in flight :
    /\ f.pkt.hl <= HopLimit /\ Answers(f.pkt)
    /\ f.from # Stranger /\ f.pkt.hl = HopLimit => MaySendFrom(f.from, f.pkt.src)

LEMMA FramesAnswerStep ==
  ASSUME ForeignAnswers
  PROVE  Shaped /\ FramesAnswer /\ [Next]_vars => FramesAnswer'
<1> SUFFICES ASSUME Shaped, FramesAnswer, [Next]_vars, NEW g \in flight'
             PROVE  /\ g.pkt.hl <= HopLimit /\ Answers(g.pkt)
                    /\ g.from # Stranger /\ g.pkt.hl = HopLimit => MaySendFrom(g.from, g.pkt.src)
  BY DEF FramesAnswer, MaySendFrom, Mine
<1>1. g \in flight \/ NewFrame(g)
  BY StepCases
<1>2. CASE g \in flight
  BY <1>2 DEF FramesAnswer
<1>3. CASE g.from = Stranger /\ g.pkt \in SentPackets
  BY <1>3, ForeignAnswers DEF ForeignAnswers
<1>4. CASE Own(g.from, g.pkt)
  BY <1>4, Ip6Assumption DEF Own
<1>5. ASSUME NEW f \in flight, g.pkt = Forwarded(f.pkt), f.pkt.hl > 1
      PROVE  g.pkt.hl < HopLimit /\ Answers(g.pkt)
  <2>1. IsPacket(f.pkt) /\ f.pkt.hl <= HopLimit /\ Answers(f.pkt)
    BY DEF Shaped, FramesAnswer
  <2>2. g.pkt.hl = f.pkt.hl - 1 /\ g.pkt.dst = f.pkt.dst /\ g.pkt.top = f.pkt.top
    BY <1>5, <2>1, ForwardedFields
  <2>3. g.pkt.hl < HopLimit
    BY <2>1, <2>2, Ip6Assumption DEF IsPacket
  <2>4. Answers(g.pkt)
    BY <2>1, <2>2 DEF Answers
  <2> QED
    BY <2>3, <2>4
<1>6. CASE \E f \in flight : g.pkt = Forwarded(f.pkt) /\ f.pkt.hl > 1
  <2>1. PICK f \in flight : g.pkt = Forwarded(f.pkt) /\ f.pkt.hl > 1
    BY <1>6
  <2>2. g.pkt.hl < HopLimit /\ Answers(g.pkt)
    BY <1>5, <2>1
  <2>3. g.pkt.hl \in Nat
    BY <2>1, ForwardedFields DEF Shaped, IsPacket
  <2> QED
    BY <2>2, <2>3, Ip6Assumption
<1> QED
  BY <1>1, <1>2, <1>3, <1>4, <1>6 DEF NewFrame

\* Errors and replies go to the sender of what they are about, never to nobody, and not about
\* errors or groups where that is excluded; and they come from an address of the node, or
\* from :: when it has none: for any number of nodes, whatever they forward, and all
\* that the stranger sends, if its own errors and replies are right.
THEOREM AnswersRightAlways ==
  ASSUME ForeignAnswers
  PROVE  Spec => []AnswersRight
<1>1. Init => FramesAnswer
  BY DEF Init, FramesAnswer
<1>2. Shaped /\ FramesAnswer => AnswersRight
  BY DEF FramesAnswer, AnswersRight, MaySendFrom
<1> QED
  BY <1>1, <1>2, ShapedInit, ShapedStep, FramesAnswerStep, PTL DEF Spec

-----------------------------------------------------------------------------
(* Fragments *)

\* The fragments in a packet are the stranger's, with addresses and contents as it sent them.
FromSent(p) ==
  \A f \in Cut(p) : \E q \in SentPackets :
    f \in Cut(q) /\ q.src = p.src /\ q.dst = p.dst /\ q.top = p.top

\* Fragment g of packet q is one that the reassembly r collects.
Collects(r, q, g) == q.src = r.src /\ q.dst = r.dst /\ g.id = r.id

\* As long as all fragments have as many headers: nothing has been put where the headers
\* are, and each block of the bitmap is in its place behind them.
Placed(r) ==
  /\ \A b \in 0 .. Len(r.exts) - 1 : Held(r, b) = {}
  /\ \A k \in r.blocks : \E q \in SentPackets : \E g \in Cut(q) :
       /\ Collects(r, q, g)
       /\ Held(r, Len(r.exts) + k) = {[top |-> q.top, whole |-> g.whole, at |-> k]}

\* No data are of a mixture; what the buffer has is in its place, and the length that it knows
\* is that of the packet that it collects.
Collected(r) ==
  /\ \A b \in Places : \A d \in r.data[b] : d.top.proto # "mixed"
  /\ r.on /\ r.even => Placed(r)
  /\ r.on /\ r.last => \E q \in SentPackets : \E g \in Cut(q) :
                         Collects(r, q, g) /\ r.total = g.whole /\ r.total > 0

\* A buffer that is given up is in the way of nothing.
LEMMA CollectedStopped ==
  ASSUME NEW r, IsReass(r), \A b \in Places : \A d \in r.data[b] : d.top.proto # "mixed"
  PROVE  Collected(Stopped(r))
<1>1. ~Stopped(r).on /\ Stopped(r).data = r.data
  BY DEF Stopped, IsReass
<1> QED
  BY <1>1 DEF Collected

\* A reassembly that begins has collected nothing.
LEMMA CollectedBegun ==
  ASSUME NEW r, IsReass(r), Collected(r), NEW p, NEW f, NEW exts \in Seq(Ext)
  PROVE  Collected(Begun(r, p, f, exts))
<1> DEFINE b == Begun(r, p, f, exts)
<1>1. /\ r.on => b = r
      /\ ~r.on => ~b.last /\ b.blocks = {} /\ b.exts = exts /\ b.data = UnderHeaders(r.data, exts)
  BY BegunFields
<1>2. /\ DOMAIN UnderHeaders(r.data, exts) = Places
      /\ \A c \in Places :
           UnderHeaders(r.data, exts)[c] = IF c < Len(exts) THEN {} ELSE r.data[c]
  BY UnderFields DEF IsReass
<1> HIDE DEF b
<1>3. CASE r.on
  BY <1>1, <1>3 DEF b
<1>4. CASE ~r.on
  <2>1. \A c \in 0 .. Len(exts) - 1 : Held(b, c) = {}
    BY <1>1, <1>2, <1>4 DEF Held
  <2>2. \A c \in Places : \A d \in b.data[c] : d.top.proto # "mixed"
    BY <1>1, <1>2, <1>4 DEF Collected
  <2>3. Collected(b)
    BY <1>1, <1>4, <2>1, <2>2 DEF Collected, Placed
  <2> QED
    BY <2>3 DEF b
<1> QED
  BY <1>3, <1>4

\* A fragment that belongs to it is collected.
LEMMA CollectedAdded ==
  ASSUME ForeignCuts,
         NEW r, IsReass(r), r.on, Collected(r), NEW p, FromSent(p), p.top.proto # "mixed",
         NEW f \in Fragment, f \in Cut(p), Belongs(r, p, f), ~Overflows(f), NEW exts \in Seq(Ext)
  PROVE  LET a == Added(FirstHeaded(r, p, f, exts), p, f, exts)
         IN Collected(a) /\ (a.even => Len(exts) = Len(a.exts))
<1> DEFINE h == FirstHeaded(r, p, f, exts)
           a == Added(h, p, f, exts)
           n == Len(exts)
           places == n + f.off .. n + f.off + f.len - 1
           U == UnderHeaders(r.data, exts)
<1>1. /\ IsReass(h)
      /\ h.on = r.on /\ h.src = r.src /\ h.dst = r.dst /\ h.id = r.id
      /\ h.last = r.last /\ h.total = r.total /\ h.blocks = r.blocks
      /\ h.even => r.even /\ n = Len(r.exts) /\ Fits(f, exts)
      /\ h.exts \in {r.exts, exts} /\ h.data \in {r.data, U}
  BY HeadedFields
<1> HIDE DEF h
<1>2. IsAdded(a, h, p, f, exts)
  BY <1>1, AddedFields
<1>0. \A b \in Places :
        a.data[b] = IF b \in places THEN Piece(p, f, b - n) ELSE h.data[b]
  BY <1>1, <1>2 DEF IsAdded, Filled, IsReass
<1> HIDE DEF a
<1>3. /\ DOMAIN U = Places /\ DOMAIN r.data = Places /\ DOMAIN a.data = Places
      /\ \A b \in Places : U[b] = IF b < n THEN {} ELSE r.data[b]
  BY <1>2, UnderFields DEF IsAdded, IsReass
<1> HIDE DEF U
<1>4. PICK q \in SentPackets : f \in Cut(q) /\ q.src = p.src /\ q.dst = p.dst /\ q.top = p.top
  BY DEF FromSent
<1>5. Collects(r, q, f)
  BY <1>4 DEF Belongs, Collects
<1>6. ~f.more => f.whole = f.off + f.len /\ f.whole > 0
  BY <1>4, ForeignCuts DEF ForeignCuts
<1>7. \A o, g : Collects(a, o, g) <=> Collects(r, o, g)
  BY <1>1, <1>2 DEF IsAdded, Collects
<1>8. ASSUME NEW b \in Places, NEW d \in a.data[b] PROVE d.top.proto # "mixed"
  <2>1. CASE b \in places
    <3> HIDE DEF places
    <3>1. d \in Piece(p, f, b - n)
      BY <1>0, <2>1
    <3>2. d.top = p.top
      BY <3>1 DEF Piece
    <3> QED
      BY <3>2
  <2>2. CASE b \notin places
    <3>1. d \in r.data[b]
      BY <1>0, <1>1, <1>3, <1>8, <2>2
    <3> QED
      BY <3>1 DEF Collected
  <2> QED
    BY <2>1, <2>2
<1>9. ASSUME a.even PROVE Placed(a) /\ n = Len(a.exts)
  <2>1. r.even /\ n = Len(r.exts) /\ n = Len(a.exts) /\ Fits(f, exts)
    BY <1>1, <1>2, <1>9 DEF IsAdded
  <2>2. n \in Nat /\ f.off \in Nat /\ f.len \in Nat
    BY DEF Fragment
  <2>3. places \subseteq Places
    <3>1. /\ ReassBlocks \in Nat /\ Behind \in Nat
          /\ IpBlocks + n + f.off + f.len <= ReassBlocks
      BY <2>1, ReassAssumption DEF Fits
    <3> HIDE DEF n
    <3>2. ASSUME NEW b \in places PROVE b \in Places
      BY <2>2, <3>1 DEF Places, IpBlocks
    <3> QED
      BY <3>2
  <2>4. Placed(r)
    BY <2>1 DEF Collected
  <2>5. ASSUME NEW b \in 0 .. n - 1 PROVE Held(a, b) = {}
    <3>1. b \notin places /\ b < n
      BY <2>2
    <3>2. Held(r, b) = {}
      BY <2>1, <2>4 DEF Placed
    <3> QED
      BY <1>0, <1>1, <1>3, <3>1, <3>2 DEF Held
  <2>6. ASSUME NEW k \in a.blocks
        PROVE  \E o \in SentPackets : \E g \in Cut(o) :
                 /\ Collects(a, o, g)
                 /\ Held(a, n + k) = {[top |-> o.top, whole |-> g.whole, at |-> k]}
    <3>0. k \in Int
      BY <1>2 DEF IsAdded, IsReass
    <3>1. CASE k \in Cells(f)
      <4>1. n + k \in places /\ (n + k) - n = k
        BY <2>2, <3>0, <3>1 DEF Cells
      <4> HIDE DEF places
      <4>2. Held(a, n + k) = Piece(p, f, k)
        BY <1>0, <1>3, <2>3, <4>1 DEF Held
      <4> QED
        BY <1>4, <1>5, <1>7, <4>2 DEF Piece
    <3>2. CASE k \notin Cells(f)
      <4>1. k \in r.blocks
        BY <1>1, <1>2, <3>2 DEF IsAdded
      <4>2. n + k \notin places /\ ~(n + k < n)
        BY <2>2, <3>0, <3>2, <4>1 DEF Cells, IsReass
      <4>3. Held(a, n + k) = Held(r, n + k)
        BY <1>0, <1>1, <1>3, <4>2 DEF Held
      <4> QED
        BY <1>7, <2>1, <2>4, <4>1, <4>3 DEF Placed
    <3> QED
      BY <3>1, <3>2
  <2> QED
    BY <2>1, <2>5, <2>6 DEF Placed
<1>10. ASSUME a.last
       PROVE  \E o \in SentPackets : \E g \in Cut(o) :
                Collects(a, o, g) /\ a.total = g.whole /\ a.total > 0
  <2>1. CASE ~f.more
    BY <1>2, <1>4, <1>5, <1>6, <1>7, <2>1 DEF IsAdded
  <2>2. CASE f.more /\ r.last
    BY <1>1, <1>2, <1>7, <2>2 DEF IsAdded, Collected
  <2> QED
    BY <1>1, <1>2, <1>10, <2>1, <2>2 DEF IsAdded
<1>11. Collected(a)
  BY <1>8, <1>9, <1>10 DEF Collected
<1> QED
  BY <1>9, <1>11 DEF a, h

\* All that a buffer has collected in even pieces is of one packet, so that a complete one
\* has its contents.
LEMMA CompleteWhole ==
  ASSUME ForeignCuts,
         NEW r, IsReass(r), r.on, Collected(r), Complete(r),
         NEW exts \in Seq(Ext), r.even => Len(exts) = Len(r.exts)
  PROVE  Contents(r, exts).proto = "mixed" => ~Contents(r, exts).even
<1> DEFINE n == Len(r.exts)
           size == Len(exts) + r.total - n
           Whole(d) == d.whole = size
                       /\ \A k \in 0 .. size - 1 : Held(r, n + k) = {[d EXCEPT !.at = k]}
           whole == (\A b \in 0 .. n - 1 : Held(r, b) = {}) /\ \E d \in Held(r, n) : Whole(d)
<1>1. Contents(r, exts) = IF whole THEN (CHOOSE d \in Held(r, n) : Whole(d)).top
                          ELSE [proto |-> "mixed", even |-> r.even]
  BY DEF Contents
<1>2. CASE whole
  <2>1. (CHOOSE d \in Held(r, n) : Whole(d)) \in Held(r, n)
    BY <1>2
  <2>2. \A d \in Held(r, n) : d.top.proto # "mixed"
    BY DEF Held, Collected, IsReass
  <2> HIDE DEF Whole, whole
  <2> QED
    BY <1>1, <1>2, <2>1, <2>2
<1>3. CASE ~whole
  <2> SUFFICES ASSUME r.even PROVE whole
    BY <1>1, <1>3
  <2>1. Placed(r) /\ size = r.total
    BY DEF Collected, IsReass
  <2>2. r.last /\ 0 .. r.total - 1 \subseteq r.blocks
    BY DEF Complete
  <2>3. PICK q \in SentPackets : \E g \in Cut(q) :
          Collects(r, q, g) /\ r.total = g.whole /\ r.total > 0
    BY <2>2 DEF Collected
  <2>4. PICK g \in Cut(q) : Collects(r, q, g) /\ r.total = g.whole /\ r.total > 0
    BY <2>3
  <2> DEFINE d == [top |-> q.top, whole |-> g.whole, at |-> 0]
  <2>5. ASSUME NEW k \in 0 .. r.total - 1
        PROVE  Held(r, n + k) = {[d EXCEPT !.at = k]}
    <3>0. PICK o \in SentPackets : \E e \in Cut(o) :
            Collects(r, o, e) /\ Held(r, n + k) = {[top |-> o.top, whole |-> e.whole, at |-> k]}
      BY <2>1, <2>2 DEF Placed
    <3>1. PICK e \in Cut(o) :
            Collects(r, o, e) /\ Held(r, n + k) = {[top |-> o.top, whole |-> e.whole, at |-> k]}
      BY <3>0
    <3>2. o.top = q.top /\ e.whole = g.whole
      <4>1. q.src = o.src /\ q.dst = o.dst /\ g.id = e.id
        BY <2>4, <3>1 DEF Collects
      <4> QED
        BY <4>1, ForeignCuts DEF ForeignCuts
    <3> QED
      BY <3>1, <3>2
  <2>6. 0 \in 0 .. r.total - 1 /\ n + 0 = n
    BY <2>4 DEF IsReass
  <2>7. d \in Held(r, n)
    <3>1. [d EXCEPT !.at = 0] = d
      OBVIOUS
    <3> HIDE DEF d
    <3> QED
      BY <2>5, <2>6, <3>1
  <2>8. Whole(d)
    <3>1. d.whole = r.total
      BY <2>4
    <3> HIDE DEF d
    <3> QED
      BY <2>1, <2>5, <3>1
  <2> HIDE DEF d, Whole
  <2> QED
    BY <2>1, <2>7, <2>8 DEF Placed
<1> QED
  BY <1>2, <1>3

\* What is delivered of fragments is not a mixture, and what stays is collected.
LEMMA FragmentInWhole ==
  ASSUME ForeignCuts,
         NEW n, NEW p, p.exts \in Seq(Ext), ForMe(n, p), FromSent(p), p.top.proto # "mixed",
         NEW i \in 1 .. Len(p.exts), p.exts[i].type = "frag",
         NEW r, ReassRight(n, r), Collected(r)
  PROVE  LET res == FragmentIn(n, p, i, r)
         IN (\A w \in res.got : Sound(w)) /\ Collected(res.reass)
<1> DEFINE f == p.exts[i].frag
           exts == SubSeq(p.exts, 1, i - 1)
           b == Begun(r, p, f, exts)
           h == FirstHeaded(b, p, f, exts)
           a == Added(h, p, f, exts)
           whole == [Packet(a.src, a.dst, Contents(a, exts)) EXCEPT !.exts = a.exts]
           error == ErrorOutput(n, p, i - 1, "header")
           res == FragmentIn(n, p, i, r)
<1> SUFFICES (\A w \in res.got : Sound(w)) /\ Collected(res.reass)
  OBVIOUS
<1>1. f \in Fragment /\ exts \in Seq(Ext) /\ f \in Cut(p)
  BY FragmentHeader
<1>0. res = IF ~Belongs(b, p, f) THEN Drop(b)
            ELSE IF Overflows(f) THEN Drop(Stopped(h))
            ELSE IF Misaligned(f) THEN Result(error, {}, Stopped(h))
            ELSE IF Complete(a) THEN Upper(n, whole, Stopped(a))
            ELSE Drop(a)
  BY DEF FragmentIn
<1> HIDE DEF f, exts, res
<1>2. IsReass(b) /\ b.on /\ (r.on => b = r) /\ (~r.on => b.dst = p.dst)
  BY <1>1, BegunFields DEF ReassRight
<1>3. Collected(b)
  BY <1>1, CollectedBegun DEF ReassRight
<1>4. b.dst \in Mine(n) \/ Mcast(b.dst)
  BY <1>2 DEF ReassRight, ForMe
<1>5. /\ IsReass(h) /\ h.on = b.on /\ h.dst = b.dst
      /\ h.data \in {b.data, UnderHeaders(b.data, exts)}
  BY <1>1, <1>2, HeadedFields
<1>6. Collected(Stopped(h))
  <2>1. \A c \in Places : UnderHeaders(b.data, exts)[c] = IF c < Len(exts) THEN {} ELSE b.data[c]
    BY <1>1, <1>2, UnderFields DEF IsReass
  <2>2. \A c \in Places : \A d \in h.data[c] : d.top.proto # "mixed"
    BY <1>3, <1>5, <2>1 DEF Collected
  <2> QED
    BY <1>5, <2>2, CollectedStopped
<1>7. ASSUME Belongs(b, p, f), ~Overflows(f)
      PROVE  Collected(a) /\ (a.even => Len(exts) = Len(a.exts))
  BY <1>1, <1>2, <1>3, <1>7, CollectedAdded
<1>8. ASSUME ~Overflows(f)
      PROVE  IsReass(a) /\ a.on = b.on /\ a.dst = b.dst
  <2> HIDE DEF b, h
  <2>1. IsAdded(a, h, p, f, exts)
    BY <1>1, <1>5, <1>8, AddedFields
  <2> QED
    BY <1>5, <2>1 DEF IsAdded
<1>9. whole.exts = a.exts /\ whole.dst = a.dst /\ whole.top = Contents(a, exts)
  BY DEF Packet
<1> HIDE DEF b, h, a, whole
<1>10. CASE res \in {Drop(b), Drop(Stopped(h)), Result(error, {}, Stopped(h))}
  BY <1>3, <1>6, <1>10 DEF Drop, Result
<1>11. CASE Belongs(b, p, f) /\ ~Overflows(f) /\ res = Drop(a)
  BY <1>7, <1>11 DEF Drop, Result
<1>12. CASE Belongs(b, p, f) /\ ~Overflows(f) /\ Complete(a) /\ res = Upper(n, whole, Stopped(a))
  <2>1. /\ Collected(a) /\ (a.even => Len(exts) = Len(a.exts))
        /\ IsReass(a) /\ a.on /\ a.dst = b.dst
    BY <1>2, <1>7, <1>8, <1>12
  <2>2. Sound(whole)
    BY <1>1, <1>9, <1>12, <2>1, CompleteWhole DEF Sound
  <2>3. whole.exts \in Seq(Ext) /\ ForMe(n, whole)
    BY <1>4, <1>9, <2>1 DEF IsReass, ForMe
  <2>4. res.got \subseteq {whole} /\ res.reass = Stopped(a)
    BY <1>12, <2>3, UpperRight
  <2>5. Collected(Stopped(a))
    BY <2>1, CollectedStopped DEF Collected
  <2> QED
    BY <2>2, <2>4, <2>5
<1> QED
  BY <1>0, <1>10, <1>11, <1>12

\* And so for every packet that is input.
LEMMA ProcessWhole ==
  ASSUME ForeignCuts,
         NEW n, NEW p, IsPacket(p), FromSent(p), NEW r, ReassRight(n, r), Collected(r)
  PROVE  LET res == Process(n, p, r)
         IN (\A w \in res.got : Sound(w)) /\ Collected(res.reass)
<1> DEFINE Right(o) == (\A w \in o.got : Sound(w)) /\ Collected(o.reass)
<1>1. \A out : Right(Result(out, {}, r))
  BY DEF Result
<1>2. p.exts \in Seq(Ext) /\ p.top.proto # "mixed"
  BY DEF IsPacket
<1>3. ASSUME ForMe(n, p) PROVE Right(Headers(n, p, r))
  <2> DEFINE h == Headers(n, p, r)
  <2>1. \/ h = Upper(n, p, r) \/ h = Drop(r)
        \/ \E i \in 1 .. Len(p.exts), why \in {"nexthdr", "option", "header"} :
             h = Result(ErrorOutput(n, p, i - 1, why), {}, r)
        \/ \E i \in 1 .. Len(p.exts) : p.exts[i].type = "frag" /\ h = FragmentIn(n, p, i, r)
    BY <1>2, HeadersCases
  <2> SUFFICES Right(h)
    OBVIOUS
  <2> HIDE DEF h
  <2>2. CASE h = Upper(n, p, r)
    <3>1. h.got \subseteq {p} /\ h.reass = r
      BY <1>2, <1>3, <2>2, UpperRight
    <3> QED
      BY <1>2, <3>1 DEF Sound
  <2>3. ASSUME NEW i \in 1 .. Len(p.exts), p.exts[i].type = "frag", h = FragmentIn(n, p, i, r)
        PROVE  Right(h)
    BY <1>2, <1>3, <2>3, FragmentInWhole
  <2> HIDE DEF Right
  <2> QED
    BY <1>1, <2>1, <2>2, <2>3 DEF Drop
<1> HIDE DEF Right
<1>4. \A k, why : Right(Result(ErrorOutput(n, p, k, why), {}, r))
  BY <1>1
<1>5. Right(Drop(r)) /\ Right(Result({Forwarded(p)}, {}, r))
  BY <1>1 DEF Drop
<1>6. \A k : Right(Route(n, p, k, r)) /\ Right(OptionError(n, p, 1, r))
  BY <1>4, <1>5 DEF Route, OptionError
<1>7. p.dst \in Mine(n) \cup MyGroups => ForMe(n, p)
  BY DEF MyGroups, AllNodes, ForMe, Mcast
<1>8. Right(RouterInput(n, p, r))
  BY <1>3, <1>6, <1>7 DEF RouterInput
<1>9. Right(HostInput(n, p, r))
  BY <1>3, <1>5 DEF HostInput, ForMe
<1>10. Right(Process(n, p, r))
  BY <1>5, <1>8, <1>9 DEF Process
<1> QED
  BY <1>10 DEF Right

\* On the link are the stranger's fragments only, and each node collects those of one packet.
WholeInductive ==
  /\ \A f \in flight : FromSent(f.pkt)
  /\ \A n \in Nodes : Collected(reass[n])
  /\ DeliversWhole

LEMMA WholeStep ==
  ASSUME ForeignCuts
  PROVE  Shaped /\ WholeInductive /\ [Next]_vars => WholeInductive'
<1> SUFFICES ASSUME Shaped, WholeInductive, [Next]_vars PROVE WholeInductive'
  OBVIOUS
<1>1. ASSUME NEW g \in flight' PROVE FromSent(g.pkt)
  <2>1. g \in flight \/ NewFrame(g)
    BY <1>1, StepCases
  <2>2. CASE g \in flight
    BY <2>2 DEF WholeInductive
  <2>3. CASE g.pkt \in SentPackets
    BY <2>3 DEF FromSent
  <2>4. CASE Own(g.from, g.pkt)
    <3>1. g.pkt.exts = <<>>
      BY <2>4 DEF Own
    <3>2. Cut(g.pkt) = {}
      BY <3>1 DEF Cut
    <3> QED
      BY <3>2 DEF FromSent
  <2>5. ASSUME NEW f \in flight, g.pkt = Forwarded(f.pkt), f.pkt.hl > 1 PROVE FromSent(g.pkt)
    <3>1. IsPacket(f.pkt) /\ FromSent(f.pkt)
      BY DEF Shaped, WholeInductive
    <3>2. /\ g.pkt.src = f.pkt.src /\ g.pkt.dst = f.pkt.dst
          /\ g.pkt.exts = f.pkt.exts /\ g.pkt.top = f.pkt.top
      BY <2>5, <3>1, ForwardedFields
    <3>3. Cut(g.pkt) = Cut(f.pkt)
      BY <3>2 DEF Cut
    <3> QED
      BY <3>1, <3>2, <3>3 DEF FromSent
  <2> QED
    BY <2>1, <2>2, <2>3, <2>4, <2>5 DEF NewFrame
<1>2. ASSUME NEW n \in Nodes
      PROVE  /\ Collected(reass'[n])
             /\ \A p \in up'[n] : Sound(p) /\ (p.dst \in Mine(n) \/ Mcast(p.dst))
  <2>1. ReassRight(n, reass[n]) /\ Collected(reass[n])
    BY DEF Shaped, WholeInductive
  <2>2. \A p \in up[n] : Sound(p) /\ (p.dst \in Mine(n) \/ Mcast(p.dst))
    BY DEF WholeInductive, DeliversWhole
  <2>3. CASE reass'[n] = reass[n] /\ up'[n] = up[n]
    BY <2>1, <2>2, <2>3
  <2>4. CASE reass'[n] = Stopped(reass[n]) /\ up'[n] = up[n]
    <3>1. Collected(Stopped(reass[n]))
      BY <2>1, CollectedStopped DEF Collected, ReassRight
    <3> QED
      BY <2>2, <2>4, <3>1
  <2>5. ASSUME NEW f \in flight,
               LET res == Process(n, f.pkt, reass[n])
               IN reass'[n] = res.reass /\ up'[n] = res.got
        PROVE  /\ Collected(reass'[n])
               /\ \A p \in up'[n] : Sound(p) /\ (p.dst \in Mine(n) \/ Mcast(p.dst))
    <3>1. IsPacket(f.pkt) /\ FromSent(f.pkt)
      BY DEF Shaped, WholeInductive
    <3>2. Collected(reass'[n]) /\ \A p \in up'[n] : Sound(p)
      BY <2>1, <2>5, <3>1, ProcessWhole
    <3>3. \A p \in up'[n] : ForMe(n, p)
      BY <2>1, <2>5, <3>1, ProcessRight
    <3> QED
      BY <3>2, <3>3 DEF ForMe
  <2> QED
    BY <2>3, <2>4, <2>5, StepCases
<1> QED
  BY <1>1, <1>2 DEF WholeInductive, DeliversWhole, Mine, Mcast

\* Upper layers get what is for their node, and what is put together of fragments that came with
\* equally many headers and within the buffer is what one sender had cut up: in whatever order,
\* however often and with what others between them the fragments come, and whenever a
\* reassembly is given up, as long as a sender does not use an identification for two packets
\* to one receiver.
THEOREM DeliversWholeAlways ==
  ASSUME ForeignCuts
  PROVE  Spec => []DeliversWhole
<1>1. Collected(IdleReass)
  <2>1. IdleReass.data = [b \in Places |-> {}] /\ ~IdleReass.on
    BY DEF IdleReass
  <2> QED
    BY <2>1 DEF Collected
<1>2. Init => WholeInductive
  BY <1>1 DEF Init, WholeInductive, DeliversWhole
<1>3. WholeInductive => DeliversWhole
  BY DEF WholeInductive
<1> QED
  BY <1>2, <1>3, ShapedInit, ShapedStep, WholeStep, PTL DEF Spec
=============================================================================
