------------------------------- MODULE MCIp6 -------------------------------
EXTENDS Ip6, TLC

CONSTANTS h, q, r, x   \* a host, two routers that are each other's default, the stranger

MCDefrt == (h :> q) @@ (q :> r) @@ (r :> q)
MCUdpConns == (h :> {[lport |-> 7, rport |-> 0, rip |-> Unspecified]})
              @@ (q :> {}) @@ (r :> {[lport |-> 9, rport |-> 7, rip |-> Global(h)]})

Udp(sport, dport) == [proto |-> "udp", sport |-> sport, dport |-> dport]
Hbh(opt) == [type |-> "hbh", opt |-> opt]
Desto(opt) == [type |-> "desto", opt |-> opt]
CutAt(id, off, len, more, whole) ==
  [type |-> "frag", frag |-> [id |-> id, off |-> off, len |-> len, more |-> more,
                              aligned |-> TRUE, whole |-> whole]]
X == Global(x)
Request(src, dst) == LET p == Packet(src, dst, [proto |-> "none"])
                     IN [p EXCEPT !.top = Icmp("request", "", p)]
Error(src, dst) == LET p == Packet(dst, src, [proto |-> "none"])
                   IN [Packet(src, dst, p.top) EXCEPT !.top = Icmp("error", "hops", p)]
With(p, exts) == [p EXCEPT !.exts = exts]
To(n, pkts) == {[to |-> n, pkt |-> p] : p \in pkts}

\* Requests, UDP and errors for one or for all, and their headers
Plain ==
  {Packet(X, Global(h), Udp(1, 7)), Packet(X, Global(h), Udp(1, 8)),
   Request(X, Global(h)), Request(X, AllNodes), Request(Unspecified, AllNodes),
   Request(LinkLocal(x), AllNodes), Packet(AllNodes, Global(h), [proto |-> "tcp"]),
   Packet(X, OtherGroup, [proto |-> "unknown"]), Packet(X, Global(h), [proto |-> "unknown"]),
   [Request(X, Global(h)) EXCEPT !.fit = "checksum"],
   [Request(X, Global(h)) EXCEPT !.fit = "malformed"], Error(X, Global(h))}
Headed ==
  {With(Request(X, a), e) : a \in {Global(h), AllNodes},
    e \in {<<Hbh("pad"), Hbh("pad")>>, <<Hbh("report")>>, <<Desto("report unicast")>>,
           <<Hbh("skip"), Desto("pad"), Desto("rpl"), Desto("pad")>>, <<Desto("discard")>>,
           <<[type |-> "routing", left |-> 1]>>, <<[type |-> "routing", left |-> 0]>>}}
  \cup {With(Error(X, Global(h)), <<Hbh("pad"), Desto("report")>>),
        With(Error(X, Global(h)), <<Desto("report")>>)}
Routed ==
  {Packet(X, OffLink, [proto |-> "tcp"]), Packet(LinkLocal(x), OffLink, [proto |-> "tcp"]),
   Packet(X, LinkLocal(h), [proto |-> "tcp"]), [Request(X, OffLink) EXCEPT !.fit = "big"],
   With(Request(X, OffLink), <<Hbh("pad")>>), With(Request(X, OffLink), <<Hbh("report")>>),
   Error(OffLink, Global(h)), Error(X, OffLink), Packet(X, Global(r), [proto |-> "tcp"]),
   Request(X, Global(q)), Packet(X, Loopback, [proto |-> "tcp"])}
\* Fragments of packets, two of them from one sender
Piece(src, id, off, len, more, whole) ==
  With(Packet(src, Global(h), Udp(id, 7)), <<CutAt(id, off, len, more, whole)>>)
Pieces ==
  {Piece(X, 1, 0, 1, TRUE, 3), Piece(X, 1, 1, 2, FALSE, 3), Piece(X, 2, 1, 1, FALSE, 2)}
OtherPieces ==
  {Piece(Global(r), 1, 0, 1, TRUE, 2), Piece(X, 3, 9, 1, FALSE, 10),
   With(Request(X, Global(h)), <<CutAt(8, 0, 1, TRUE, 2)>>),
   [Piece(X, 4, 0, 1, TRUE, 2) EXCEPT !.exts[1].frag.aligned = FALSE]}

\* Packets that pass the check of the length and reach past the buffer, by one block and by
\* two; and one whose first fragment has a header, and the others fewer, as many or more
Beginnings ==
  {Piece(X, whole, 0, 1, TRUE, whole) : whole \in {5, 6}}
  \cup {With(Piece(X, 7, 0, 1, TRUE, 2), <<Hbh("pad"), CutAt(7, 0, 1, TRUE, 2)>>)}
Ends ==
  {Piece(X, whole, 1, whole - 1, FALSE, whole) : whole \in {5, 6}}
  \cup {With(Piece(X, 7, 1, 1, FALSE, 2), e \o <<CutAt(7, 1, 1, FALSE, 2)>>) :
          e \in {<<>>, <<Hbh("pad")>>, <<Hbh("pad"), Desto("pad")>>}}

MCSent == <<To(h, Plain \cup Headed \cup Pieces \cup Beginnings) \cup To(q, Routed),
            To(h, Pieces \cup OtherPieces \cup Ends), To(h, Pieces)>>

\* What the proofs suppose of the stranger
ASSUME ForeignAssumption == ForeignAnswers /\ ForeignCuts
=============================================================================
