-------------------------------- MODULE Ip6 --------------------------------
(***************************************************************************)
(* IPv6 input and output of uip6.c and uip-icmp6.c on a link where hosts   *)
(* and routers that run it meet each other and a host that does not.  An   *)
(* action is a call of uip_process and the output of what it leaves in     *)
(* uip_buf.  Next hops are resolved (Nd6 models how), and the link may     *)
(* lose packets.  A header's bytes are abstracted to what decides where    *)
(* the packet goes; reassembly is compiled in (UIP_CONF_IPV6_REASSEMBLY),  *)
(* and so are the checks (UIP_CONF_IPV6_CHECKS).                           *)
(***************************************************************************)
EXTENDS UipReass, FiniteSets

CONSTANTS
  Nodes,        \* nodes that run uIP
  Routers,      \* those built with UIP_CONF_ROUTER
  Globals,      \* those with a preferred global address; all have a link-local one
  Stranger,     \* the other host
  Foreign,      \* sets of what may be sent first, second..., each with the node it goes to
  None,         \* no router, no packet
  Defrt,        \* the default router of a node
  UdpConns,     \* uip_udp_conns of a node
  HopLimit,     \* cur_hop_limit
  MaxOwn        \* tasks send while no more than that has been sent

\* The bound on the packets that the stranger sends
MaxSent == Len(Foreign)

\* Extension headers, each with the option or the count that decides about it
Options == {"pad", "rpl", "skip", "discard", "report", "report unicast"}
Ext == [type : {"hbh", "desto"}, opt : Options] \cup [type : {"routing"}, left : 0 .. 1]
       \cup [type : {"frag"}, frag : Fragment]

\* Packets of others: addresses, hop limit, headers, and what the upper layer is
Addresses == [scope : {"link", "global", "mcast", "loopback", "unspecified"},
              at : Nodes \cup {Stranger, "joined", "other", "away", "none"}]
Tops == [proto : {"tcp", "unknown"}] \cup [proto : {"udp"}, sport : Nat, dport : Nat]
        \cup [proto : {"icmp"}, type : {"request", "reply", "error"},
              why : {"", "nexthdr", "option", "header", "too big", "hops", "not neighbour"},
              src : Addresses, dst : Addresses, error : BOOLEAN, bare : BOOLEAN]
Packets == [src : Addresses, dst : Addresses, hl : Nat,
            fit : {"ok", "big", "checksum", "malformed"}, exts : Seq(Ext), top : Tops]

ASSUME Ip6Assumption ==
  /\ Routers \subseteq Nodes /\ Globals \subseteq Nodes /\ Stranger \notin Nodes
  /\ Defrt \in [Nodes -> Nodes \cup {None}]
  /\ HopLimit \in Nat \ {0}
  /\ Foreign \in Seq(SUBSET [to : Nodes, pkt : Packets])

VARIABLES
  flight,  \* frames on the link: from, to, and the packet
  reass,   \* uip_reassbuf and what goes with it, of each node
  up,      \* what the upper layers of a node got last
  sent     \* packets that were not an answer

vars == <<flight, reass, up, sent>>

-----------------------------------------------------------------------------
(* Addresses *)

LinkLocal(n) == [scope |-> "link", at |-> n]
Global(n) == [scope |-> "global", at |-> n]
AllNodes == [scope |-> "mcast", at |-> "joined"]
OtherGroup == [scope |-> "mcast", at |-> "other"]
OffLink == [scope |-> "global", at |-> "away"]
Loopback == [scope |-> "loopback", at |-> "none"]
Unspecified == [scope |-> "unspecified", at |-> "none"]

\* uip_ds6_is_my_addr, uip_ds6_is_my_maddr, uip_ds6_is_addr_onlink
Mine(n) == {LinkLocal(n)} \cup IF n \in Globals THEN {Global(n)} ELSE {}
MyGroups == {AllNodes}
OnLink(a) == a.scope = "link" \/ (a.scope = "global" /\ a # OffLink)
Mcast(a) == a.scope = "mcast"

\* uip_ds6_select_src
SelectSrc(n, dst) ==
  IF dst.scope \in {"link", "mcast"} THEN LinkLocal(n)
  ELSE IF n \in Globals THEN Global(n) ELSE Unspecified

-----------------------------------------------------------------------------
(* Packets *)

\* An ICMP error says why, and quotes the packet that it is about; an echo reply
\* quotes its request.
Icmp(type, why, p) ==
  [proto |-> "icmp", type |-> type, why |-> why, src |-> p.src, dst |-> p.dst,
   error |-> p.top.proto = "icmp" /\ p.top.type = "error", bare |-> p.exts = <<>>]

IsError(p) == p.top.proto = "icmp" /\ p.top.type = "error"

Packet(src, dst, top) ==
  [src |-> src, dst |-> dst, hl |-> HopLimit, fit |-> "ok", exts |-> <<>>, top |-> top]

\* What uip_process does with a packet: what it leaves in uip_buf, what the upper
\* layers get, and what becomes of the reassembly r
Result(out, got, r) == [out |-> out, got |-> got, reass |-> r]
Drop(r) == Result({}, {}, r)

-----------------------------------------------------------------------------
(* uip_icmp6_error_output *)

\* eaten counts the headers that uip_ext_len stands for.  With any, UIP_EXT_BUF and
\* UIP_ICMP_BUF are one place, the header that is being processed, and its next
\* field is taken for the type of an error as well.
QuietAbout(p, eaten) ==
  IF eaten = 0 THEN p.exts = <<>> /\ IsError(p)
  ELSE eaten + 1 = Len(p.exts) /\ p.top.proto = "icmp"

\* A router and a node that was sent to as one of a group choose an address.
ErrorFrom(n, p, why) ==
  Packet(IF n \in Routers \/ Mcast(p.dst) THEN SelectSrc(n, p.dst) ELSE p.dst, p.src,
         Icmp("error", why, p))

\* Wrong: a packet for a group is answered like any other.
ErrorAlways(n, p, eaten, why) ==
  IF QuietAbout(p, eaten) \/ p.src = Unspecified THEN {} ELSE {ErrorFrom(n, p, why)}

ErrorOutput(n, p, eaten, why) ==
  IF QuietAbout(p, eaten) \/ p.src = Unspecified \/ (Mcast(p.dst) /\ why # "option")
    THEN {} ELSE {ErrorFrom(n, p, why)}

-----------------------------------------------------------------------------
(* The headers of a packet for this node *)

\* uip_udp_conns: a connection with this port that takes packets from there
UdpMatch(n, p) ==
  \E c \in UdpConns[n] :
    /\ c.lport = p.top.dport /\ p.top.dport # 0
    /\ c.rport \in {0, p.top.sport} /\ c.rip \in {Unspecified, p.src}

\* echo_request_input: the extension headers go.
EchoReply(n, p) ==
  [Packet(IF Mcast(p.dst) THEN SelectSrc(n, p.src) ELSE p.dst, p.src, Icmp("reply", "", p))
     EXCEPT !.fit = p.fit]

\* udp_input, tcp_input, icmp6_input with the registered handlers, bad_hdr
Upper(n, p, r) ==
  CASE p.top.proto = "tcp" -> Result({}, {p}, r)
    [] p.top.proto = "udp" /\ p.fit # "checksum" /\ UdpMatch(n, p) -> Result({}, {p}, r)
    [] p.top.proto = "icmp" /\ p.fit # "checksum" /\ p.top.type = "request" ->
         Result({EchoReply(n, p)}, {}, r)
    [] p.top.proto = "icmp" /\ p.fit # "checksum" /\ p.top.type = "reply" -> Result({}, {p}, r)
    [] p.top.proto = "unknown" -> Result(ErrorOutput(n, p, Len(p.exts), "nexthdr"), {}, r)
    [] p.top.proto = "mixed" -> Result({}, {p}, r)
    [] OTHER -> Drop(r)

\* uip_ext_bitmap: one hop-by-hop and routing header, two destination headers
Repeated(p, i) ==
  LET before == Cardinality({j \in 1 .. i - 1 : p.exts[j].type = p.exts[i].type})
  IN p.exts[i].type # "frag" /\ before >= IF p.exts[i].type = "desto" THEN 2 ELSE 1

\* ext_hdr_options_process does not let the packet pass.
BadOption(p, i) ==
  p.exts[i].type \in {"hbh", "desto"} /\ p.exts[i].opt \in {"discard", "report", "report unicast"}

\* The walk over the headers ends at header i.
Halts(p, i) ==
  \/ Repeated(p, i) \/ BadOption(p, i) \/ p.exts[i].type = "frag"
  \/ p.exts[i].type = "routing" /\ p.exts[i].left > 0

OptionError(n, p, i, r) ==
  IF p.exts[i].opt = "discard" \/ (p.exts[i].opt = "report unicast" /\ Mcast(p.dst))
    THEN Drop(r) ELSE Result(ErrorOutput(n, p, i - 1, "option"), {}, r)

\* uip_reass, for the fragment header at i.  A packet that is complete is taken from
\* the start; its headers have passed before.
FragmentIn(n, p, i, r) ==
  LET f == p.exts[i].frag
      exts == SubSeq(p.exts, 1, i - 1)
      b == Begun(r, p, f, exts)
      headed == FirstHeaded(b, p, f, exts)
      a == Added(headed, p, f, exts)
      whole == [Packet(a.src, a.dst, Contents(a, exts)) EXCEPT !.exts = a.exts]
  IN IF ~Belongs(b, p, f) THEN Drop(b)
     ELSE IF Overflows(f) THEN Drop(Stopped(headed))
     ELSE IF Misaligned(f) THEN Result(ErrorOutput(n, p, i - 1, "header"), {}, Stopped(headed))
     ELSE IF Complete(a) THEN Upper(n, whole, Stopped(a))
     ELSE Drop(a)

Headers(n, p, r) ==
  LET halts == {i \in 1 .. Len(p.exts) : Halts(p, i)}
      i == CHOOSE j \in halts : \A k \in halts : j <= k
  IN IF halts = {} THEN Upper(n, p, r)
     ELSE IF Repeated(p, i) THEN Result(ErrorOutput(n, p, i - 1, "nexthdr"), {}, r)
     ELSE IF BadOption(p, i) THEN OptionError(n, p, i, r)
     ELSE IF p.exts[i].type = "routing" THEN Result(ErrorOutput(n, p, i - 1, "header"), {}, r)
     ELSE FragmentIn(n, p, i, r)

-----------------------------------------------------------------------------
(* Routing *)

\* Wrong: the hop limit stays.
ForwardedOn(p) == p

Forwarded(p) == [p EXCEPT !.hl = @ - 1]

MayForward(p) ==
  /\ ~Mcast(p.dst) /\ p.dst # Loopback
  /\ p.dst.scope # "link" /\ p.src.scope # "link" /\ p.src # Unspecified

\* A packet for somebody else
Route(n, p, eaten, r) ==
  IF MayForward(p)
    THEN IF p.fit = "big" THEN Result(ErrorOutput(n, p, eaten, "too big"), {}, r)
         ELSE IF p.hl <= 1 THEN Result(ErrorOutput(n, p, eaten, "hops"), {}, r)
         ELSE Result({Forwarded(p)}, {}, r)
  ELSE IF p.src.scope = "link" /\ p.dst # Loopback /\ ~Mcast(p.dst) /\ ~OnLink(p.dst)
    THEN Result(ErrorOutput(n, p, eaten, "not neighbour"), {}, r)
  ELSE Drop(r)

\* A router looks at a hop-by-hop header first.
RouterInput(n, p, r) ==
  LET hbh == p.exts # <<>> /\ p.exts[1].type = "hbh"
  IN IF hbh /\ BadOption(p, 1) THEN OptionError(n, p, 1, r)
     ELSE IF p.dst \in Mine(n) \cup MyGroups THEN Headers(n, p, r)
     ELSE Route(n, p, IF hbh THEN 1 ELSE 0, r)

HostInput(n, p, r) ==
  IF p.dst \in Mine(n) \/ Mcast(p.dst) THEN Headers(n, p, r) ELSE Drop(r)

Process(n, p, r) ==
  IF p.fit = "malformed" \/ Mcast(p.src) THEN Drop(r)
  ELSE IF n \in Routers THEN RouterInput(n, p, r) ELSE HostInput(n, p, r)

\* tcpip_ipv6_output
Output(n, p) ==
  LET hop == IF OnLink(p.dst) THEN p.dst.at ELSE Defrt[n]
      to == IF p.fit = "big" \/ p.dst = Unspecified THEN {}
            ELSE ((Nodes \cup {Stranger}) \ {n}) \cap IF Mcast(p.dst) THEN Nodes ELSE {hop}
  IN {[from |-> n, to |-> m, pkt |-> p] : m \in to}

-----------------------------------------------------------------------------
Init ==
  /\ flight = {} /\ sent = 0
  /\ reass = [n \in Nodes |-> IdleReass]
  /\ up = [n \in Nodes |-> {}]

\* The stranger sends something to a node.
StrangerSends ==
  /\ sent < MaxSent
  /\ \E f \in Foreign[sent + 1] : flight' = flight \cup {[from |-> Stranger, to |-> f.to, pkt |-> f.pkt]}
  /\ sent' = sent + 1
  /\ UNCHANGED <<reass, up>>

\* uip_udp_periodic of a connection that has something to send: udp_send
UdpSend(n) ==
  /\ sent <= MaxOwn
  /\ \E c \in UdpConns[n] :
       flight' = flight \cup Output(n, Packet(SelectSrc(n, c.rip), c.rip,
                   [proto |-> "udp", sport |-> c.lport, dport |-> c.rport]))
  /\ sent' = sent + 1
  /\ UNCHANGED <<reass, up>>

\* uip_icmp6_send: a task pings an address.
Ping(n) ==
  /\ sent <= MaxOwn
  /\ \E dst \in {Global(m) : m \in Nodes \ {n}} \cup {AllNodes, OffLink} :
       LET p == Packet(SelectSrc(n, dst), dst, [proto |-> "none"])
       IN flight' = flight \cup Output(n, [p EXCEPT !.top = Icmp("request", "", p)])
  /\ sent' = sent + 1
  /\ UNCHANGED <<reass, up>>

\* netInterfacePoll: a frame is input, and what uip_process leaves is output.
Input(f) ==
  /\ f.to \in Nodes
  /\ \E res \in {Process(f.to, f.pkt, reass[f.to])} :
       /\ flight' = (flight \ {f}) \cup UNION {Output(f.to, q) : q \in res.out}
       /\ reass' = [reass EXCEPT ![f.to] = res.reass]
       /\ up' = [up EXCEPT ![f.to] = res.got]
  /\ UNCHANGED sent

\* A frame is lost, or the stranger has it.
Lose(f) == flight' = flight \ {f} /\ UNCHANGED <<reass, up, sent>>

\* What uip_reass_over leaves for the sender, once the first fragment has come.  When
\* that carries ICMP, whether it was an error is read from the last packet in uip_buf.
OverErrors(n, r) ==
  LET quoted == [Packet(r.src, r.dst, [proto |-> "none"]) EXCEPT !.exts = r.exts]
      error == ErrorOutput(n, quoted, 0, "reassembly")
  IN IF ~r.first THEN {{}}
     ELSE IF r.exts = <<>> /\ r.proto = "icmp" THEN {{}, error}
     ELSE {error}

\* uip_reass_over, at any time.  uip_reass_timer is for it, but etimer_callback (sock.c)
\* does not look at that timer and tcpip.c's event handler is not compiled: nothing is
\* claimed that needs the call.
ReassOver(n) ==
  /\ reass[n].on
  /\ reass' = [reass EXCEPT ![n] = Stopped(@)]
  /\ \E e \in OverErrors(n, reass[n]) : flight' = flight \cup UNION {Output(n, q) : q \in e}
  /\ UNCHANGED <<up, sent>>

Next ==
  \/ StrangerSends
  \/ \E n \in Nodes : UdpSend(n) \/ Ping(n) \/ ReassOver(n)
  \/ \E f \in flight : Input(f) \/ Lose(f)

Spec == Init /\ [][Next]_vars

\* Frames arrive.
Fairness == WF_vars(\E f \in flight : Input(f) \/ (f.to = Stranger /\ Lose(f)))
FairSpec == Spec /\ Fairness

-----------------------------------------------------------------------------
(* Properties *)

\* An error or a reply goes to the sender of what it is about; an error never to nobody,
\* never about a packet to a group unless for an option, and never about an error that
\* has no extension headers.
Answers(p) ==
  p.top.proto = "icmp" =>
    /\ p.top.type \in {"error", "reply"} => p.dst = p.top.src
    /\ p.top.type = "error" =>
         /\ p.top.src # Unspecified /\ ~(p.top.error /\ p.top.bare)
         /\ Mcast(p.top.dst) => p.top.why = "option"

\* So it is with all that nodes send or forward, and what they send themselves comes from
\* an address of the node, or from :: when it has none that fits: echo_request_input and
\* uip_icmp6_error_output, over the builds and the headers.
AnswersRight ==
  \A f \in {g \in flight : g.from # Stranger /\ g.pkt.top.proto = "icmp"} :
    /\ Answers(f.pkt)
    /\ f.pkt.hl = HopLimit =>
         f.pkt.src \in Mine(f.from) \/ (f.pkt.src = Unspecified /\ f.from \notin Globals)

\* Upper layers get packets for this node, and out of fragments only what one sender
\* had cut up, byte for byte, whatever order, repetition or mixture the fragments come in
\* (uip_reass), unless one of them had more or fewer headers than the rest or reached past
\* the buffer: uip_reass places each fragment by its own headers, and its bound counts none.
Sound(p) == p.top.proto = "mixed" => ~p.top.even

DeliversWhole ==
  \A n \in Nodes : \A p \in up[n] : Sound(p) /\ (p.dst \in Mine(n) \/ Mcast(p.dst))

\* That an overflow discards the packet (the comment at uip6.c:726) and that fragments are
\* joined as they were cut, without exception.  No run states it, for TLC refutes it in
\* services.
NeverMixed == \A n \in Nodes : \A p \in up[n] : p.top.proto # "mixed"

\* The stranger's packets: their hop limit is not above that of the nodes, and errors
\* and replies are as they should be.
SentPackets == {f.pkt : f \in UNION {Foreign[k] : k \in 1 .. MaxSent}}
ForeignAnswers == \A p \in SentPackets : p.hl <= HopLimit /\ Answers(p)

\* Fragments of one sender, receiver and identification are cut from one packet, and the
\* last one ends where that ends.
Cut(p) == {p.exts[i].frag : i \in {j \in 1 .. Len(p.exts) : p.exts[j].type = "frag"}}
ForeignCuts ==
  \A p \in SentPackets : \A f \in Cut(p) :
    /\ ~f.more => f.whole = f.off + f.len /\ f.whole > 0
    /\ \A q \in SentPackets : \A g \in Cut(q) :
         p.src = q.src /\ p.dst = q.dst /\ f.id = g.id => p.top = q.top /\ f.whole = g.whole

\* The link comes to rest: no packet goes round for ever, and no answer makes another one
\* for ever (the hop limit and the rules about errors).
LinkRests == flight # {} ~> flight = {}
=============================================================================
