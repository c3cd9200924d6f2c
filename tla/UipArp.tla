------------------------------- MODULE UipArp -------------------------------
(***************************************************************************)
(* IPv4 nodes on an Ethernet: uip_arp.c and ethernet.c with the halves of  *)
(* uip-split.c.  Each action is what the network thread of a node does     *)
(* with one uip_buf: a segment that is sent, or a frame that comes.  The   *)
(* Ethernet loses frames and delivers the others in any order, and a       *)
(* machine may be exchanged for one with another Ethernet address.         *)
(***************************************************************************)
EXTENDS Naturals, Sequences

CONSTANTS
  Machines,   \* nodes; a machine is its own IP address
  Senders,    \* the nodes whose tasks send and whose timers run; all others answer
  Gateway,    \* uip_draddr of them all
  Zero,       \* 0.0.0.0
  Away,       \* an address that is not on the local net
  BCast,      \* the address that all machines receive
  ArpSize,    \* UIP_ARPTAB_SIZE
  TimeMod,    \* arptime is a number modulo TimeMod (256)
  ArpMaxAge,  \* UIP_ARP_MAXAGE
  SplitSize,  \* UIP_SPLIT_SIZE
  Segments,   \* lengths of the segments that are sent
  CopyOrders, \* the orders in which memcpy may copy: "up", "down"
  MaxMoves, MaxSegments  \* bounds

ASSUME ArpAssumption ==
  /\ Senders \subseteq Machines /\ Gateway \in Machines \cup {Zero}
  /\ {Zero, Away, BCast} \cap Machines = {}
  /\ ArpSize \in Nat \ {0} /\ TimeMod \in Nat \ {0} /\ SplitSize \in Nat \ {0, 1}
  /\ Segments \subseteq Nat /\ CopyOrders \subseteq {"up", "down"}

VARIABLES
  arptable,  \* arp_table of a machine: ipaddr, ethaddr, time
  arptime,   \* of a machine
  macs,      \* Ethernet addresses that a machine has had: 0 up to the one it has now
  wire,      \* frames on the way, each with the machine it comes to
  taken,     \* segments that TCP got
  asked      \* segments sent so far

arpvars == <<arptable, arptime, macs, wire, taken, asked>>

EthAddr(n) == [of |-> n, k |-> macs[n]]
NoEth == [of |-> Zero, k |-> 0]
Slots == 1 .. ArpSize

\* uip_arp_init
ArpInit ==
  /\ arptable = [n \in Machines |-> [i \in Slots |-> [ip |-> Zero, eth |-> NoEth, time |-> 0]]]
  /\ arptime = [n \in Machines |-> 0]
  /\ macs = [n \in Machines |-> 0]
  /\ wire = {} /\ taken = {} /\ asked = 0

-----------------------------------------------------------------------------
(* The table *)

\* The index of the first entry that is in set, or of none
First(set) == IF set = {} THEN 0 ELSE CHOOSE i \in set : \A j \in set : i <= j

\* arptime - time is an int, and below 0 when arptime has wrapped since: never older
\* than another.
Ages(tab, now) == [i \in Slots |-> IF now >= tab[i].time THEN now - tab[i].time ELSE 0]

\* The entry that uip_arp_update writes: the one of the address, else one that is not
\* used, else the oldest.  Entries that are not used hold 0.0.0.0 and are not looked at.
SlotFor(tab, ip, now) ==
  LET same == {i \in Slots : tab[i].ip = ip /\ ip # Zero}
      free == {i \in Slots : tab[i].ip = Zero}
      ages == Ages(tab, now)
      oldest == {i \in Slots : \A j \in Slots : ages[j] <= ages[i]}
  IN IF same # {} THEN First(same) ELSE IF free # {} THEN First(free) ELSE First(oldest)

\* Wrong: the Ethernet address of an entry in use stays.
UpdatedKept(tab, ip, eth, now) ==
  [tab EXCEPT ![SlotFor(tab, ip, now)] =
     [ip |-> ip, eth |-> IF @.ip = Zero THEN eth ELSE @.eth, time |-> now]]

\* uip_arp_update
Updated(tab, ip, eth, now) ==
  [tab EXCEPT ![SlotFor(tab, ip, now)] = [ip |-> ip, eth |-> eth, time |-> now]]

\* uip_arp_timer.  It means to forget entries that have not been updated for long, but
\* tests for those that are not used.
Forgotten(tab, now) ==
  [i \in Slots |-> IF tab[i].ip = Zero /\ Ages(tab, now)[i] >= ArpMaxAge
                     THEN [tab[i] EXCEPT !.ip = Zero] ELSE tab[i]]

-----------------------------------------------------------------------------
(* Frames *)

\* Machines that a frame for an Ethernet address comes to
Receivers(n, eth) ==
  {m \in Machines \ {n} : eth = BCast \/ eth = EthAddr(m)}

Send(n, eth, body) == {[at |-> m, dest |-> eth, from |-> n, body |-> body] : m \in Receivers(n, eth)}

ArpMessage(n, op, dip) == [type |-> "arp", op |-> op, sip |-> n, seth |-> EthAddr(n), dip |-> dip]

\* Where uip_arp_out looks for the Ethernet address of a destination
NextHop(dst) == IF dst \in Machines THEN dst ELSE Gateway

\* The entries that match, among those not used as well
Entry(n, dst) == First({i \in Slots : arptable[n][i].ip = NextHop(dst)})

Resolves(n, dst) == dst = BCast \/ Entry(n, dst) # 0

\* uip_arp_out: the packet, or in its place a request for its next hop
ArpOut(n, p) ==
  IF p.dst = BCast THEN Send(n, BCast, p)
  ELSE IF Resolves(n, p.dst) THEN Send(n, arptable[n][Entry(n, p.dst)].eth, p)
  ELSE Send(n, BCast, ArpMessage(n, "request", NextHop(p.dst)))

-----------------------------------------------------------------------------
(* uip_split_output *)

\* A TCP segment; a byte of it is its place in the stream
TcpSegment(dst, seq, data) == [type |-> "ip", dst |-> dst, seq |-> seq, data |-> data]
Bytes(seq, len) == [i \in 1 .. len |-> seq + i]

\* What the second half is when an ARP request has come into uip_buf: a packet with no
\* IP version, and with a destination that is off the local net
Junk == [type |-> "junk", dst |-> Away]

\* memcpy of len2 bytes down by len1.  When len2 is greater they overlap by a byte.
Moved(data, len1, order) ==
  LET tail == SubSeq(data, len1 + 1, Len(data))
  IN IF order = "down" /\ Len(tail) > len1 THEN [tail EXCEPT ![1] = tail[Len(tail)]] ELSE tail

\* Wrong: the second half keeps the sequence number.
HalvesSame(p, order) ==
  LET len1 == Len(p.data) \div 2
  IN <<[p EXCEPT !.data = SubSeq(@, 1, len1)], [p EXCEPT !.data = Moved(@, len1, order)]>>

Halves(p, order) ==
  LET len1 == Len(p.data) \div 2
  IN <<[p EXCEPT !.data = SubSeq(@, 1, len1)],
       [p EXCEPT !.data = Moved(@, len1, order), !.seq = @ + len1]>>

SplitOutput(n, p, order) ==
  IF Len(p.data) < SplitSize \/ p.dst = BCast THEN ArpOut(n, p)
  ELSE LET parts == Halves(p, order)
       IN ArpOut(n, parts[1]) \cup ArpOut(n, IF Resolves(n, p.dst) THEN parts[2] ELSE Junk)

-----------------------------------------------------------------------------
(* What a node does *)

\* tcpip_output of a segment
SendSegment(n) ==
  /\ asked < MaxSegments
  /\ \E dst \in (Machines \ {n}) \cup {Away, BCast}, len \in Segments, order \in CopyOrders :
       wire' = wire \cup SplitOutput(n, TcpSegment(dst, asked, Bytes(asked, len)), order)
  /\ asked' = asked + 1
  /\ UNCHANGED <<arptable, arptime, macs, taken>>

Learn(n, b) ==
  arptable' = [arptable EXCEPT ![n] = Updated(@, b.sip, b.seth, arptime[n])]

\* uip_arp_arpin of what asks for our address: answered
ArpRequestIn(f) ==
  LET n == f.at
      b == f.body
  IN /\ b.type = "arp" /\ b.op = "request" /\ b.dip = n
     /\ Learn(n, b)
     /\ wire' = (wire \ {f}) \cup Send(n, b.seth, ArpMessage(n, "reply", b.sip))
     /\ UNCHANGED <<arptime, macs, taken, asked>>

ArpReplyIn(f) ==
  /\ f.body.type = "arp" /\ f.body.op = "reply" /\ f.body.dip = f.at
  /\ Learn(f.at, f.body)
  /\ wire' = wire \ {f}
  /\ UNCHANGED <<arptime, macs, taken, asked>>

\* tcpip_input of a packet for us
SegmentIn(f) ==
  /\ f.body.type = "ip" /\ f.body.dst \in {f.at, BCast}
  /\ taken' = taken \cup {f.body}
  /\ wire' = wire \ {f}
  /\ UNCHANGED <<arptable, arptime, macs, asked>>

\* The frame is lost, or nothing for this node.
DropFrame(f) ==
  /\ wire' = wire \ {f}
  /\ UNCHANGED <<arptable, arptime, macs, taken, asked>>

ArpTimer(n) ==
  LET now == (arptime[n] + 1) % TimeMod
  IN /\ arptime' = [arptime EXCEPT ![n] = now]
     /\ arptable' = [arptable EXCEPT ![n] = Forgotten(@, now)]
     /\ UNCHANGED <<macs, wire, taken, asked>>

\* The machine is exchanged, and comes up with its old IP address and an empty table.
Exchange(n) ==
  /\ macs[n] < MaxMoves
  /\ macs' = [macs EXCEPT ![n] = @ + 1]
  /\ arptable' = [arptable EXCEPT ![n] = [i \in Slots |-> [ip |-> Zero, eth |-> NoEth, time |-> 0]]]
  /\ arptime' = [arptime EXCEPT ![n] = 0]
  /\ wire' = {f \in wire : f.at # n}
  /\ UNCHANGED <<taken, asked>>

ArpNext ==
  \/ \E n \in Senders : SendSegment(n) \/ ArpTimer(n)
  \/ \E n \in Machines : Exchange(n)
  \/ \E f \in wire : ArpRequestIn(f) \/ ArpReplyIn(f) \/ SegmentIn(f) \/ DropFrame(f)

ArpSpec == ArpInit /\ [][ArpNext]_arpvars

-----------------------------------------------------------------------------
(* Properties *)

\* A packet goes to an Ethernet address that the machine it is for has or had, or that
\* its gateway has or had, however requests, replies and exchanges of machines cross,
\* and whichever entries of the table they push out (uip_arp_update, uip_arp_out).
ArpRight ==
  \A f \in {g \in wire : g.body.type = "ip" /\ g.dest # BCast} :
    f.dest.of = NextHop(f.body.dst) /\ f.dest.k <= macs[f.dest.of]

\* Each byte that TCP gets is the one that its sequence number says, also when it comes
\* in the second half of a segment (uip_split_output).
SplitWhole ==
  \A p \in taken : \A i \in 1 .. Len(p.data) : p.data[i] = p.seq + i

\* "The maximum age of ARP table entries" (uipopt.h): an entry is not used after it.
ArpAges ==
  \A n \in Machines : \A i \in Slots :
    arptable[n][i].ip # Zero =>
      (arptime[n] + TimeMod - arptable[n][i].time) % TimeMod < ArpMaxAge
=============================================================================
