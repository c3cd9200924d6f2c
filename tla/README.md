# picoos-net: models, checks and proofs

picoos-net puts a socket interface and a thread of its own around Contiki's uIP
(IPv4) and uIP6 (IPv6) stacks, for the pico]OS kernel.  This directory holds TLA+
modules translated from its C code, TLC configurations that check them on small
instances, and TLAPS proofs.

## The system

| Part | Source | State it keeps | Operations |
|---|---|---|---|
| Socket layer | `src/sock.c`, `src/picoos-net.h`, `src/contiki-conf.h` | `netSocketTable` of `NetSock` (state, mutex, two flags, buffer, length, port), `dataToSend`, `uipGiant`, `uipMutex` | `netSockCreate*`, `Bind`, `Listen`, `Accept`, `Connect`, `Read`, `ReadLine`, `Write`, `Close`; `netMainThread`; `netTcpAppcall`, `netUdpAppcall` |
| uIP for IPv4 | `src/net/ipv4/uip.c` | `uip_conns`, `uip_udp_conns`, `uip_listenports`, `lastport`, `uip_flags` | `uip_process` for a packet, a timer tick, a poll; `uip_connect`, `uip_listen`, `uip_udp_new` |
| uIP for IPv6 | `src/net/ipv6/uip6.c`, `uip-icmp6.c` | the same, with extension headers and the reassembly buffer | the same; ICMPv6 errors and echo |
| IPv6 neighbours | `src/net/nbr-table.c`, `src/net/ipv6/uip-ds6*.c`, `uip-nd6.c`, `src/net/ip/tcpip.c` | neighbour table, neighbour cache, routes, default routers | solicitations and advertisements, periodic processing, `tcpip_ipv6_output` |
| IPv6 addresses | `src/net/ipv6/uip-ds6.c`, `uip-nd6.c`, `src/sys/stimer.c` | addresses, prefixes, groups, counts of solicitations and advertisements | duplicate address detection, prefix options, expiry |
| ARP, packet split | `src/net/ipv4/uip_arp.c`, `src/net/ip/uip-split.c`, `src/ethernet.c` | `arp_table` with ages | `uip_arp_arpin`, `_out`, `_timer`; `uip_split_output` |
| DHCP client | `src/net/ip/dhcpc.c` | a task, its transaction number, address and lease | discover, request, renew |
| Name servers | `src/net/ip/uip-nameserver.c` | records with life times | update, get, next expiration |
| Timers | `src/sys/*.c` | the list of event timers, one kernel timer | set, reset, stop, poll |
| Drivers | `src/drivers/*.c` | descriptor ring, framing context, ring of the ENC28J60 | interrupt, poll, send |
| Lists and blocks, telnet server, BSD wrapper, address text | `src/lib/*.c`, `src/telnetd.c`, `src/bsdsock.c`, `src/net/ip/uiplib.c` | see `PROJECT.json` | |

**How they interact.** There is one network thread.  It waits on the counting semaphore
`uipGiant`, which the driver, the periodic timer and every writing or closing task signal.
It holds `uipMutex` whenever it does not wait there, polls the connections
that asked for it, gives input to `uip_process`, and runs the timers.
`uip_process` calls `netTcpAppcall` or `netUdpAppcall` for a connection; that call takes
the mutex of the connection's socket, looks at its state, and moves data between `uip_buf`
and the caller's buffer.  A task asks by setting the state under the same mutex and
waits on the flag `uipChange`; the network thread waits, with a time limit and with
`uipMutex` held, on `sockChange` for a reader that is not there yet.

**What is hard.** The two mutexes are taken in both orders; an upcall gives the socket's mutex
away in its middle; connection state changes in `uip.c` without the socket's lock; uIP
keeps no copy of what it sent; every wait has a time limit that races its answer.
In IPv6, five tables refer to each other by the position of a key that
may be evicted by any of them.  `PROJECT.json` lists the hazards at their lines.

## What makes each part correct

| Part | Properties |
|---|---|
| TCP sockets | a socket in service has one live connection and a connection one socket at most; no freed socket is used; no byte is lost or counted twice in either direction; no answer is slept through; the asserted states; writes, closes and the main loop come to an end |
| UDP sockets | a socket has one connection; a datagram taken for a reader is what this read returns; a write is sent once; writes and closes return |
| uIP TCP | each end reads what the other wrote, in order and once, over loss, repetition, reordering and the wrap of sequence numbers; a confirmed write has come; writing and closing end |
| IPv6 input | answers go where they belong and never answer an error; fragments are joined only to what one sender cut up; nothing goes round for ever |
| IPv6 neighbours | the tables agree however keys are evicted; nothing is sent to an address nobody announced; no address twice; resolution ends |
| IPv6 addresses | no two nodes of a link use one global address; no address stays tentative for ever |
| ARP, split | a packet goes to an address that its machine has or had; entries age; TCP gets a split segment's own bytes |
| DHCP | a host uses an address only while the server has given it to this host |
| Name servers | a record says what was announced last; what has expired is not advertised |
| Timers | a callback is neither early nor late, and the kernel timer runs for the next one, over the wrap of the clock |
| Drivers | frames are given to the stack whole, once and in order |

## Modules

| Module | Contents |
|---|---|
| `NetSock` | the TCP side of `sock.c`, the tasks that call it, the main loop, and uIP's connection table as the socket layer sees it |
| `SockHandshake` | abstract specification: what a socket promises its caller |
| `NetSockInv` | type invariant, safety, the inductive invariant, fairness, liveness, the refinement |
| `NetSock_proofs` | type correctness; the pairing of sockets and connections; freed sockets, wakeups, assertions and the refinement; conservation of bytes |
| `NetUdp`, `NetUdp_proofs` | the UDP side of `sock.c`, the main loop, and the UDP connections of `uip.c`; its safety |
| `UipTcp`, `UipTcp_proofs` | TCP of `uip6.c` at both ends of a connection, over a network that loses, repeats and reorders; streams, acknowledgements, the refinement |
| `TcpStream` | abstract specification: what a connection promises the two sockets |
| `NbrCache`, `Nd6`, `Nd6Inv`, `Nd6_proofs` | the tables of neighbour discovery as operators; handlers, output path and timers on them; properties; proofs of all of its safety |
| `Ip6`, `UipReass`, `Ip6_proofs` | IPv6 input and output with ICMPv6 and forwarding; the reassembly buffer, as operators on a record; proofs of its safety |
| `Ds6Addr`, `Ds6Addr_proofs` | addresses, prefixes and groups of the nodes of a link, with duplicate address detection; that no two use one |
| `Lists`, `Lists_proofs` | the lists of `list.c` as sequences, and facts about them |
| `UipArp` | ARP with the frames on an Ethernet, and the split of segments above it |
| `Dhcpc` | `dhcpTask` in several hosts, and a server; leases |
| `NameServer` | the records of name servers and their options in router advertisements |
| `Etimer` | event timers and the kernel timer that wakes the main thread |
| `Emac`, `Hdlc`, `Enc28j60` | the receive side of three drivers against their chip, line or ring |
| `Drivers` | these three side by side, and what they promise the stack |
| `Services_proofs` | proofs of the safety of DHCP, name servers, timers, ARP with the split, and the drivers, one after the other |
| `MCNetSock`, `MCNd6`, `MCUipTcp`, `MCDs6Addr`, `MCIp6` | instances for TLC |
| `MCSockets` | TCP and UDP sockets in one state space: the initial state chooses one |
| `MCServices` | `Ip6`, `UipArp`, `Dhcpc`, `Etimer`, `NetUdp`, `NameServer` and the drivers, likewise |

Definitions whose comment begins with "Wrong:" are not the code: each is a plausible
mistake in the definition that follows, kept so that one can see which property finds it
(`PROJECT.json`, "mutants").

### NetSock

A socket `s` is an entry of `netSocketTable` and the task that uses it, as the interface
wants one task for each socket.  `used` is the bit of the table, `st` the state
(`NET_SOCK_...` of `src/contiki-conf.h`), `mutex` who holds `sock->mutex` (`"null"`
after it is destroyed), `sockChange` and `uipChange` the flags, `len`, `max`, `port` and
`newConn` the fields of those names.  `call` and `wake` are the program counter of the task:
the call it waits in, and whether the wait has ended by the flag or by its timeout.
A connection `c` has `tcp` (`tcpstateflags`), `file` (`appstate.file`), `out` (`len`,
what is outstanding), `mss` and `nrtx`.  The main thread's program counter is `mpc`;
`ci`, `flags`, `dataLeft`, `slen`, `msock`, `lsock`, `sendRequested` and `after` are its variables
(`uip_conn`, `uip_flags`, `uip_datalen()`, `uip_slen`, the `sock` of the appcall, the
listening socket it serves, and the label of `uip_process` at which it goes on).
`owed`, `unread` and `resized` are not in the code: they count the bytes of the running write that
the peer has not acknowledged and the bytes uIP has acknowledged that no read has returned, and tell whether the
window has changed while a segment of the running write was outstanding.

Steps end where another thread can come between: at a lock that is taken or given, at a
flag or semaphore, and at unlocked accesses to what two threads share.  So `sockWrite` is
`WriteStart` (lock, checks, state, signal), `WaitAgain`, `FlagGet` and
`WriteReturn`, and an appcall is `AppcallStep` (search of the socket), `BodyStep`
(`netTcpAppcallMutex` up to the wait for a reader, the wait, the delivery, the tail) and
`AfterStep` (what `uip_process` makes of the answer).  `uip_process` before the appcall
is one step, chosen from what a peer may send in that state and what the timers may do.
The states after `ESTABLISHED` are one (`FINISHING`), as no socket is left there.
Timeouts may come in any step of a wait.  Bounds: `MaxRtx` and `MaxSynRtx` for
`UIP_MAXRTX` and `UIP_MAXSYNRTX`, `MaxGiant` for the count of `uipGiant`
(a signal above it changes nothing, as one is enough to go on), the sets of lengths, and
`Calls`, the calls that applications make.

### Nd6

One record `cache` holds the tables (see the head of `NbrCache`), and the functions of
`nbr-table.c`, `uip-ds6-nbr.c` and `uip-ds6-route.c` map records to records.  A handler of
`uip-nd6.c`, a call of `tcpip_ipv6_output` or a periodic event is one step: all of them run in
the network thread, with `uipMutex` held.  `cache.left` is what `uip_buf` holds when
`tcpip_ipv6_output` returns without clearing `uip_len` (`src/net/ip/tcpip.c:628` and `729`);
what it holds there is sent by the timers, if no other connection is served before.  `last` is
the static `nbr` of `uip-nd6.c`. Timers are not counted: those of any neighbours may have run
out in a tick.  Messages come from nodes that announce link-layer addresses of their own
(`Owns`); an advertisement comes from an address of the node of its target.  A route has a field
`via` that the code does not have, the next hop it was added with.

### NetUdp

As in `NetSock`, a socket is served by one task.  `usock` is the `struct netSock` with its task
(`call` and `wake` are the task's program counter), `uconn` is `uip_udp_conns`, `umain` where the main thread is,
and `urequest` is `dataToSend`.  `owed` and `sent` are not in the code: datagrams that the
main thread has stored and no read has returned, and datagrams sent for the running write.
All that is done with the socket's mutex held is one step; "hold" is the wait of
`netUdpAppcallMutex` for a reader, in which the main thread keeps `uipMutex`.  The store through
NULL of `netAppcallClose` (`src/sock.c:654`) either stops the program (`UdpFault`) or is lost.
A read may time out at any time, since a bound socket's timeout is its port
(`src/contiki-conf.h:111`, one union).  Left out: the TCP connections that `lastport` is shared with,
and lengths beyond the buffer.

### UipTcp

`conn` is `struct uip_conn` of a node, `app` its socket as `netTcpAppcall` leaves it, `net` the set of segments
that may still arrive: a set, so that each may come again.  `data` of a segment names positions
in its writer's stream, which is all that the properties need of bytes.  One action is one call
of `uip_process` with its appcall (`Receive` and the actions it dispatches to by state), one
`Poll` or one tick of the timer.  Sequence numbers are numbers modulo `SeqMod`.
`Stale` is a segment of an earlier connection.  `TcpStream` counts bytes only; that the bytes are the right
ones is `StreamIntact`.

### Ip6 and UipReass

A packet has its addresses, hop limit, extension headers and upper layer header, each reduced to
what a branch of `uip6.c` or `uip-icmp6.c` tests.  `Input` is `uip_process` for one node with
the output of its answer.  The stranger `x` is a host that may send anything in `Foreign`.  Next
hops are resolved.  Reassembly and the checks are compiled in, which are options. Fragments have
lengths in blocks of eight bytes; each place of the buffer remembers which block of which packet
was written there last, also when a later reassembly begins.  As in `uip_reass`, a fragment goes
behind as many headers as it has itself, the headers of the fragment that begins the reassembly
and of the first one go over what is there, and the size of the packet counts the headers of the
fragment that completes it.  An extension header is as long as a block.  `Behind` is how many
blocks behind `uip_reassbuf` nothing else uses; what is written there is found again, what is
written behind them is not.  What such a write does to other variables is not modelled.  `even`
is not in the code: no fragment of this reassembly came with more or fewer headers than the
others or reached past the buffer or its bitmap.  A packet that is not what one sender cut up
has the contents `"mixed"` and goes to the upper layers.

### Ds6Addr

Several nodes on one link, with the same interface identifier where that matters.  `addrs`, `groups` and
`onlink` are the tables of `uip-ds6.c`; `rs` and `racount` count solicitations and
advertisements.  One action is one turn of `uip_ds6_periodic` for one entry, or one message.  A
timer may run out at any time, but the wait after a detection's solicitation lasts until the link
has delivered it and its answers.

### The services

`UipArp`: `arptable` with `arptime` modulo `TimeMod`, `macs` counts the exchanges of a machine's
Ethernet address, `wire` has the frames.  `SplitOutput` gives both halves to `uip_arp_out`, one
after the other, as `uip_split_output` does. `Dhcpc`: time passes by the second while every task
waits; a message is under way for `MaxDelay` at most. `NameServer`: `dns` is the list;
`announced` (not in the code) is until when each server was announced last. `Etimer`: `wake` is
the Pico]OS timer, of which it is assumed that setting and starting it keeps what has fired.
`poller` is where the main thread is in `etimer.c`: the clock goes on between any two looks at
it, that is in the loop of `etimer_request_poll`, before `update_time` reads it, and between
that and `posTimerSet`.  `MaxLate` bounds how long the main thread is away after the kernel
timer has fired, and how long it is in `etimer.c`.  `missed` (not in the code) has the timers
that `update_time` found over when it set the kernel timer. `Emac`: a buffer is copied in two
halves by the DMA and by the thread, so that they may cross.  `Hdlc`: an FCS is modelled by what
it is over, so that it never fits by chance, and the escapes of a frame are written without a
loop: the places that hold no octet are left out.  `Enc28j60`: the ring has a place for each
datum and one for the pointer before each frame.

## Runs

| Run | Instance | What it shows |
|---|---|---|
| `sock_stream` | two sockets, one connection, accept hook; reads of 1 and 3 bytes and lines, segments of 2 bytes, writes of 2 with windows of 1 and 2 that change | type correctness; the inductive invariant of the proofs; bytes conserved in both directions; no lost wakeup; the assertions; retransmissions read a live buffer; the refinement of `SockHandshake` |
| `sock_accept` | a listening socket and room for two accepted, `netSockAccept` with its 200 ms, and close of the listening socket | no freed socket is used and no connection is left without one |
| `sock_open` | two connections, active open, refusal, close of bound and listening sockets | sockets and connections stay paired when both are reused |
| `sock_live` | one TCP connection, with reads that time out; two UDP sockets; fair scheduler | the main thread returns to its semaphore, writes and closes return, unless readers that poll keep the main thread |
| `nd_cache` | a router; a table of two keys; two neighbours that share a link-layer address, one of which moves; a destination net and a host in it | the tables agree, addresses are unique and resolved, a full table gives up a neighbour only with one of its least used keys |
| `nd_router` | a host with a default router; fair timers | solicitation ends |
| `tcp_stream` | writes of 3 and 1 bytes, MSS 2, sequence numbers modulo 8 that wrap, one retransmission, an old acknowledgement | streams intact, one segment outstanding, the refinement of `TcpStream`, writes and closes end |
| `ds6` | two hosts with the same identifier, and a host with a router; options for ever, for one unit and withdrawn | one user for each global address; addresses settle |
| `services` | each part of `MCServices` alone | `AnswersRight`, `DeliversWhole`, `LinkRests` (`Ip6`), `ArpRight`, `SplitWhole` (`UipArp`), `LeaseKept` (`Dhcpc`), `TimersOnTime` (`Etimer`), `FramesIntact` (drivers), `UdpRight` (`NetUdp`), `ServersTold` (`NameServer`) |
| `bug_...` | | see below |

A system may stop, and its run says `CHECK_DEADLOCK FALSE`, where it is at its bound (`tcp_stream`, `ds6`,
`services`: all is written, announced or sent), where nothing needs to happen (`Nd6`), or where the code
deadlocks (`sock_accept` and `sock_open` close listening or bound sockets, see below).  In
`sock_stream` and `sock_live` a deadlock would be reported.

**Why the bounds are enough.**  Two sockets on one connection are a listening or closed one and
one in service, and a connection that is used again with another socket.  A write of 2 over
windows of 1 and 2 takes one segment or two, and the window may change before, between and under
them; segments of 2 into blocks of 1 and 3 make reads that end early and in the middle of a
segment.  One retransmission reaches both the retry and the last try; in `sock_live` a handshake
is given up at its first timeout (`MaxSynRtx` 0), and only data is sent again.  Two UDP sockets
with tables of one and of two connections reach the full table, a connection used again, and two
sockets on one port of which the remote end decides.  In `UipTcp` initial sequence numbers of 6
and 3 modulo 8 wrap within the first write; 8 is more than twice the window, as 2^32 is, so that
only segments older than the wrap would be mistaken.  Two slots for three keys, the null one
that all neighbours begin with and one for each link-layer address, fill up at once and evict at
the next new address, with routes and routers that use one key more than the other: `LosesNone`
is about full tables, too, where it tells the least used key from the rest.  `MaxMulticast` 2 is
the first value with a retry.  In `Ip6` two routers that are each other's default make a loop,
`HopLimit` 3 is the first that turns round in it, and the three packets that the stranger sends
hold every header, errors among them, before two fragments. `ReassBlocks` 9 is the smallest
buffer with two bytes of bitmap and room for packets whose data passes the check of the length
and reaches past the buffer, by one block, which `Behind` 1 keeps, and by two; packets of two
fragments whose headers are as many, more and fewer are among those sent. `ArpSize` 1 has every
entry pushed out; segments of 1, 2 and 3 bytes are sent whole, cut evenly and cut unevenly; the
second of two segments is the first that finds its address resolved.  `Lease` 6 has renewals at
3, 1 and then the end, and messages take up to 1; with a lease of 4 what the client keeps in
hand is less than the delay, and `LeaseKept` fails. `ClockMod` 9 is the first that tells an
interval of 2 from three delays of 2 each, and wraps every few timers; a delay of 2 is longer
than what is left of a timer when a poll begins, so that others run out at every step of it.  A
pool of two servers among three is the smallest that must replace one.

**Fairness.**  `NetSock`: weak fairness of the main thread and strong fairness of each task's
step after a wait, since pico]OS schedules every task that can run and gives a mutex to who waits;
strong fairness of the periodic timer and of the retransmission timer of each
connection, which count down on every tick.  `NetUdp`: weak fairness of the main thread and of each task, strong
fairness of the periodic timer.  Nothing is assumed of the peer or of readers: segments and reads may
never come.  `UipTcp`: the timers of each end go on, and no segment needs to arrive.  `Ip6`: the link
delivers or loses what is sent.  `Ds6Addr`: the periodic event and what waits on it, and the link.
`Nd6`: the periodic event comes (`etimer_reset` at the end of `uip_ds6_periodic`), and
for each neighbour there is again and again a tick in which its timer has run out, no other
neighbour asks before it and `uip_buf` is free: timers are set in seconds, the event comes every
100 ms.  No answer is assumed.

## Proofs

What is proved holds for every value of the constants that satisfies the named assumptions
of the module, each about one constant or two: any number of sockets and connections, any
lengths and windows, tables and sequence spaces of any size.

| Theorem | States | Beyond the assumptions on constants |
|---|---|---|
| `NetSock_proofs!TypeCorrect`, `AttachedAlways`, `EstablishedAlways` | `TypeOK`, `Attached`, `EstablishedHasSocket` | |
| `NetSock_proofs!InductiveAlways` | `Inductive` | |
| `NetSock_proofs!NoUseAfterFreeAlways`, `NoLostWakeupAlways` | `NoUseAfterFree`, `NoLostWakeup` | |
| `NetSock_proofs!AssertionsAlways` | `Assertions` | `AcceptHook`, `"closeBound" \notin Calls` |
| `NetSock_proofs!HandshakeImplemented` | `Spec => ImplementsHandshake` | |
| `NetSock_proofs!RetransmitsWriteAlways` | `RetransmitsWrite` | |
| `NetSock_proofs!WritesConserveAlways` | `WritesConserve` | |
| `NetSock_proofs!ReadsConserveAlways` | `ReadsConserve` | `"lineTimeout" \notin Calls` |
| `UipTcp_proofs!TcpTypeCorrect` | `TcpTypeOK` | |
| `UipTcp_proofs!StreamIntactAlways` | `StreamIntact` | `SeqWide`, `StaleApart` |
| `UipTcp_proofs!StopAndWaitAlways` | `StopAndWait` | the same, `StaleQuiet` |
| `UipTcp_proofs!StreamImplemented` | `ImplementsStream` | the same, `StaleNoEnd` |
| `NetUdp_proofs!UdpRightAlways` | `UdpRight` | |
| `Ip6_proofs!AnswersRightAlways` | `AnswersRight` | `ForeignAnswers` |
| `Ip6_proofs!DeliversWholeAlways` | `DeliversWhole` | `ForeignCuts` |
| `Ds6Addr_proofs!UniqueGlobalAlways` | `UniqueGlobal` | |
| `Services_proofs!LeaseKeptAlways` | `LeaseKept` | `InTime` |
| `Services_proofs!ServersToldAlways` | `ServersTold` | |
| `Services_proofs!ArpRightAlways` | `ArpRight` | |
| `Services_proofs!SplitWholeAlways` | `SplitWhole` | `"down" \notin CopyOrders` |
| `Services_proofs!TimersOnTimeAlways` | `TimersOnTime` | |
| `Services_proofs!EmacIntactAlways`, `HdlcIntactAlways`, `EncIntactAlways` | `EmacIntact`, `HdlcIntact`, `EncIntact` | |
| `Services_proofs!FramesIntactAlways` | `FramesIntact`, for the three drivers together | |
| `Nd6_proofs!Nd6TypeCorrect`, `RoutesLinkedAlways`, `UniqueAddressAlways`, `ResolvedAlways`, `RoutersDistinctAlways` | `Nd6TypeOK`, `RoutesLinked`, `UniqueAddress`, `Resolved`, `RoutersDistinct` | |
| `Nd6_proofs!LosesNoneAlways` | the action property `LosesNone` | `NodesOnLink` |

**Why these hypotheses.**  Without each of them the statement is false, and TLC shows it
(see the tables below), or the code has no means against it:

- `AcceptHook`, `"closeBound" \notin Calls`: `netSockAccept` may return the socket of another task,
  and closing a bound socket fails the assertion of `sockClose`.
- `"lineTimeout" \notin Calls`: a line that is read in part is lost when the read times out.
- `SeqWide`: what is written goes round the sequence space less than once.  It excludes the
  old segments that 32 bits cannot tell from new ones when a connection lives that long.
- `StaleApart`, `StaleQuiet`, `StaleNoEnd`: segments of earlier connections have sequence numbers in none of the
  places where they would be taken for this one, which initial sequence numbers and the life time of
  packets are to see to, as in every TCP; `StaleQuiet` also excludes the data and FINs that the connecting end
  answers in `SYN_SENT`.  The instance of `tcp_stream` satisfies all four, with an old acknowledgement in `Stale`.
- `InTime == Lease >= 6 /\ MaxDelay <= 1`: seconds; `dhcpTask` keeps two of them in hand at
  the end of a lease.  The `Dhcpc` of `services` has exactly these values.
- `NodesOnLink`: who solicits is on the link.  `nd_cache` satisfies it.
- `ForeignAnswers`: errors and replies that the stranger sends go where they belong, and its hop
  limit is not above that of the nodes, from which `AnswersRight` tells the first hop from the
  others.  What nodes forward for it would break the rules otherwise.
- `ForeignCuts`: one identification between two addresses stands for one packet, whose last
  fragment ends at its length.  The reassembly has no other means than the identification
  (`src/net/ipv6/uip6.c:703`) to tell packets apart. `MCIp6` assumes both of its stranger, so
  that TLC evaluates them.
- `"down" \notin CopyOrders`: `memcpy` of overlapping bytes is undefined, and a copy from the end destroys them
  (`src/net/ip/uip-split.c:125`).

Some named assumptions are bounds too.  `EtimerAssumption` has the clock tell an interval and
three delays of the main thread apart (late to the poll, in the poll, and in `update_time`), as
ticks are compared modulo the clock.  `HdlcAssumption` says that an FCS is neither a header nor
data.

**Sockets.**  `Attached` is not inductive: that a socket in service has a live connection after a step
of the main thread depends on where that thread stands in its appcall.  `Inductive` adds
`CallState` (the socket's state fits the call its task waits in, so that a task that
wakes changes the state of its own socket only), `UnusedNull` (a free slot has no state),
`SpareHasNoFile` (a connection entry that uIP may give away refers to no socket), and
`AppcallState`: at each label of the appcall, the flags it can have been called
with, what `tcp[ci]` is, and which socket `file[ci]` is.  `AppcallState` is what carries the knowledge
that `abort` and `close` clear `file` before the connection does anything else.  TLC checks
`Inductive` in `sock_stream`; the other invariants of the sockets start from it, and each adds a part of its own:

- `MutexState`, for `NoUseAfterFree`: a mutex is destroyed in states only in which no connection
  refers to the socket, and the main thread holds the mutex where it says so.
- `AssertState`: with an accept hook no socket has a connection to give away, and a closing one
  was more than bound.
- `SendState`: data is outstanding on a connection only while its socket writes, so that `uip_rexmit` finds the
  caller's buffer.
- `WriteState`: what is owed is what is left to send, with the acknowledgement that the appcall
  is just taking in counted on one side or the other, unless the window has changed under a
  segment of this write (`resized`).
- `ReadState`: the bytes that no read has returned are in the reader's buffer, or in the segment
  that the appcall holds.

`HandshakeImplemented` has one lemma for each group of actions, which says which step of `SockHandshake` it is.
`LinkOf` chooses the connection whose `appstate.file` is the socket: that it is the same one before and
after a step is the third part of `Attached`, and that a new link is a new one is `SpareHasNoFile`.

**TCP.**  `StreamState` says what sequence numbers mean: `snd` is the number behind what has
been confirmed, `rcv` the number behind what has been read, and a data segment of the network is
a piece of what its writer wrote, at its number.  Since numbers are modulo `SeqMod`, a segment
that fits `rcv` is at that place only by `SeqWide` (`AtInjective`).  `WaitState` adds that the
reader has what the writer knows it has, or that and the one segment outstanding, that every
data segment under way is that one or an older one, and that acknowledgements under way are for
what has been read; `FreshRight` is the same before the connection is open.  `EndState` adds
that a FIN comes behind all data, or the other end has closed already.  With these, each step of
`UipTcp` is `Write`, `Serve` or `Close` of `TcpStream`, or a stutter.

**UDP.**  `UdpInductive` has the shape of the records, `StateFits` (one socket, its call and its
two counters), `OneConnection` (sockets in service and connections in use, one to one) and
`HeldForSocket` (nothing changes the connections while the main thread waits for a reader).
That `uip_udp_new` finds a port that no connection has is a pigeonhole argument about finite
sets.

**DHCP.**  `GivesUp` is the core: the time that the host has left is at most what the server gives it, less
what is kept in hand, in each place in which `dhcpTask` may be while it uses the address; `AnswersLast`
relates the lease to the age of an answer under way.

**Name servers.**  `NsInductive`: the list has one record for a server, each with a time at
which it was announced and a lifetime that end when `announced` says.  A purge leaves out
records, so that it keeps all of this.

**Timers.**  Ages are differences modulo the clock, which mean nothing unless bounded.
`EtimerInductive` bounds them for the timers that are not `missed`: `NoneTooLate` says that none
is older than its interval and the delays that there can have been, by where the main thread is;
`PassedInTime` that those that the loop has passed had not run out then; `ReadBefore` that what
`update_time` has read of the clock is not older than its delay; `WakesInTime` that the kernel
timer, while it runs, fires in time for the first of them. `SetWake` makes the last, where
expirations are compared over the wrap; a timer that was over then is `missed`.

**ARP and the split.**  `ArpInductive`: each table, request and reply says of a machine an
Ethernet address it has or had, and an entry that was never used says none.  `AllWhole` says of
packets on the wire and of those taken that each byte is the one its sequence number says; it
rests on what `memcpy` does with overlapping bytes.

**Drivers.**  `EmacInductive`: all descriptors share one buffer, so that it is right only
because at most one of them is the DMA's, the one that the thread waits for next.
`EncInductive`: because the read pointer never leaves the place where a reset puts it (see
`bug_enc_room`), the chip never writes over a frame; the frames kept lie in the ring one behind
the other, and the thread is at the oldest.  `HdlcInductive`: an FCS fits one body only, and
each frame has one octet that ends its FCS. There are numbers `p <= k <= m` such that the
packets polled are of frames up to the `p`-th, in order, the one that waits is of a frame up to
the `k`-th, what is in the buffer is of frames up to the `m`-th, and the line has the rest.

**IPv6 addresses.**  `Settling`: of two hosts that claim one global address, by use or by having
asked for it, one will give it up.  If none uses it yet, the solicitation of one is on its way
to the other; if one does, the other's solicitation is on its way to it, or an answer on the way
back.  Messages may cross in any order.

**IPv6 input.**  `FramesAnswer` says what answers must be of each frame on the link, also of one
that another node forwards; `Shaped` is what a handler needs of packets for it.
`WholeInductive` says that fragments on the link are as the stranger cut them, and `Collected`
that the buffer knows the length of the packet that it collects if it knows one, and, as long as
the reassembly is `even`, that nothing has been put where the headers are and each block of the
bitmap is in its place behind them (`Placed`); a full and even buffer is then that packet.

**Neighbour discovery.**  `Right(cache)` is a predicate of tables: their shape (`Tables`), a key
for each slot in use (`KeysRight`), routes, blocks and the lists of next hops (`Linked`), no
address twice and each resolved one announced (`Neighbours`), no router twice (`RoutersOnce`).
There is one lemma for each function of `NbrCache`: it maps right tables to right ones; the
invariant of `Nd6` follows by composing them as the handlers do.  The lemmas hold in the middle
of a handler too, where the code calls one table's function from another's.  For `LosesNone`
each function either keeps every neighbour (`Keeps`) or removes one only in the cases that the
property allows (`Spares`): one of them is that the table is full and the key is taken by
`nbr_table_allocate`, of which `Victim` is shown to choose one of the least used.
`Lists_proofs` has what these need of `list.c`: that `list_remove` keeps order and distinctness,
and what it leaves.  As induction over data is out of reach, a list without some elements is
defined by the ranks of the positions that stay, and the facts about it come from theorems about
cardinalities.

**Only model-checked.**  Every invariant, step property and refinement that a run checks has a
theorem.  There is none for:

- Liveness and all that is stated under fairness (`WriteReturns`, `CloseReturns`, `MainServes`,
  `UdpEnds`, `WriteEnds`, `CloseEnds`, `LinkRests`, `AddressSettles`, `SolicitationEnds`): the
  prover has neither fairness nor `ENABLED`.
- What a loop over data computes for every input: loops are written as sets or functions in
  these modules, or run on the instances only.

## Where the code differs from its documentation

Each of these is a run that TLC finds violated.

| Run | What happens |
|---|---|
| `bug_connect_lock` | `netSockConnect` returns with the socket's mutex held (`src/sock.c:222`), and the main thread stops at the next appcall |
| `bug_arp_age` | `uip_arp_timer` tests for entries that are unused (`src/net/ipv4/uip_arp.c:158`), so that one in use stays for ever |
| `bug_enc_room` | both bytes of the read pointer go to its low register (`src/drivers/enc28j60.c:671`), so that the chip reports a full ring while the frames in it have been read |

Other statements that a user of the code would expect are in the modules without a run of their own. TLC
refutes each with the instance named.

| Statement | Refuted in | What happens |
|---|---|---|
| `NetSockInv!NoCircularWait` | `sock_accept` | closing a listening socket takes `uipMutex` with the socket's mutex held (`src/sock.c:515`), the main thread takes them in the other order |
| `NetSockInv!AllocFailsWhenFull` | `sock_accept` | `netSockFree` does not free the slot of `netSocketTable` (`src/sock.c:486`) |
| `NetSockInv!AcceptReturnsSocket` | `sock_accept` | the connection that `netSockAccept` returns may be gone |
| `NetSockInv!FreedOnce` | `sock_open` | `netSockConnect` frees the socket that its caller frees again |
| `NetSockInv!EofAfterData` | `sock_stream` | data that comes with FIN is acknowledged and lost: the end of file overwrites the answer to the read |
| `NetSockInv!WritesAcknowledged` | `sock_stream` | an acknowledgement is credited with the window of now (`src/sock.c:675`), not with what was sent: a write returns as done though its last bytes were not acknowledged |
| `NetSockInv!MainServes`, without `ReadPolls` | `sock_live` | data waits for a reader with `uipMutex` held; a read that begins wakes it (`src/sock.c:361`), and when it gives up (`src/sock.c:383`) before the main thread has the mutex, the wait of 500 ms begins again (`src/sock.c:698`): an application that polls for data in this way may keep all sockets waiting for ever |
| `NetSockInv!Assertions` | `NetSock` without the accept hook, four sockets, one connection and two listening ports | two calls of `netSockAccept` may return the same socket, once the connection of the first has ended and its entry serves the other listener |
| `UipTcp!StopAndWait` | `tcp_stream` with an old data segment for the connecting end | in `SYN_SENT` it is answered (`src/net/ipv6/uip6.c:1866`) with an acknowledgement of `rcv_nxt`, which is not set yet; the peer may take it for one of its data |
| `NetUdp!UdpServes` | `sock_live` | each read that begins anew, and each read of a line, lengthens the main thread's wait for a reader |
| `Nd6Inv!RouteGoesVia` | `nd_cache` | routes added over a neighbour that is being resolved are tied to the shared null address, and lead to the next one that is |
| `Nd6Inv!LosesNone` | `nd_cache` with a soliciting node that is not on the link | the solicitation adds a key for its source, and the answer, which goes to a default router that is not resolved, another; a neighbour goes though the table had room before |
| `Ds6Addr!UniqueAddresses` | `ds6` | a link-local address whose detection failed becomes preferred (`src/net/ipv6/uip-ds6.c:626`) |
| `Ip6!NeverMixed` | `services` | a fragment is placed behind as many headers as it has itself, and the packet is measured by those of the last to come (`src/net/ipv6/uip6.c:760`, `805`); the check that "offset + fragment length overflows the reassembly buffer" (`src/net/ipv6/uip6.c:726`) leaves the headers out, so that the copy goes past the buffer |
| `Etimer!TimerPosted` | `services` | a timer that runs out after `etimer_request_poll` has looked at it (`src/sys/etimer.c:114`) and before `update_time` reads the clock (`src/sys/etimer.c:73`) seems to be almost a whole round of the clock away; the kernel timer is set for another, or for that distance |
| `NameServer!NoneDisplaced` | `services` | with a full pool, the withdrawal of an unknown server removes another one |
| `NameServer!AdvertisedInTime` | `services` with `NsPool = 3` | a purge overlooks the new head of its list, and the lifetime of an option wraps below zero |

Also seen while modelling: closing a bound socket fails the assertion at `src/sock.c:523`; a
`netSockReadLine` that times out forgets the part of the line it has, and on a UDP socket it is
never answered; a UDP write of no bytes returns as written and sends nothing; the first
neighbour solicitation is built and not sent (`src/net/ip/tcpip.c:679`), so that one fewer than
`UIP_ND6_MAX_MULTICAST_SOLICIT` is; `retrans_timer / 1000` is 0 for an advertised value below
one second, and detection then succeeds at once (`src/net/ipv6/uip-ds6.c:602`); an address in
detection answers solicitations (`src/net/ipv6/uip-nd6.c:264`); the advertisements of a router
carry no prefix, as that code is in `#if !UIP_CONF_ROUTER` (`src/net/ipv6/uip-nd6.c:694`); the
lifetime of an RDNSS option is sent in the byte order of the host
(`src/net/ipv6/uip-nd6.c:736`); two ends in `TIME_WAIT` answer each other's acknowledgements
(`src/net/ipv6/uip6.c:2244`); `memcpy` in `uip_split_output` overlaps
(`src/net/ip/uip-split.c:125`); a lookup of 0.0.0.0 finds an unused ARP entry; `inCtx.max`
counts the protocol and the FCS, so that the largest frames do not fit; nothing serves the
reassembly timer (`src/sock.c:1042`), so that, where reassembly is compiled in, a lost fragment
keeps its buffer for ever.

## What is not modelled

`PROJECT.json` lists every part with its reason.  Checksums and byte layouts have no state; the
BSD wrapper keeps nothing; the telnet server is sequential above one socket; `unixtap.c` and
`cs8900a_lpc_e2129.c` move bytes.  Limits of the modules:

- `NetSock`: a length of zero or of 65536 and more, and two tasks on one socket.
- `UipTcp`: TCP options, changes of the window, urgent data, the round trip estimate (in 8 bits,
  `src/net/ipv6/uip6.c:1901`); retransmission happens at any time.  One connection, opened by one side.
- `Ip6`: no datagram without a port; what is written behind the reassembly buffer and `Behind`
  changes nothing; addresses are resolved at once; the check of `uip_icmp6_error_output` behind
  an extension header (`src/net/ipv6/uip-icmp6.c:214`) tests bytes that are not the ICMP header,
  so `AnswersRight` excludes errors with extension headers, and answers may have `::` as source
  where no address fits.
- `Nd6`: the addresses of the node and its prefixes are fixed, no neighbour is locked (nobody
  calls `nbr_table_lock`), and packets are not queued (`UIP_CONF_IPV6_QUEUE_PKT` is 0).
- `Ds6Addr`: what is left of a life time counts from the top one unit of time sooner than in
  `stimer_remaining`; neighbours are not resolved, and no frame is lost or outlives the wait of
  a detection, which relies on both.
- `UipArp`: short frames, and multicast, which goes as broadcast; of the overlapping
  `memcpy` the run has the order upwards, and with `"down"` in `CopyOrders` `SplitWhole` fails.
- `Dhcpc`: one server with one address; servers are external and never change their mind.
- `NameServer`: pools of more than one; a clock below 2^32 seconds.
- `Etimer`: the Pico]OS timer is external.  `Emac`, `Hdlc`, `Enc28j60`: chips and lines are
  external; the transmit side of `Hdlc` and `Enc28j60`, SPI and banks are left out, and of PPP
  frames protocols of two octets (`src/drivers/ppp_frame.c:265`) and the peer's bound on what it
  sends (`src/drivers/ppp_frame.c:168`).

## Plan

1. Models: `UipTcp` below `NetSock` instead of its guesses about the peer; options and the window in
   `UipTcp`; `Nd6` below `Ip6`, so that next hops are resolved by it.
2. Proofs: with such models, that `UipTcp` does what `NetSock` assumes of uIP, so that the
   theorems about bytes compose from `netSockWrite` at one end to `netSockRead` at the other;
   the transmit side of `Hdlc` and `Enc28j60`.
