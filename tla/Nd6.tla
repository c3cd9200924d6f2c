-------------------------------- MODULE Nd6 --------------------------------
(***************************************************************************)
(* IPv6 neighbour discovery: the handlers of uip-nd6.c, the output path of *)
(* tcpip.c and the periodic work of uip-ds6.c and uip-ds6-nbr.c, on the    *)
(* tables of NbrCache.  All of it runs in the network thread, so a handler *)
(* is one step, the packets that it sends included.  Timers run out at any *)
(* time.  The node has a preferred link-local address, so that it has a    *)
(* source address for its solicitations, and does not queue packets        *)
(* (UIP_CONF_IPV6_QUEUE_PKT is 0).                                         *)
(***************************************************************************)
EXTENDS NbrCache

CONSTANTS
  Owns,           \* the link-layer addresses that the node at an address uses
  Hops,           \* next hops of the routes that applications add
  RouterAddrs,    \* addresses that routers and applications announce as routers
  Builds,         \* values of UIP_CONF_ROUTER
  MaxMulticast,   \* UIP_ND6_MAX_MULTICAST_SOLICIT
  MaxUnicast,     \* UIP_ND6_MAX_UNICAST_SOLICIT
  NoOpt           \* no link-layer address option

ASSUME OwnsAssumption == Owns \in [Addrs -> SUBSET LLs] /\ NoOpt \notin LLs
ASSUME HopAssumption == Hops \subseteq Addrs /\ RouterAddrs \subseteq Addrs
ASSUME BuildAssumption == Builds \subseteq BOOLEAN
ASSUME SolicitAssumption == MaxMulticast \in Nat \ {0} /\ MaxUnicast \in Nat \ {0}

VARIABLES
  cache,    \* the tables of NbrCache
  last,     \* the static nbr of uip-nd6.c, a slot
  router    \* UIP_CONF_ROUTER

vars == <<cache, last, router>>

Init == cache = EmptyTables /\ last = None /\ router \in Builds

-----------------------------------------------------------------------------
(* Output *)

\* tcpip_ipv6_output from the lookup of the next hop on.  The solicitation for
\* a new neighbour is built in uip_buf, and returned with uip_len set.
SendTo(c, hop) ==
  LET s == NbrLookup(c, hop) IN
  IF s = None
    THEN [NbrAdd(c, hop, NullLL, FALSE, "INCOMPLETE", 1) EXCEPT !.left = "solicitation"]
  ELSE IF c.nbr[s].state = "STALE"
    THEN [c EXCEPT !.nbr[s].state = "DELAY", !.nbr[s].nscount = 0, !.left = None]
  ELSE [c EXCEPT !.left = None]

\* tcpip_ipv6_output of a packet for a unicast address.  A route without next
\* hop goes, and the packet stays in uip_buf.
Output(c, dst) ==
  LET r == RouteFor(c, dst)
      d == Touch(c, r)
      hop == IF r = None THEN DefrtChoose(c) ELSE Nexthop(d, r)
  IN IF dst \in OnLink THEN SendTo(c, dst)
     ELSE IF hop # None THEN SendTo(d, hop)
     ELSE IF r # None THEN [RouteRm(d, r) EXCEPT !.left = dst]
     ELSE [c EXCEPT !.left = None]

\* uip_len = 0, by whoever uses uip_buf next
Clear(c) == [c EXCEPT !.left = None]

\* A packet of our own.  What stays in uip_buf is seen by the timers only when
\* no other connection is served before them.
Send(dst) ==
  /\ cache' \in {Output(cache, dst), Clear(Output(cache, dst))}
  /\ UNCHANGED <<last, router>>

-----------------------------------------------------------------------------
(* Input *)

\* The new link-layer address replaces the one in the key.
Moved(c, s, l) == [c EXCEPT !.ll[s] = l, !.nbr[s] = [c.nbr[s] EXCEPT !.state = "STALE"]]

\* Wrong: an entry is added without a lookup.
HearSourceAdds(c, src, l, isrouter) == NbrAdd(c, src, l, isrouter, "STALE", 0)

\* A source link-layer address option in ns_input and ra_input
HearSource(c, src, l, isrouter) ==
  LET s == NbrLookup(c, src) IN
  IF s = None THEN NbrAdd(c, src, l, isrouter, "STALE", 0)
  ELSE IF c.ll[s] # l THEN Moved(c, s, l)
  ELSE c

\* What a handler leaves in nbr; of a router, no handler reads it.
Remember(s) == last' = IF router THEN None ELSE s

\* ns_input: the answer goes to the source of a solicitation for our address.
NsInput(src, l, forUs) ==
  LET d == IF l = NoOpt THEN cache ELSE HearSource(cache, src, l, FALSE) IN
  /\ Remember(IF l = NoOpt THEN last ELSE NbrLookup(cache, src))
  /\ cache' = Clear(IF forUs THEN Output(d, src) ELSE d)
  /\ UNCHANGED router

\* Wrong: an unresolved neighbour is resolved without an address.
NaAcceptBlind(c, s, l, solicited, override, isrouter) ==
  [c EXCEPT !.ll[s] = IF l = NoOpt THEN @ ELSE l,
            !.nbr[s].state = IF solicited THEN "REACHABLE" ELSE "STALE",
            !.nbr[s].isrouter = isrouter]

\* What na_input makes of the entry of the target.
NaResolve(c, s, l, solicited, isrouter) ==
  LET e == c.nbr[s]
  IN [c EXCEPT !.ll[s] = l,
               !.nbr[s] = [e EXCEPT !.state = IF solicited THEN "REACHABLE" ELSE "STALE",
                                    !.nscount = IF solicited THEN 0 ELSE e.nscount,
                                    !.isrouter = isrouter]]

NaUpdate(c, s, l, solicited, changed, isrouter) ==
  LET e == c.nbr[s]
  IN [c EXCEPT !.ll[s] = IF l = NoOpt THEN c.ll[s] ELSE l,
               !.nbr[s] = [e EXCEPT !.state = IF solicited THEN "REACHABLE"
                                              ELSE IF changed THEN "STALE" ELSE e.state,
                                    !.isrouter = isrouter]]

NaAccept(c, s, l, solicited, override, isrouter) ==
  LET changed == l # NoOpt /\ l # c.ll[s]
      state == c.nbr[s].state
  IN IF state = "INCOMPLETE"
       THEN IF l = NoOpt THEN c ELSE NaResolve(c, s, l, solicited, isrouter)
     ELSE IF changed /\ ~override
       THEN [c EXCEPT !.nbr[s].state = IF state = "REACHABLE" THEN "STALE" ELSE state]
     ELSE NaUpdate(c, s, l, solicited, changed, isrouter)

\* na_input.  A router that says it is one no more is looked up among the default
\* routers by the source of the packet.
NaInput(target, src, l, solicited, override, isrouter) ==
  LET s == NbrLookup(cache, target)
      d == NaAccept(cache, s, l, solicited, override, isrouter)
      refused == cache.nbr[s].state # "INCOMPLETE" /\ l # NoOpt /\ l # cache.ll[s] /\ ~override
      demoted == cache.nbr[s].state # "INCOMPLETE" /\ ~refused /\ cache.nbr[s].isrouter /\ ~isrouter
  IN /\ Owns[src] \cap Owns[target] # {}
     /\ Remember(s)
     /\ cache' = IF s = None THEN Clear(cache)
                 ELSE Clear(IF demoted THEN DefrtRm(d, {src}) ELSE d)
     /\ UNCHANGED router

\* rs_input; uip_ds6_nbr_add finds room, as no neighbour is locked.
RsInput(src, l) ==
  LET s == NbrLookup(cache, src)
      moved == NbrAdd(NbrRm(cache, s), src, l, FALSE, "STALE", cache.nbr[s].nscount)
  IN /\ router
     /\ cache' = Clear(IF s = None THEN NbrAdd(cache, src, l, FALSE, "STALE", 0)
                       ELSE IF cache.ll[s] # l THEN moved
                       ELSE [cache EXCEPT !.nbr[s].isrouter = FALSE])
     /\ UNCHANGED <<last, router>>

IsRouter(c, s) ==
  IF s # None /\ c.nbr[s] # Unused THEN [c EXCEPT !.nbr[s].isrouter = TRUE] ELSE c

\* ra_input: without the option nbr is what another handler left in it.
RaInput(src, l, lifetime) ==
  LET heard == IF l = NoOpt THEN cache
               ELSE LET d == HearSource(cache, src, l, TRUE) IN IsRouter(d, NbrLookup(d, src))
      nbr == IF l = NoOpt THEN last ELSE NbrLookup(heard, src)
      lived == IF src \in Routers(heard) THEN heard ELSE DefrtAdd(heard, src, FALSE)
  IN /\ ~router
     /\ last' = nbr
     /\ cache' = Clear(IF lifetime THEN IsRouter(lived, nbr) ELSE DefrtRm(heard, {src}))
     /\ UNCHANGED router

-----------------------------------------------------------------------------
(* Timers *)

Limit(state) == IF state = "INCOMPLETE" THEN MaxMulticast ELSE MaxUnicast
Solicits == {"INCOMPLETE", "PROBE"}

Tried(c, s) ==
  /\ c.nbr[s] # Unused /\ c.nbr[s].state \in Solicits
  /\ c.nbr[s].nscount >= Limit(c.nbr[s].state)

\* uip_ds6_neighbor_periodic solicits for the first neighbour that waits for it,
\* as there is one uip_buf.
Solicitor(c, expired) ==
  FirstIn(c.keys, {s \in expired : c.nbr[s] # Unused /\ c.nbr[s].state \in Solicits /\ ~Tried(c, s)})

\* Wrong: a neighbour is not given up.
AgedForever(c, s, expired, asks) ==
  LET n == c.nbr[s] IN
  IF n = Unused THEN n
  ELSE IF asks THEN [n EXCEPT !.nscount = IF Tried(c, s) THEN @ ELSE @ + 1]
  ELSE IF n.state = "REACHABLE" /\ s \in expired THEN [n EXCEPT !.state = "STALE"]
  ELSE IF n.state = "DELAY" /\ s \in expired THEN [n EXCEPT !.state = "PROBE", !.nscount = 0]
  ELSE n

\* The entry of a slot after the pass
Aged(c, s, expired, asks) ==
  LET n == c.nbr[s] IN
  IF n = Unused \/ Tried(c, s) THEN Unused
  ELSE IF asks THEN [n EXCEPT !.nscount = @ + 1]
  ELSE IF n.state = "REACHABLE" /\ s \in expired THEN [n EXCEPT !.state = "STALE"]
  ELSE IF n.state = "DELAY" /\ s \in expired THEN [n EXCEPT !.state = "PROBE", !.nscount = 0]
  ELSE n

\* Default routers with a finite lifetime that do not answer
DeadRouters(c) ==
  {d.ip : d \in {e \in Elements(c.defrts) : ~e.inf /\ \E s \in NbrSlots(c, e.ip) :
                   Tried(c, s) /\ c.nbr[s].state = "PROBE"}}

\* etimer_callback for uip_ds6_timer_periodic: uip_ds6_periodic, which may have a
\* solicitation of its own to send (busy), and tcpip_ipv6_output.
Periodic(expired, dead, busy) ==
  LET held == cache.left # None
      d == DefrtRm(cache, dead)
      asker == IF held \/ busy THEN None ELSE Solicitor(d, expired)
      aged == [DefrtRm(d, DeadRouters(d)) EXCEPT
                 !.nbr = [s \in Slots |-> Aged(d, s, expired, s = asker)]]
      packet == IF asker # None THEN d.nbr[asker].ip ELSE cache.left
      unicast == IF asker # None THEN d.nbr[asker].state = "PROBE" ELSE cache.left \in Addrs
  IN /\ cache' = IF unicast THEN Output(aged, packet) ELSE Clear(aged)
     /\ UNCHANGED <<last, router>>

Finite(c) == {d.ip : d \in {e \in Elements(c.defrts) : ~e.inf}}

Tick == \E expired \in SUBSET {s \in Slots : cache.nbr[s] # Unused} :
  \E dead \in SUBSET Finite(cache), busy \in BOOLEAN : Periodic(expired, dead, busy)

-----------------------------------------------------------------------------
(* The interface for applications *)

\* uip_ds6_route_add
AddRoute(a, dest, hop) ==
  /\ a \in dest /\ NbrLookup(cache, hop) # None
  /\ cache' = RouteAdd(cache, a, dest, hop)
  /\ UNCHANGED <<last, router>>

\* uip_ds6_route_rm_by_nexthop; a hop that is not in the cache gives a null
\* pointer, which stands for the null address.
RmRoutesBy(hop) ==
  LET s == NbrLookup(cache, hop)
      k == KeyOf(cache, IF s = None THEN NullLL ELSE cache.ll[s])
  IN /\ k # None /\ k \in cache.hops
     /\ cache' = RmRouteList(cache, k)
     /\ UNCHANGED <<last, router>>

\* uip_ds6_defrt_add with interval 0
AddRouter(a) ==
  /\ cache' = DefrtAdd(cache, a, TRUE)
  /\ UNCHANGED <<last, router>>

-----------------------------------------------------------------------------
Nodes == {a \in Addrs : Owns[a] # {}}

Hear ==
  \/ \E src \in Nodes, forUs \in BOOLEAN : \E l \in Owns[src] \cup {NoOpt} : NsInput(src, l, forUs)
  \/ \E target, src \in Nodes : \E l \in Owns[target] \cup {NoOpt} :
       \E solicited, override, isrouter \in BOOLEAN :
         NaInput(target, src, l, solicited, override, isrouter)
  \/ \E src \in Nodes : \E l \in Owns[src] : RsInput(src, l)
  \/ \E src \in RouterAddrs, lifetime \in BOOLEAN : \E l \in Owns[src] \cup {NoOpt} :
       RaInput(src, l, lifetime)

Apply ==
  \/ \E hop \in Hops : RmRoutesBy(hop) \/ \E dest \in Dests : \E a \in dest : AddRoute(a, dest, hop)
  \/ \E a \in RouterAddrs : AddRouter(a)

Next == (\E dst \in Addrs : Send(dst)) \/ Hear \/ Tick \/ Apply

Spec == Init /\ [][Next]_vars
=============================================================================
