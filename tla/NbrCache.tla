----------------------------- MODULE NbrCache -----------------------------
(***************************************************************************)
(* The tables that IPv6 neighbour discovery works on, and their functions: *)
(* nbr-table.c, whose keys are link-layer addresses and whose items belong *)
(* to the other tables; the neighbour cache of uip-ds6-nbr.c; the routes   *)
(* and default routers of uip-ds6-route.c.  The tables are one record c,   *)
(* and a function of the code maps it to the tables it leaves behind:      *)
(*   keys     nbr_table_keys, slots of the table in order of insertion     *)
(*   ll       the link-layer address of a slot                             *)
(*   nbr      the ds6_neighbors item of a slot, Unused when its bit of     *)
(*            used_map is clear                                            *)
(*   hops     slots with a nbr_routes item, that is with their bit set     *)
(*   rlist    the route_list of such an item                               *)
(*   routes   routelist, blocks of routememb, most recently used first     *)
(*   route    what is in a block                                           *)
(*   num      num_routes                                                   *)
(*   defrts   defaultrouterlist                                            *)
(*   left     what uip_buf holds when tcpip_ipv6_output returns without    *)
(*            clearing uip_len                                             *)
(* No caller locks a neighbour, so locked_map stays empty.                 *)
(***************************************************************************)
EXTENDS Integers, Lists

CONSTANTS
  NSlots,       \* NBR_TABLE_MAX_NEIGHBORS
  NRoutes,      \* UIP_DS6_ROUTE_NB
  NDefrts,      \* UIP_DS6_DEFRT_NB
  Addrs,        \* unicast addresses
  OnLink,       \* those with a prefix of ours
  Dests,        \* destinations of routes: sets of addresses, nested or disjoint
  LLs,          \* link-layer addresses
  NullLL,       \* linkaddr_null
  Unused, None

Slots == 1..NSlots
RouteBlocks == 1..NRoutes

ASSUME SizeAssumption ==
  NSlots \in Nat \ {0} /\ NRoutes \in Nat \ {0} /\ NDefrts \in Nat \ {0}
ASSUME AddrAssumption == OnLink \subseteq Addrs /\ Dests \subseteq SUBSET Addrs
ASSUME DestAssumption ==
  \A d, e \in Dests : d \subseteq e \/ e \subseteq d \/ d \cap e = {}
ASSUME NullLLAssumption == NullLL \notin LLs
ASSUME NoneAssumption == None \notin Addrs \cup Slots \cup RouteBlocks

NbrStates == {"INCOMPLETE", "REACHABLE", "STALE", "DELAY", "PROBE"}

EmptyTables ==
  [keys |-> <<>>, ll |-> [s \in Slots |-> NullLL], nbr |-> [s \in Slots |-> Unused],
   hops |-> {}, rlist |-> [s \in Slots |-> {}], routes |-> <<>>,
   route |-> [r \in RouteBlocks |-> Unused], num |-> 0, defrts |-> <<>>, left |-> None]

-----------------------------------------------------------------------------
(* Lists *)

\* The first element of a list that is in S
FirstIn(seq, S) ==
  IF Elements(seq) \cap S = {} THEN None
  ELSE LET i == CHOOSE j \in DOMAIN seq :
                  seq[j] \in S /\ \A k \in DOMAIN seq : seq[k] \in S => j <= k
       IN seq[i]

-----------------------------------------------------------------------------
(* nbr-table.c, and the callbacks of its two tables *)

\* index_from_lladdr; NullLL stands for a null pointer as well.
KeyOf(c, l) == FirstIn(c.keys, {s \in Slots : c.ll[s] = l})

UseCount(c, s) ==
  (IF c.nbr[s] # Unused THEN 1 ELSE 0) + (IF s \in c.hops THEN 1 ELSE 0)

\* Wrong: the oldest key goes, whatever uses it.
VictimOldest(c) == c.keys[1]

\* The key that nbr_table_allocate gives up: the oldest of the least used.
Victim(c) ==
  LET all == Elements(c.keys)
  IN FirstIn(c.keys, {s \in all : \A t \in all : UseCount(c, s) <= UseCount(c, t)})

\* rm_routelist on the item of a slot
RmRouteList(c, s) ==
  LET gone == c.rlist[s] IN
  [c EXCEPT !.routes = Without(@, gone),
            !.route = [r \in RouteBlocks |-> IF r \in gone THEN Unused ELSE @[r]],
            !.num = @ - Cardinality(gone), !.rlist[s] = {}, !.hops = @ \ {s}]

\* Wrong: the callback of the routes is not called.
EvictLeavesRoutes(c, s) ==
  [c EXCEPT !.nbr[s] = Unused, !.hops = @ \ {s}, !.keys = Without(@, {s})]

\* What nbr_table_allocate does to the key that it takes.
Evict(c, s) ==
  [RmRouteList(c, s) EXCEPT !.nbr[s] = Unused, !.keys = Without(@, {s})]

\* memb_alloc takes the first free block.
FreeSlots(c) == Slots \ Elements(c.keys)
Lowest(S) == CHOOSE x \in S : \A y \in S : x <= y

\* nbr_table_add_lladdr up to the item
AddKey(c, l) ==
  LET s == IF FreeSlots(c) # {} THEN Lowest(FreeSlots(c)) ELSE Victim(c)
      d == IF FreeSlots(c) # {} THEN c ELSE Evict(c, s)
  IN IF KeyOf(c, l) # None THEN c
     ELSE [d EXCEPT !.keys = Append(@, s), !.ll[s] = l]

-----------------------------------------------------------------------------
(* uip-ds6-nbr.c *)

NbrSlots(c, a) == {s \in Slots : c.nbr[s] # Unused /\ c.nbr[s].ip = a}

\* uip_ds6_nbr_lookup
NbrLookup(c, a) == FirstIn(c.keys, NbrSlots(c, a))

\* uip_ds6_nbr_add; its item replaces one that has the same key.
NbrAdd(c, a, l, isrouter, state, nscount) ==
  LET d == AddKey(c, l) IN
  [d EXCEPT !.nbr[KeyOf(d, l)] =
     [ip |-> a, state |-> state, isrouter |-> isrouter, nscount |-> nscount]]

NbrRm(c, s) == [c EXCEPT !.nbr[s] = Unused]

-----------------------------------------------------------------------------
(* uip-ds6-route.c *)

\* uip_ds6_route_rm
RouteRm(c, r) ==
  LET s == c.route[r].slot
      rest == c.rlist[s] \ {r}
  IN [c EXCEPT !.routes = Without(@, {r}), !.route[r] = Unused, !.num = @ - 1,
               !.rlist[s] = rest, !.hops = IF rest = {} THEN @ \ {s} ELSE @]

\* The route that uip_ds6_route_lookup finds: the last of those with the
\* longest prefix.  The prefixes that match an address are nested.
RouteFor(c, a) ==
  LET match == {i \in DOMAIN c.routes : a \in c.route[c.routes[i]].dest}
      best == {i \in match : \A j \in match :
                 c.route[c.routes[i]].dest \subseteq c.route[c.routes[j]].dest}
  IN IF match = {} THEN None ELSE c.routes[CHOOSE i \in best : \A j \in best : j <= i]

\* The lookup moves the route it finds to the front.
Touch(c, r) ==
  [c EXCEPT !.routes = IF r = None THEN @ ELSE Push(@, r)]

\* uip_ds6_route_nexthop: by way of the link-layer address
Nexthop(c, r) ==
  LET s == KeyOf(c, c.ll[c.route[r].slot])
  IN IF s # None /\ c.nbr[s] # Unused THEN c.nbr[s].ip ELSE None

\* Wrong: the block of a route is taken without counting it.
RouteInsertUncounted(c, dest, hop) ==
  LET s == KeyOf(c, c.ll[NbrLookup(c, hop)])
      r == Lowest(RouteBlocks \ Elements(c.routes))
  IN [c EXCEPT !.routes = Push(@, r), !.rlist[s] = @ \cup {r}, !.hops = @ \cup {s},
               !.route[r] = [dest |-> dest, slot |-> s, via |-> hop]]

\* The last part of uip_ds6_route_add.  via is not in the code: it records the
\* next hop that the caller asked for.
RouteInsert(c, dest, hop) ==
  LET s == KeyOf(c, c.ll[NbrLookup(c, hop)])
      r == Lowest(RouteBlocks \ Elements(c.routes))
  IN [c EXCEPT !.routes = Push(@, r), !.rlist[s] = @ \cup {r}, !.hops = @ \cup {s},
               !.route[r] = [dest |-> dest, slot |-> s, via |-> hop], !.num = @ + 1]

\* uip_ds6_route_add(a, length of dest, hop) for a hop in the neighbour cache
RouteAdd(c, a, dest, hop) ==
  LET old == RouteFor(c, a)
      looked == Touch(c, old)
      bare == IF old = None THEN looked ELSE RouteRm(looked, old)
      room == IF bare.num = NRoutes THEN RouteRm(bare, bare.routes[Len(bare.routes)]) ELSE bare
  IN IF old # None /\ Nexthop(looked, old) = hop THEN looked
     ELSE RouteInsert(room, dest, hop)

Routers(c) == {d.ip : d \in Elements(c.defrts)}

\* Wrong: a router is added without a lookup.
DefrtAddTwice(c, a, inf) ==
  IF Len(c.defrts) = NDefrts THEN c
  ELSE [c EXCEPT !.defrts = <<[ip |-> a, inf |-> inf]>> \o @]

\* uip_ds6_defrt_add; inf when the interval is 0
DefrtAdd(c, a, inf) ==
  IF a \in Routers(c)
    THEN [c EXCEPT !.defrts = [i \in DOMAIN @ |-> IF @[i].ip = a THEN [ip |-> a, inf |-> inf] ELSE @[i]]]
  ELSE IF Len(c.defrts) = NDefrts THEN c
  ELSE [c EXCEPT !.defrts = Push(@, [ip |-> a, inf |-> inf])]

\* uip_ds6_defrt_rm on what uip_ds6_defrt_lookup found
DefrtRm(c, gone) ==
  [c EXCEPT !.defrts = Without(@, {d \in Elements(@) : d.ip \in gone})]

\* uip_ds6_defrt_choose: the first whose neighbour is resolved, else the last
DefrtChoose(c) ==
  LET known == {d \in Elements(c.defrts) : LET s == NbrLookup(c, d.ip)
                  IN s # None /\ c.nbr[s].state # "INCOMPLETE"}
  IN IF known # {} THEN FirstIn(c.defrts, known).ip
     ELSE IF c.defrts = <<>> THEN None ELSE c.defrts[Len(c.defrts)].ip
=============================================================================
