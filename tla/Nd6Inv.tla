------------------------------ MODULE Nd6Inv ------------------------------
(***************************************************************************)
(* What the tables of neighbour discovery promise, and what becomes of a   *)
(* neighbour that is being resolved.                                       *)
(***************************************************************************)
EXTENDS Nd6

Entries == [ip : Addrs, state : NbrStates, isrouter : BOOLEAN, nscount : Nat]
Routes == [dest : Dests, slot : Slots, via : Addrs]

ASSUME UnusedAssumption == Unused \notin Entries \cup Routes

\* The shape of the tables; a slot that any of them uses has a key, as an item
\* without one is found by no lookup and its memory given to another neighbour.
Nd6TypeOK ==
  /\ cache.keys \in Seq(Slots) /\ Distinct(cache.keys)
  /\ cache.ll \in [Slots -> LLs \cup {NullLL}]
  /\ cache.nbr \in [Slots -> Entries \cup {Unused}]
  /\ \A s \in Slots : UseCount(cache, s) > 0 => s \in Elements(cache.keys)
  /\ cache.hops \subseteq Slots /\ cache.rlist \in [Slots -> SUBSET RouteBlocks]
  /\ cache.routes \in Seq(RouteBlocks) /\ Distinct(cache.routes)
  /\ cache.route \in [RouteBlocks -> Routes \cup {Unused}]
  /\ cache.num \in 0..NRoutes
  /\ cache.defrts \in Seq([ip : Addrs, inf : BOOLEAN]) /\ Len(cache.defrts) <= NDefrts
  /\ cache.left \in Addrs \cup {None, "solicitation"}
  /\ last \in Slots \cup {None} /\ router \in BOOLEAN

\* Three structures describe the routes, and three functions of two files change
\* them, one of them behind the back of the others when a key is evicted: the list
\* of all routes, its count and blocks, and the list of every next hop agree.
\* (assert_nbr_routes_list_sane of uip-ds6-route.c checks the count alone.)
RoutesLinked ==
  /\ cache.num = Len(cache.routes)
  /\ \A r \in RouteBlocks : cache.route[r] # Unused <=> r \in Elements(cache.routes)
  /\ \A r \in RouteBlocks, s \in Slots :
       r \in cache.rlist[s] <=> cache.route[r] # Unused /\ cache.route[r].slot = s
  /\ \A s \in Slots : cache.rlist[s] # {} <=> s \in cache.hops

\* An address has one entry in the neighbour cache, whatever the order in which
\* its node is heard and sent to.
UniqueAddress == \A s, t \in Slots :
  cache.nbr[s] # Unused /\ cache.nbr[t] # Unused /\ cache.nbr[s].ip = cache.nbr[t].ip => s = t

\* Packets go only to a link-layer address that the neighbour has announced as
\* its own: an entry has the null address exactly as long as it is INCOMPLETE,
\* although entries share keys and addresses are replaced within them.
Resolved == \A s \in Slots : cache.nbr[s] # Unused =>
  IF cache.nbr[s].state = "INCOMPLETE" THEN cache.ll[s] = NullLL
  ELSE cache.ll[s] \in Owns[cache.nbr[s].ip]

\* A list of default routers that names a router twice would try it again when it
\* is dead.
RoutersDistinct == \A i, j \in DOMAIN cache.defrts :
  cache.defrts[i].ip = cache.defrts[j].ip => i = j

InCache(c, a) == NbrSlots(c, a) # {}

\* No slot is in fewer tables.
LeastUsed(c, s) == \A t \in Slots : UseCount(c, s) <= UseCount(c, t)

\* A neighbour leaves the cache only when its solicitations are used up, when another
\* one takes its link-layer address, or when a full table gives its key, one of the
\* least used, to another link-layer address; traffic and timers of other neighbours
\* take nothing else away, also when the table is full.
Kept(s) == LET n == cache.nbr[s] IN
  n # Unused =>
    \/ InCache(cache', n.ip)
    \/ Tried(cache, s)
    \/ Len(cache.keys) = NSlots /\ cache'.ll[s] # cache.ll[s] /\ LeastUsed(cache, s)
    \/ cache'.nbr[s] # Unused /\ cache'.ll[s] = cache.ll[s]

LosesNone == [][\A s \in Slots : Kept(s)]_vars

\* The list of routes of a neighbour holds routes that go through that neighbour
\* (the comment in uip_ds6_route_add): the next hop that tcpip_ipv6_output finds
\* for a route is the one it was added with, or none if that one is gone.  No run
\* states it, for TLC refutes it in nd_cache: neighbours that are being resolved share
\* a key.
RouteGoesVia == \A r \in Elements(cache.routes) :
  Nexthop(cache, r) \in {None, cache.route[r].via}

-----------------------------------------------------------------------------
(* The periodic event comes every 100 ms, and sends or drops what is in uip_buf.
   The timers of a neighbour are set in seconds, so that they run out while no
   other neighbour waits, and uip_buf is not in use each time. *)
Served(s) == \E expired \in SUBSET {t \in Slots : cache.nbr[t] # Unused} :
  /\ s \in expired
  /\ Tried(cache, s) \/ cache.nbr[s].state \notin Solicits \/ Solicitor(cache, expired) = s
  /\ cache.left = None
  /\ Periodic(expired, {}, FALSE)

Fairness == WF_vars(Periodic({}, {}, FALSE)) /\ \A s \in Slots : SF_vars(Served(s))
FairSpec == Spec /\ Fairness

Probed(a) == \E s \in NbrSlots(cache, a) : cache.nbr[s].state \in Solicits \cup {"DELAY"}

\* The node at an address is heard with another link-layer address.
Moves(a) == \E s \in NbrSlots(cache, a) : cache'.nbr[s] # Unused /\ cache'.ll[s] # cache.ll[s]

\* Solicitation comes to an end: a neighbour that is being resolved or probed is
\* confirmed, or leaves the cache, even if it never answers, whatever others send;
\* except one whose link-layer address changes again and again.
SolicitationEnds == \A a \in Addrs : <>[]Probed(a) => []<><<Moves(a)>>_vars
=============================================================================
