----------------------------- MODULE Nd6_proofs -----------------------------
(***************************************************************************)
(* The tables of neighbour discovery agree, for tables of any size, any    *)
(* addresses and any order of messages, timers and calls.  Each function   *)
(* of NbrCache and Nd6 maps tables that are right to tables that are       *)
(* right; a handler composes them.                                         *)
(***************************************************************************)
EXTENDS Nd6Inv, Lists_proofs

-----------------------------------------------------------------------------
(* The inductive invariant, of tables c *)

Links == LLs \cup {NullLL}
RouterRecords == [ip : Addrs, inf : BOOLEAN]
Leftovers == Addrs \cup {None, "solicitation"}

Tables ==
  [keys : Seq(Slots), ll : [Slots -> Links], nbr : [Slots -> Entries \cup {Unused}],
   hops : SUBSET Slots, rlist : [Slots -> SUBSET RouteBlocks], routes : Seq(RouteBlocks),
   route : [RouteBlocks -> Routes \cup {Unused}], num : Nat, defrts : Seq(RouterRecords),
   left : Leftovers]

\* A slot that a table uses has a key.
KeysRight(c) ==
  /\ Distinct(c.keys)
  /\ \A s \in Slots : c.nbr[s] # Unused \/ s \in c.hops => s \in Elements(c.keys)

\* RoutesLinked, and no block is in the list twice
Linked(c) ==
  /\ Distinct(c.routes) /\ c.num = Len(c.routes)
  /\ \A r \in RouteBlocks : c.route[r] # Unused <=> r \in Elements(c.routes)
  /\ \A r \in RouteBlocks, s \in Slots :
       r \in c.rlist[s] <=> c.route[r] # Unused /\ c.route[r].slot = s
  /\ \A s \in Slots : c.rlist[s] # {} <=> s \in c.hops

\* An entry e that a slot with the link-layer address l may have
EntryFits(e, l) == IF e.state = "INCOMPLETE" THEN l = NullLL ELSE l \in Owns[e.ip]

\* UniqueAddress and Resolved
Neighbours(c) ==
  /\ \A s, t \in Slots :
       c.nbr[s] # Unused /\ c.nbr[t] # Unused /\ c.nbr[s].ip = c.nbr[t].ip => s = t
  /\ \A s \in Slots : c.nbr[s] # Unused => EntryFits(c.nbr[s], c.ll[s])

\* RoutersDistinct
RoutersOnce(c) ==
  /\ Distinct(c.defrts) /\ Len(c.defrts) <= NDefrts
  /\ \A d, e \in Elements(c.defrts) : d.ip = e.ip => d = e

Right(c) == c \in Tables /\ KeysRight(c) /\ Linked(c) /\ Neighbours(c) /\ RoutersOnce(c)

Nd6Inductive == Right(cache) /\ last \in Slots \cup {None} /\ router \in BOOLEAN

-----------------------------------------------------------------------------
(* Choices from lists and sets *)

\* The first element in a set is an element in that set.
LEMMA FirstInElement ==
  ASSUME NEW T, NEW seq \in Seq(T), NEW S, Elements(seq) \cap S # {}
  PROVE  FirstIn(seq, S) \in Elements(seq) \cap S
<1> DEFINE I == {i \in DOMAIN seq : seq[i] \in S}
<1>1. I \subseteq Nat /\ I # {}
  BY DEF Elements
<1>2. PICK i \in I : \A j \in I : i <= j
  BY <1>1, LeastNatural
<1> DEFINE first == CHOOSE j \in DOMAIN seq :
                      seq[j] \in S /\ \A k \in DOMAIN seq : seq[k] \in S => j <= k
<1>3. first \in DOMAIN seq /\ seq[first] \in S
  BY <1>2
<1>4. FirstIn(seq, S) = seq[first]
  BY DEF FirstIn
<1> HIDE DEF first
<1> QED
  BY <1>3, <1>4 DEF Elements

\* A search of a list fails exactly when nothing in it qualifies.
LEMMA FirstInFacts ==
  ASSUME NEW T, NEW seq \in Seq(T), NEW S, None \notin T
  PROVE  /\ Elements(seq) \cap S = {} <=> FirstIn(seq, S) = None
         /\ Elements(seq) \cap S # {} => FirstIn(seq, S) \in Elements(seq) \cap S
         /\ FirstIn(seq, S) # None => FirstIn(seq, S) \in T
<1>1. ASSUME NEW x \in Elements(seq) PROVE x \in T
  BY DEF Elements
<1>2. CASE Elements(seq) \cap S = {}
  BY <1>2 DEF FirstIn
<1>3. CASE Elements(seq) \cap S # {}
  BY <1>1, <1>3, FirstInElement
<1> QED
  BY <1>2, <1>3

\* A set of natural numbers has its lowest in it.
LEMMA LowestFacts ==
  ASSUME NEW S, S \subseteq Nat, S # {}
  PROVE  Lowest(S) \in S
BY LeastNatural DEF Lowest

\* The null pointer is neither a slot nor a block nor an address.
LEMMA NoneApart ==
  /\ None \notin Slots /\ None \notin RouteBlocks /\ None \notin Addrs
  /\ Slots \subseteq Nat /\ RouteBlocks \subseteq Nat
BY NoneAssumption DEF Slots, RouteBlocks

-----------------------------------------------------------------------------
(* Steps that change few fields *)

\* Without a change to what the invariant is about
LeftSet(c, x) == [c EXCEPT !.left = x]

\* What uip_buf holds is no concern of the tables.
LEMMA LeftRight ==
  ASSUME NEW c, Right(c), NEW x \in Leftovers
  PROVE  /\ Right(LeftSet(c, x)) /\ LeftSet(c, x).left = x /\ LeftSet(c, x).nbr = c.nbr
         /\ LeftSet(c, x).keys = c.keys /\ LeftSet(c, x).defrts = c.defrts
BY DEF Right, Tables, KeysRight, Linked, Neighbours, RoutersOnce, LeftSet

\* uip_ds6_route_rm takes one route out of all that describe it.
LEMMA RouteRmRight ==
  ASSUME NEW c, Right(c), NEW r \in Elements(c.routes)
  PROVE  /\ Right(RouteRm(c, r)) /\ RouteRm(c, r).num = c.num - 1
         /\ RouteRm(c, r).keys = c.keys /\ RouteRm(c, r).ll = c.ll /\ RouteRm(c, r).nbr = c.nbr
<1> DEFINE d == RouteRm(c, r)
           s == c.route[r].slot
           rest == c.rlist[s] \ {r}
           W == Without(c.routes, {r})
<1>1. c \in Tables
  BY DEF Right
<1>2. r \in RouteBlocks /\ c.route[r] \in Routes /\ c.route[r] # Unused /\ s \in Slots
  <2>1. r \in RouteBlocks
    BY <1>1 DEF Tables, Elements
  <2>2. c.route[r] # Unused
    BY <2>1 DEF Right, Linked
  <2> QED
    BY <1>1, <2>1, <2>2 DEF Tables, Routes
<1>3. /\ W \in Seq(RouteBlocks) /\ Elements(W) = Elements(c.routes) \ {r}
      /\ Distinct(W)
  BY <1>1, WithoutFacts DEF Right, Linked, Tables
<1>4. Len(W) = c.num - 1 /\ c.num - 1 \in Nat
  <2>1. /\ IsFiniteSet(Elements(c.routes)) /\ Cardinality(Elements(c.routes)) = c.num
        /\ Cardinality(Elements(W)) = Len(W) /\ Len(W) \in Nat
    BY <1>1, <1>3, DistinctLen DEF Right, Linked, Tables
  <2>2. Cardinality(Elements(c.routes) \ {r}) = Cardinality(Elements(c.routes)) - 1
    BY <2>1, FS_RemoveElement
  <2> QED
    BY <1>3, <2>1, <2>2
<1> HIDE DEF W, rest, s
<1>5. /\ d.keys = c.keys /\ d.ll = c.ll /\ d.nbr = c.nbr /\ d.defrts = c.defrts
      /\ d.left = c.left /\ d.routes = W /\ d.route = [c.route EXCEPT ![r] = Unused]
      /\ d.num = c.num - 1 /\ d.rlist = [c.rlist EXCEPT ![s] = rest]
      /\ d.hops = IF rest = {} THEN c.hops \ {s} ELSE c.hops
  BY <1>1 DEF RouteRm, W, rest, s, Tables
<1>6. rest \in SUBSET RouteBlocks
  BY <1>1, <1>2 DEF rest, Tables
<1>7. d \in Tables
  <2>1. /\ d.route \in [RouteBlocks -> Routes \cup {Unused}] /\ d.hops \subseteq Slots
        /\ d.rlist \in [Slots -> SUBSET RouteBlocks]
    BY <1>1, <1>2, <1>5, <1>6 DEF Tables
  <2>2. d.num \in Nat
    BY <1>4, <1>5
  <2>3. d = [c EXCEPT !.routes = d.routes, !.route = d.route, !.num = d.num,
                      !.rlist = d.rlist, !.hops = d.hops]
    BY <1>1, <1>5 DEF RouteRm, W, rest, s, Tables
  <2> HIDE DEF d
  <2> QED
    BY <1>1, <1>3, <1>5, <2>1, <2>2, <2>3 DEF Tables
<1> HIDE DEF d
<1>8. KeysRight(d)
  BY <1>5 DEF Right, KeysRight
<1>9. Linked(d)
  <2>1. Distinct(d.routes) /\ d.num = Len(d.routes)
    BY <1>3, <1>4, <1>5
  <2>2. \A q \in RouteBlocks : d.route[q] = IF q = r THEN Unused ELSE c.route[q]
    BY <1>1, <1>2, <1>5 DEF Tables
  <2>3. \A q \in RouteBlocks : d.route[q] # Unused <=> q \in Elements(d.routes)
    BY <1>3, <1>5, <2>2 DEF Right, Linked
  <2>4. \A t \in Slots : d.rlist[t] = c.rlist[t] \ {r}
    <3> SUFFICES ASSUME NEW t \in Slots PROVE d.rlist[t] = c.rlist[t] \ {r}
      OBVIOUS
    <3>1. CASE t = s
      BY <1>1, <1>2, <1>5, <3>1 DEF Tables, rest
    <3>2. CASE t # s
      <4>1. r \notin c.rlist[t]
        BY <1>2, <3>2 DEF Right, Linked, s
      <4> QED
        BY <1>1, <1>2, <1>5, <3>2, <4>1 DEF Tables
    <3> QED
      BY <3>1, <3>2
  <2>5. \A q \in RouteBlocks, t \in Slots :
          q \in d.rlist[t] <=> d.route[q] # Unused /\ d.route[q].slot = t
    BY <2>2, <2>4 DEF Right, Linked
  <2>6. \A t \in Slots : d.rlist[t] # {} <=> t \in d.hops
    <3> SUFFICES ASSUME NEW t \in Slots PROVE d.rlist[t] # {} <=> t \in d.hops
      OBVIOUS
    <3>1. CASE t = s
      <4>1. r \in c.rlist[s] /\ s \in c.hops
        BY <1>2 DEF Right, Linked, s
      <4> QED
        BY <1>5, <2>4, <3>1, <4>1, <1>2 DEF rest
    <3>2. CASE t # s
      <4>1. d.rlist[t] = c.rlist[t]
        BY <1>1, <1>2, <1>5, <3>2 DEF Tables
      <4> QED
        BY <1>5, <3>2, <4>1 DEF Right, Linked
    <3> QED
      BY <3>1, <3>2
  <2> QED
    BY <2>1, <2>3, <2>5, <2>6 DEF Linked
<1>10. Neighbours(d) /\ RoutersOnce(d)
  BY <1>5 DEF Right, Neighbours, RoutersOnce
<1> QED
  BY <1>5, <1>7, <1>8, <1>9, <1>10 DEF Right, d

\* num_routes never exceeds the blocks there are.
LEMMA RoutesCounted ==
  ASSUME NEW c, Right(c)
  PROVE  /\ IsFiniteSet(Elements(c.routes)) /\ Cardinality(Elements(c.routes)) = c.num
         /\ Elements(c.routes) \subseteq RouteBlocks /\ c.num \in 0 .. NRoutes
         /\ c.num = NRoutes => Elements(c.routes) = RouteBlocks
<1>1. c.routes \in Seq(RouteBlocks) /\ Distinct(c.routes) /\ c.num = Len(c.routes)
  BY DEF Right, Tables, Linked
<1>2. /\ IsFiniteSet(Elements(c.routes)) /\ Cardinality(Elements(c.routes)) = c.num
      /\ c.num \in Nat
  BY <1>1, DistinctLen
<1>3. Elements(c.routes) \subseteq RouteBlocks
  BY <1>1 DEF Elements
<1>4. IsFiniteSet(RouteBlocks) /\ Cardinality(RouteBlocks) = NRoutes /\ NRoutes \in Nat
  BY FS_Interval, SizeAssumption DEF RouteBlocks
<1>5. /\ Cardinality(Elements(c.routes)) <= NRoutes
      /\ Cardinality(Elements(c.routes)) = NRoutes => Elements(c.routes) = RouteBlocks
  BY <1>3, <1>4, FS_Subset
<1> QED
  BY <1>2, <1>3, <1>4, <1>5

\* A lookup reorders the routes.
LEMMA TouchRight ==
  ASSUME NEW c, Right(c), NEW r \in Elements(c.routes) \cup {None}
  PROVE  /\ Right(Touch(c, r)) /\ Touch(c, r) = [c EXCEPT !.routes = Touch(c, r).routes]
         /\ Elements(Touch(c, r).routes) = Elements(c.routes)
<1> DEFINE Q == IF r = None THEN c.routes ELSE Push(c.routes, r)
<1>1. Touch(c, r) = [c EXCEPT !.routes = Q]
  BY DEF Touch
<1>2. c.routes \in Seq(RouteBlocks) /\ Distinct(c.routes) /\ c \in Tables
  BY DEF Right, Tables, Linked
<1>3. Q \in Seq(RouteBlocks) /\ Distinct(Q) /\ Elements(Q) = Elements(c.routes)
  <2>1. CASE r = None
    BY <1>2, <2>1
  <2>2. CASE r # None
    <3>1. r \in RouteBlocks /\ r \in Elements(c.routes)
      BY <1>2, <2>2 DEF Elements
    <3>2. /\ Push(c.routes, r) \in Seq(RouteBlocks) /\ Distinct(Push(c.routes, r))
          /\ Elements(Push(c.routes, r)) = Elements(c.routes) \cup {r}
      BY <1>2, <3>1, PushFacts
    <3> QED
      BY <2>2, <3>1, <3>2
  <2> QED
    BY <2>1, <2>2
<1>4. Len(Q) = c.num
  BY <1>2, <1>3, DistinctLen, RoutesCounted
<1> HIDE DEF Q
<1> DEFINE d == [c EXCEPT !.routes = Q]
<1>5. /\ d \in Tables /\ d.routes = Q /\ d.keys = c.keys /\ d.ll = c.ll /\ d.nbr = c.nbr
      /\ d.hops = c.hops /\ d.rlist = c.rlist /\ d.route = c.route /\ d.num = c.num
      /\ d.defrts = c.defrts /\ d.left = c.left
  BY <1>2, <1>3 DEF Tables
<1> HIDE DEF d
<1>6. Right(d)
  BY <1>3, <1>4, <1>5 DEF Right, KeysRight, Linked, Neighbours, RoutersOnce
<1>7. d = [c EXCEPT !.routes = d.routes]
  BY <1>5 DEF d
<1> QED
  BY <1>1, <1>3, <1>5, <1>6, <1>7 DEF d

\* Tables with other routes are tables.
LEMMA RoutesOfTables ==
  ASSUME NEW c \in Tables, NEW routes \in Seq(RouteBlocks), NEW num \in Nat,
         NEW route \in [RouteBlocks -> Routes \cup {Unused}],
         NEW rlist \in [Slots -> SUBSET RouteBlocks], NEW hops \in SUBSET Slots
  PROVE  [c EXCEPT !.routes = routes, !.route = route, !.num = num, !.rlist = rlist,
                   !.hops = hops] \in Tables
BY DEF Tables

\* The routes of a slot leave all of the structures.
LEMMA RmRouteListRight ==
  ASSUME NEW c, Right(c), NEW s \in Slots
  PROVE  /\ Right(RmRouteList(c, s)) /\ RmRouteList(c, s).hops = c.hops \ {s}
         /\ RmRouteList(c, s).keys = c.keys /\ RmRouteList(c, s).ll = c.ll
         /\ RmRouteList(c, s).nbr = c.nbr /\ RmRouteList(c, s).defrts = c.defrts
         /\ RmRouteList(c, s).left = c.left
<1> DEFINE d == RmRouteList(c, s)
           gone == c.rlist[s]
           W == Without(c.routes, gone)
           block == [r \in RouteBlocks |-> IF r \in gone THEN Unused ELSE c.route[r]]
<1>1. c \in Tables
  BY DEF Right
<1>2. gone \subseteq Elements(c.routes)
  <2>1. gone \subseteq RouteBlocks
    BY <1>1 DEF Tables
  <2> QED
    BY <2>1 DEF Right, Linked
<1>3. W \in Seq(RouteBlocks) /\ Elements(W) = Elements(c.routes) \ gone /\ Distinct(W)
  BY <1>1, WithoutFacts DEF Right, Linked, Tables
<1>4. Len(W) = c.num - Cardinality(gone) /\ Len(W) \in Nat
  <2>1. /\ IsFiniteSet(Elements(c.routes)) /\ Cardinality(Elements(c.routes)) = c.num
        /\ Cardinality(Elements(W)) = Len(W) /\ Len(W) \in Nat
    <3> HIDE DEF W
    <3>0. W \in Seq(RouteBlocks) /\ Distinct(W)
      BY <1>3
    <3>1. Cardinality(Elements(W)) = Len(W) /\ Len(W) \in Nat
      BY <3>0, DistinctLen
    <3> QED
      BY <3>1, RoutesCounted
  <2>2. Elements(c.routes) \cap gone = gone
    BY <1>2
  <2>3. Cardinality(Elements(c.routes) \ gone) =
          Cardinality(Elements(c.routes)) - Cardinality(Elements(c.routes) \cap gone)
    BY <2>1, FS_Difference
  <2> QED
    BY <1>3, <2>1, <2>2, <2>3
<1>5. block \in [RouteBlocks -> Routes \cup {Unused}]
  BY <1>1 DEF Tables
<1> HIDE DEF W, block
<1>6. d = [c EXCEPT !.routes = W, !.route = block, !.num = Len(W),
                    !.rlist = [c.rlist EXCEPT ![s] = {}], !.hops = c.hops \ {s}]
  BY <1>1, <1>4 DEF RmRouteList, W, block, Tables
<1>7. /\ d.keys = c.keys /\ d.ll = c.ll /\ d.nbr = c.nbr /\ d.defrts = c.defrts
      /\ d.left = c.left /\ d.routes = W /\ d.route = block /\ d.num = Len(W)
      /\ d.rlist = [c.rlist EXCEPT ![s] = {}] /\ d.hops = c.hops \ {s}
  BY <1>1, <1>6 DEF Tables
<1>8. d \in Tables
  <2>1. [c.rlist EXCEPT ![s] = {}] \in [Slots -> SUBSET RouteBlocks]
    BY <1>1 DEF Tables
  <2> DEFINE num == Len(W)
             rlist == [c.rlist EXCEPT ![s] = {}]
             hops == c.hops \ {s}
  <2>2. W \in Seq(RouteBlocks) /\ num \in Nat /\ hops \in SUBSET Slots
    BY <1>1, <1>3, <1>4 DEF Tables
  <2>3. d = [c EXCEPT !.routes = W, !.route = block, !.num = num, !.rlist = rlist, !.hops = hops]
    BY <1>6
  <2> HIDE DEF d, num, rlist, hops
  <2>4. rlist \in [Slots -> SUBSET RouteBlocks]
    BY <2>1 DEF rlist
  <2>5. [c EXCEPT !.routes = W, !.route = block, !.num = num, !.rlist = rlist, !.hops = hops]
          \in Tables
    BY <1>1, <1>5, <2>2, <2>4, RoutesOfTables
  <2> QED
    BY <2>3, <2>5
<1> HIDE DEF d
<1>9. \A t \in Slots : d.rlist[t] = IF t = s THEN {} ELSE c.rlist[t]
  BY <1>1, <1>7 DEF Tables
<1>10. Linked(d)
  <2>1. \A r \in RouteBlocks : d.route[r] = IF r \in gone THEN Unused ELSE c.route[r]
    BY <1>7 DEF block
  <2>2. \A r \in RouteBlocks : r \in gone <=> c.route[r] # Unused /\ c.route[r].slot = s
    BY DEF Right, Linked
  <2>3. \A r \in RouteBlocks : d.route[r] # Unused <=> r \in Elements(d.routes)
    BY <1>3, <1>7, <2>1 DEF Right, Linked
  <2>4. \A r \in RouteBlocks, t \in Slots :
          r \in d.rlist[t] <=> d.route[r] # Unused /\ d.route[r].slot = t
    BY <1>9, <2>1, <2>2 DEF Right, Linked
  <2>5. \A t \in Slots : d.rlist[t] # {} <=> t \in d.hops
    BY <1>7, <1>9 DEF Right, Linked
  <2> QED
    BY <1>3, <1>7, <2>3, <2>4, <2>5 DEF Linked
<1>11. KeysRight(d) /\ Neighbours(d) /\ RoutersOnce(d)
  BY <1>7 DEF Right, KeysRight, Neighbours, RoutersOnce
<1> QED
  BY <1>7, <1>8, <1>10, <1>11 DEF Right, d

-----------------------------------------------------------------------------
(* Keys and entries *)

\* Neighbours that stay, with entries and addresses that fit
LEMMA NbrRight ==
  ASSUME NEW c, Right(c), NEW L \in [Slots -> Links], NEW N \in [Slots -> Entries \cup {Unused}],
         \A s \in Slots : N[s] # Unused =>
           c.nbr[s] # Unused /\ N[s].ip = c.nbr[s].ip /\ EntryFits(N[s], L[s])
  PROVE  Right([c EXCEPT !.ll = L, !.nbr = N])
<1> DEFINE d == [c EXCEPT !.ll = L, !.nbr = N]
<1>1. /\ d \in Tables /\ d.keys = c.keys /\ d.ll = L /\ d.nbr = N /\ d.hops = c.hops
      /\ d.rlist = c.rlist /\ d.routes = c.routes /\ d.route = c.route /\ d.num = c.num
      /\ d.defrts = c.defrts
  BY DEF Right, Tables
<1> HIDE DEF d
<1>2. KeysRight(d) /\ Linked(d) /\ RoutersOnce(d)
  BY <1>1 DEF Right, KeysRight, Linked, RoutersOnce
<1>3. Neighbours(d)
  BY <1>1 DEF Right, Neighbours
<1> QED
  BY <1>1, <1>2, <1>3 DEF Right, d

\* One entry that changes, with or without its key
EntrySet(c, s, l, n) == [c EXCEPT !.ll[s] = l, !.nbr[s] = n]

\* An entry may change with its key as long as the two fit.
LEMMA EntryRight ==
  ASSUME NEW c, Right(c), NEW s \in Slots, c.nbr[s] # Unused, NEW n \in Entries,
         n.ip = c.nbr[s].ip, NEW l \in Links, EntryFits(n, l)
  PROVE  Right(EntrySet(c, s, l, n))
<1> DEFINE L == [c.ll EXCEPT ![s] = l]
           N == [c.nbr EXCEPT ![s] = n]
<1>1. c.ll \in [Slots -> Links] /\ c.nbr \in [Slots -> Entries \cup {Unused}]
  BY DEF Right, Tables
<1>2. L \in [Slots -> Links] /\ N \in [Slots -> Entries \cup {Unused}]
  BY <1>1
<1>3. \A t \in Slots : N[t] # Unused =>
        c.nbr[t] # Unused /\ N[t].ip = c.nbr[t].ip /\ EntryFits(N[t], L[t])
  BY <1>1 DEF Right, Neighbours
<1> HIDE DEF L, N
<1>4. Right([c EXCEPT !.ll = L, !.nbr = N])
  BY <1>2, <1>3, NbrRight
<1> QED
  BY <1>4 DEF L, N, EntrySet

\* uip_ds6_nbr_rm leaves the key.
LEMMA NbrRmRight ==
  ASSUME NEW c, Right(c), NEW s \in Slots
  PROVE  /\ Right(NbrRm(c, s)) /\ NbrRm(c, s).nbr = [c.nbr EXCEPT ![s] = Unused]
         /\ NbrRm(c, s).defrts = c.defrts
<1> DEFINE N == [c.nbr EXCEPT ![s] = Unused]
           L == c.ll
<1>1. L \in [Slots -> Links] /\ c.nbr \in [Slots -> Entries \cup {Unused}] /\ c \in Tables
  BY DEF Right, Tables
<1>2. N \in [Slots -> Entries \cup {Unused}]
  BY <1>1
<1>3. \A t \in Slots : N[t] # Unused =>
        c.nbr[t] # Unused /\ N[t].ip = c.nbr[t].ip /\ EntryFits(N[t], L[t])
  BY <1>1 DEF Right, Neighbours
<1>4. NbrRm(c, s) = [c EXCEPT !.ll = L, !.nbr = N]
  BY <1>1 DEF NbrRm, Tables
<1> HIDE DEF L, N
<1>5. Right([c EXCEPT !.ll = L, !.nbr = N])
  BY <1>1, <1>2, <1>3, NbrRight
<1>6. [c EXCEPT !.ll = L, !.nbr = N].nbr = N /\ [c EXCEPT !.ll = L, !.nbr = N].defrts = c.defrts
  BY <1>1 DEF Tables
<1> QED
  BY <1>4, <1>5, <1>6 DEF N

\* index_from_lladdr finds a key with the address, if there is one.
LEMMA KeyFacts ==
  ASSUME NEW c, Right(c), NEW l
  PROVE  /\ KeyOf(c, l) \in Slots \cup {None}
         /\ KeyOf(c, l) # None => KeyOf(c, l) \in Elements(c.keys) /\ c.ll[KeyOf(c, l)] = l
         /\ \A s \in Slots : s \in Elements(c.keys) /\ c.ll[s] = l => KeyOf(c, l) # None
<1> DEFINE S == {s \in Slots : c.ll[s] = l}
<1>1. c.keys \in Seq(Slots) /\ None \notin Slots
  BY NoneApart DEF Right, Tables
<1>2. /\ Elements(c.keys) \cap S = {} <=> FirstIn(c.keys, S) = None
      /\ Elements(c.keys) \cap S # {} => FirstIn(c.keys, S) \in Elements(c.keys) \cap S
  <2> HIDE DEF S
  <2> QED
    BY <1>1, FirstInFacts
<1> QED
  BY <1>2 DEF KeyOf

\* A lookup finds the entry of an address, if there is one.
LEMMA LookupFacts ==
  ASSUME NEW c, Right(c), NEW a
  PROVE  /\ NbrLookup(c, a) \in Slots \cup {None}
         /\ NbrLookup(c, a) = None <=> NbrSlots(c, a) = {}
         /\ NbrLookup(c, a) # None =>
              /\ NbrLookup(c, a) \in NbrSlots(c, a) /\ NbrLookup(c, a) \in Elements(c.keys)
              /\ c.nbr[NbrLookup(c, a)] \in Entries /\ c.nbr[NbrLookup(c, a)] # Unused
              /\ c.nbr[NbrLookup(c, a)].ip = a
<1> DEFINE S == NbrSlots(c, a)
<1>1. c.keys \in Seq(Slots) /\ None \notin Slots /\ c.nbr \in [Slots -> Entries \cup {Unused}]
  BY NoneApart DEF Right, Tables
<1>2. S \subseteq Elements(c.keys) /\ S \subseteq Slots
      /\ \A s \in S : c.nbr[s] # Unused /\ c.nbr[s].ip = a
  BY DEF NbrSlots, Right, KeysRight
<1> HIDE DEF S
<1>3. /\ Elements(c.keys) \cap S = {} <=> FirstIn(c.keys, S) = None
      /\ Elements(c.keys) \cap S # {} => FirstIn(c.keys, S) \in Elements(c.keys) \cap S
  BY <1>1, FirstInFacts
<1>4. NbrLookup(c, a) = FirstIn(c.keys, S)
  BY DEF NbrLookup, S
<1>5. S = NbrSlots(c, a)
  BY DEF S
<1> QED
  BY <1>1, <1>2, <1>3, <1>4, <1>5

\* The key that is given up is one that there is, and none is less used.
LEMMA VictimFacts ==
  ASSUME NEW c, Right(c), Elements(c.keys) # {}
  PROVE  /\ Victim(c) \in Elements(c.keys)
         /\ \A t \in Elements(c.keys) : UseCount(c, Victim(c)) <= UseCount(c, t)
<1> DEFINE all == Elements(c.keys)
           S == {s \in all : \A t \in all : UseCount(c, s) <= UseCount(c, t)}
           counts == {UseCount(c, s) : s \in all}
<1>1. \A s \in all : UseCount(c, s) \in Nat
  BY DEF UseCount
<1>2. counts \subseteq Nat /\ counts # {}
  BY <1>1
<1>3. PICK n \in counts : \A k \in counts : n <= k
  <2> HIDE DEF counts
  <2> QED
    BY <1>2, LeastNatural
<1>4. PICK s \in all : UseCount(c, s) = n
  OBVIOUS
<1>5. s \in S
  BY <1>3, <1>4
<1>6. c.keys \in Seq(Slots) /\ None \notin Slots
  BY NoneApart DEF Right, Tables
<1>7. Victim(c) = FirstIn(c.keys, S)
  BY DEF Victim
<1>8. Elements(c.keys) \cap S # {}
  BY <1>5
<1> HIDE DEF S
<1>9. FirstIn(c.keys, S) \in Elements(c.keys) \cap S
  BY <1>6, <1>8, FirstInFacts
<1> QED
  BY <1>7, <1>9 DEF S

\* Whatever uses the slot, it has none of it after.
LEMMA EvictRight ==
  ASSUME NEW c, Right(c), NEW s \in Slots
  PROVE  /\ Right(Evict(c, s)) /\ Elements(Evict(c, s).keys) = Elements(c.keys) \ {s}
         /\ Evict(c, s).nbr = [c.nbr EXCEPT ![s] = Unused] /\ Evict(c, s).ll = c.ll
         /\ Evict(c, s).defrts = c.defrts /\ Evict(c, s).left = c.left
<1> DEFINE b == RmRouteList(c, s)
           d == Evict(c, s)
           K == Without(c.keys, {s})
           N == [c.nbr EXCEPT ![s] = Unused]
<1>1. /\ Right(b) /\ b.hops = c.hops \ {s} /\ b.keys = c.keys /\ b.ll = c.ll /\ b.nbr = c.nbr
      /\ b.defrts = c.defrts /\ b.left = c.left
  BY RmRouteListRight
<1> HIDE DEF b
<1>2. b \in Tables /\ b.keys \in Seq(Slots) /\ b.nbr \in [Slots -> Entries \cup {Unused}]
  BY <1>1 DEF Right, Tables
<1>3. K \in Seq(Slots) /\ Elements(K) = Elements(c.keys) \ {s} /\ Distinct(K)
  BY <1>1, <1>2, WithoutFacts DEF Right, KeysRight
<1>4. N \in [Slots -> Entries \cup {Unused}] /\ \A t \in Slots : N[t] = IF t = s THEN Unused ELSE b.nbr[t]
  BY <1>1, <1>2
<1>5. d = [b EXCEPT !.nbr = N, !.keys = K]
  BY <1>1, <1>2 DEF Evict, b
<1> HIDE DEF K, N
<1>6. /\ d \in Tables /\ d.keys = K /\ d.ll = b.ll /\ d.nbr = N /\ d.hops = b.hops
      /\ d.rlist = b.rlist /\ d.routes = b.routes /\ d.route = b.route /\ d.num = b.num
      /\ d.defrts = b.defrts /\ d.left = b.left
  BY <1>2, <1>3, <1>4, <1>5 DEF Tables
<1> HIDE DEF d
<1>7. KeysRight(d)
  BY <1>1, <1>3, <1>4, <1>6 DEF Right, KeysRight
<1>8. Linked(d) /\ RoutersOnce(d)
  BY <1>1, <1>6 DEF Right, Linked, RoutersOnce
<1>9. Neighbours(d)
  BY <1>1, <1>4, <1>6 DEF Right, Neighbours
<1>10. Right(d)
  BY <1>6, <1>7, <1>8, <1>9 DEF Right
<1> QED
  BY <1>1, <1>3, <1>6, <1>10 DEF d, N

\* A free slot becomes a key.
KeyPut(c, s, l) == [c EXCEPT !.keys = Append(@, s), !.ll[s] = l]

\* A new key at the end of the list changes nothing else.
LEMMA KeyAppended ==
  ASSUME NEW c, Right(c), NEW s \in Slots, s \notin Elements(c.keys), NEW l \in Links
  PROVE  /\ Right(KeyPut(c, s, l)) /\ KeyPut(c, s, l).nbr = c.nbr
         /\ KeyPut(c, s, l).defrts = c.defrts /\ KeyPut(c, s, l).left = c.left
         /\ s \in Elements(KeyPut(c, s, l).keys) /\ KeyPut(c, s, l).ll[s] = l
<1>1. c \in Tables /\ c.keys \in Seq(Slots) /\ c.ll \in [Slots -> Links]
  BY DEF Right, Tables
<1> DEFINE d == KeyPut(c, s, l)
           K == Append(c.keys, s)
           L == [c.ll EXCEPT ![s] = l]
<1>2. K \in Seq(Slots) /\ Elements(K) = Elements(c.keys) \cup {s} /\ Distinct(K)
  BY <1>1, AppendFacts DEF Right, KeysRight
<1>3. L \in [Slots -> Links] /\ L[s] = l /\ \A t \in Slots : t # s => L[t] = c.ll[t]
  BY <1>1
<1> HIDE DEF K, L
<1>4. /\ d \in Tables /\ d.keys = K /\ d.ll = L /\ d.nbr = c.nbr /\ d.hops = c.hops
      /\ d.rlist = c.rlist /\ d.routes = c.routes /\ d.route = c.route /\ d.num = c.num
      /\ d.defrts = c.defrts /\ d.left = c.left
  BY <1>1, <1>2, <1>3 DEF Tables, KeyPut, K, L
<1> HIDE DEF d
<1>5. c.nbr[s] = Unused
  BY DEF Right, KeysRight
<1>6. KeysRight(d)
  BY <1>2, <1>4 DEF Right, KeysRight
<1>7. Linked(d) /\ RoutersOnce(d)
  BY <1>4 DEF Right, Linked, RoutersOnce
<1>8. Neighbours(d)
  BY <1>3, <1>4, <1>5 DEF Right, Neighbours
<1> QED
  BY <1>2, <1>3, <1>4, <1>6, <1>7, <1>8 DEF Right, d

\* nbr_table_add_lladdr finds a key or makes one, for which another may go.
LEMMA AddKeyRight ==
  ASSUME NEW c, Right(c), NEW l \in Links
  PROVE  /\ Right(AddKey(c, l))
         /\ KeyOf(AddKey(c, l), l) \in Elements(AddKey(c, l).keys)
         /\ KeyOf(AddKey(c, l), l) \in Slots
         /\ AddKey(c, l).ll[KeyOf(AddKey(c, l), l)] = l
         /\ \A t \in Slots : AddKey(c, l).nbr[t] \in {c.nbr[t], Unused}
         /\ AddKey(c, l).defrts = c.defrts /\ AddKey(c, l).left = c.left
<1>0. c.keys \in Seq(Slots) /\ Elements(c.keys) \subseteq Slots /\ None \notin Slots
      /\ c.nbr \in [Slots -> Entries \cup {Unused}] /\ c.ll \in [Slots -> Links]
  BY NoneApart DEF Right, Tables, Elements
<1> DEFINE free == FreeSlots(c)
           s == IF free # {} THEN Lowest(free) ELSE Victim(c)
           b == IF free # {} THEN c ELSE Evict(c, s)
           d == KeyPut(b, s, l)
<1>1. CASE KeyOf(c, l) # None
  <2>1. AddKey(c, l) = c
    BY <1>1 DEF AddKey
  <2>2. KeyOf(c, l) \in Slots /\ KeyOf(c, l) \in Elements(c.keys) /\ c.ll[KeyOf(c, l)] = l
    BY <1>1, KeyFacts
  <2> QED
    BY <2>1, <2>2
<1>2. CASE KeyOf(c, l) = None
  <2>1. /\ s \in Slots /\ Right(b) /\ s \notin Elements(b.keys)
        /\ \A t \in Slots : b.nbr[t] \in {c.nbr[t], Unused}
        /\ b.defrts = c.defrts /\ b.left = c.left
    <3>1. CASE free # {}
      <4>1. free \subseteq Nat /\ free \subseteq Slots
        BY NoneApart DEF FreeSlots
      <4> HIDE DEF free
      <4>2. Lowest(free) \in free
        BY <3>1, <4>1, LowestFacts
      <4>3. s \in free /\ b = c
        BY <3>1, <4>2
      <4> QED
        BY <4>1, <4>3 DEF free, FreeSlots
    <3>2. CASE free = {}
      <4>1. Elements(c.keys) = Slots /\ Slots # {}
        <5>1. 1 \in Slots
          BY SizeAssumption DEF Slots
        <5>2. Slots \ Elements(c.keys) = {}
          BY <3>2 DEF FreeSlots
        <5> QED
          BY <1>0, <5>1, <5>2
      <4>2. Victim(c) \in Slots
        BY <4>1, VictimFacts
      <4>3. s = Victim(c) /\ b = Evict(c, Victim(c))
        BY <3>2
      <4> HIDE DEF s, b
      <4>4. /\ Right(b) /\ Elements(b.keys) = Elements(c.keys) \ {s}
            /\ b.nbr = [c.nbr EXCEPT ![s] = Unused]
            /\ b.defrts = c.defrts /\ b.left = c.left
        BY <4>2, <4>3, EvictRight
      <4> QED
        BY <1>0, <4>2, <4>3, <4>4
    <3> QED
      BY <3>1, <3>2
  <2>2. AddKey(c, l) = d
    BY <1>2 DEF AddKey, KeyPut
  <2> HIDE DEF s, b
  <2>3. /\ Right(d) /\ d.nbr = b.nbr /\ d.defrts = b.defrts /\ d.left = b.left
        /\ s \in Elements(d.keys) /\ d.ll[s] = l
    BY <2>1, KeyAppended
  <2> HIDE DEF d
  <2>4. KeyOf(d, l) # None
    BY <2>1, <2>3, KeyFacts
  <2>5. KeyOf(d, l) \in Slots /\ KeyOf(d, l) \in Elements(d.keys) /\ d.ll[KeyOf(d, l)] = l
    BY <2>3, <2>4, KeyFacts
  <2> QED
    BY <2>1, <2>2, <2>3, <2>5
<1> QED
  BY <1>1, <1>2

\* A new entry for an address that has none
LEMMA NbrAddRight ==
  ASSUME NEW c, Right(c), NEW a \in Addrs, NEW l \in Links, NEW isrouter \in BOOLEAN,
         NEW state \in NbrStates, NEW nscount \in Nat,
         IF state = "INCOMPLETE" THEN l = NullLL ELSE l \in Owns[a],
         NbrSlots(c, a) = {}
  PROVE  /\ Right(NbrAdd(c, a, l, isrouter, state, nscount))
         /\ NbrAdd(c, a, l, isrouter, state, nscount).defrts = c.defrts
         /\ NbrAdd(c, a, l, isrouter, state, nscount).left = c.left
<1> DEFINE b == AddKey(c, l)
           k == KeyOf(b, l)
           n == [ip |-> a, state |-> state, isrouter |-> isrouter, nscount |-> nscount]
           N == [b.nbr EXCEPT ![k] = n]
           d == [b EXCEPT !.nbr = N]
<1>1. NbrAdd(c, a, l, isrouter, state, nscount) = [b EXCEPT !.nbr[k] = n]
  BY DEF NbrAdd
<1>2. /\ Right(b) /\ k \in Elements(b.keys) /\ k \in Slots /\ b.ll[k] = l
      /\ \A t \in Slots : b.nbr[t] \in {c.nbr[t], Unused}
      /\ b.defrts = c.defrts /\ b.left = c.left
  BY AddKeyRight
<1>3. n \in Entries /\ n # Unused /\ n.ip = a /\ EntryFits(n, l)
  BY UnusedAssumption DEF Entries, EntryFits
<1> HIDE DEF b, k, n
<1>4. b \in Tables /\ b.nbr \in [Slots -> Entries \cup {Unused}]
  BY <1>2 DEF Right, Tables
<1>5. \A t \in Slots : b.nbr[t] # Unused => b.nbr[t].ip # a
  BY <1>2 DEF NbrSlots
<1>6. N \in [Slots -> Entries \cup {Unused}] /\ N[k] = n
      /\ \A t \in Slots : t # k => N[t] = b.nbr[t]
  BY <1>2, <1>3, <1>4
<1> HIDE DEF N
<1>7. /\ d \in Tables /\ d.keys = b.keys /\ d.ll = b.ll /\ d.nbr = N /\ d.hops = b.hops
      /\ d.rlist = b.rlist /\ d.routes = b.routes /\ d.route = b.route /\ d.num = b.num
      /\ d.defrts = b.defrts /\ d.left = b.left
  BY <1>4, <1>6 DEF Tables
<1>8. NbrAdd(c, a, l, isrouter, state, nscount) = d
  BY <1>1 DEF N
<1> HIDE DEF d
<1>9. KeysRight(d)
  BY <1>2, <1>6, <1>7 DEF Right, KeysRight
<1>10. Linked(d) /\ RoutersOnce(d)
  BY <1>2, <1>7 DEF Right, Linked, RoutersOnce
<1>11. Neighbours(d)
  <2>1. \A s, t \in Slots : N[s] # Unused /\ N[t] # Unused /\ N[s].ip = N[t].ip => s = t
    BY <1>2, <1>3, <1>5, <1>6 DEF Right, Neighbours
  <2>2. \A s \in Slots : N[s] # Unused => EntryFits(N[s], b.ll[s])
    BY <1>2, <1>3, <1>6 DEF Right, Neighbours
  <2> QED
    BY <1>7, <2>1, <2>2 DEF Neighbours
<1> QED
  BY <1>2, <1>7, <1>8, <1>9, <1>10, <1>11 DEF Right

-----------------------------------------------------------------------------
(* Routes *)

\* Of the sets of a finite nested family one is in all of them.
LEMMA NestedLeast ==
  ASSUME NEW I, IsFiniteSet(I), I # {}, NEW D,
         \A i, j \in I : D[i] \subseteq D[j] \/ D[j] \subseteq D[i]
  PROVE  \E i \in I : \A j \in I : D[i] \subseteq D[j]
<1> DEFINE Under(i) == {j \in I : D[j] \subseteq D[i]}
           sizes == {Cardinality(Under(i)) : i \in I}
<1>1. \A i \in I : IsFiniteSet(Under(i)) /\ Cardinality(Under(i)) \in Nat
  BY FS_Subset, FS_CardinalityType
<1>2. sizes \subseteq Nat /\ sizes # {}
  <2>1. PICK i \in I : TRUE
    OBVIOUS
  <2>2. Cardinality(Under(i)) \in sizes
    OBVIOUS
  <2> HIDE DEF Under
  <2> QED
    BY <1>1, <2>2
<1>3. PICK n \in sizes : \A k \in sizes : n <= k
  <2> HIDE DEF sizes
  <2> QED
    BY <1>2, LeastNatural
<1>4. PICK i \in I : Cardinality(Under(i)) = n
  OBVIOUS
<1>5. ASSUME NEW j \in I, ~(D[i] \subseteq D[j]) PROVE FALSE
  <2>1. D[j] \subseteq D[i]
    BY <1>5
  <2>2. Under(j) \subseteq Under(i) /\ i \in Under(i) /\ i \notin Under(j)
    BY <1>5, <2>1
  <2>3. Cardinality(Under(j)) \in sizes
    OBVIOUS
  <2> HIDE DEF Under, sizes
  <2>4. Cardinality(Under(i)) <= Cardinality(Under(j))
    BY <1>3, <1>4, <2>3
  <2>5. /\ Cardinality(Under(j)) <= Cardinality(Under(i))
        /\ Cardinality(Under(i)) = Cardinality(Under(j)) => Under(i) = Under(j)
    BY <1>1, <2>2, FS_Subset
  <2>6. Cardinality(Under(i)) = Cardinality(Under(j))
    BY <1>1, <2>4, <2>5
  <2> QED
    BY <2>2, <2>5, <2>6
<1> QED
  BY <1>5

\* uip_ds6_route_lookup returns a route of the list, or none.
LEMMA RouteForFacts ==
  ASSUME NEW c, Right(c), NEW a
  PROVE  RouteFor(c, a) \in Elements(c.routes) \cup {None}
<1> DEFINE D(i) == c.route[c.routes[i]].dest
           match == {i \in DOMAIN c.routes : a \in D(i)}
           best == {i \in match : \A j \in match : D(i) \subseteq D(j)}
           F == [i \in match |-> D(i)]
<1>1. c.routes \in Seq(RouteBlocks) /\ c.route \in [RouteBlocks -> Routes \cup {Unused}]
  BY DEF Right, Tables
<1>2. DOMAIN c.routes = 1 .. Len(c.routes) /\ Len(c.routes) \in Nat
  BY <1>1
<1>3. \A i \in DOMAIN c.routes : D(i) \in Dests
  <2> SUFFICES ASSUME NEW i \in DOMAIN c.routes PROVE c.route[c.routes[i]].dest \in Dests
    OBVIOUS
  <2>1. c.routes[i] \in RouteBlocks /\ c.routes[i] \in Elements(c.routes)
    BY <1>1 DEF Elements
  <2>2. c.route[c.routes[i]] \in Routes
    BY <1>1, <2>1 DEF Right, Linked
  <2> QED
    BY <2>2 DEF Routes
<1>4. RouteFor(c, a) = IF match = {} THEN None
                       ELSE c.routes[CHOOSE i \in best : \A j \in best : j <= i]
  BY DEF RouteFor
<1>5. \A i, j \in match : F[i] \subseteq F[j] \/ F[j] \subseteq F[i]
  <2> SUFFICES ASSUME NEW i \in match, NEW j \in match
               PROVE  D(i) \subseteq D(j) \/ D(j) \subseteq D(i)
    OBVIOUS
  <2>1. D(i) \in Dests /\ D(j) \in Dests /\ a \in D(i) /\ a \in D(j)
    BY <1>3
  <2> HIDE DEF D
  <2> QED
    BY <2>1, DestAssumption
<1>6. IsFiniteSet(match)
  <2>1. IsFiniteSet(1 .. Len(c.routes))
    BY <1>2, FS_Interval
  <2> QED
    BY <1>2, <2>1, FS_Subset
<1>7. match \subseteq 1 .. Len(c.routes) /\ best \subseteq match
  BY <1>2
<1>8. CASE match # {}
  <2>1. best # {}
    <3>1. \E i \in match : \A j \in match : F[i] \subseteq F[j]
      <4> HIDE DEF F, match
      <4> QED
        BY <1>5, <1>6, <1>8, NestedLeast
    <3> HIDE DEF D, match
    <3> QED
      BY <3>1
  <2> HIDE DEF best, match, D
  <2>2. best \subseteq 0 .. Len(c.routes)
    <3>1. 1 .. Len(c.routes) \subseteq 0 .. Len(c.routes)
      BY <1>2
    <3>2. match \subseteq 1 .. Len(c.routes) /\ best \subseteq match
      BY <1>7
    <3> QED
      BY <3>1, <3>2
  <2>3. \E i \in best : \A j \in best : j <= i
    BY <1>2, <2>1, <2>2, GreatestNatural
  <2>4. (CHOOSE i \in best : \A j \in best : j <= i) \in best
    BY <2>3
  <2> QED
    BY <1>2, <1>4, <1>7, <1>8, <2>4 DEF Elements
<1> QED
  BY <1>4, <1>8

\* A block and the list of its next hop take the route.
LEMMA RouteInsertRight ==
  ASSUME NEW c, Right(c), NEW dest \in Dests, NEW hop \in Addrs, NbrLookup(c, hop) # None,
         c.num # NRoutes
  PROVE  /\ Right(RouteInsert(c, dest, hop)) /\ RouteInsert(c, dest, hop).nbr = c.nbr
         /\ RouteInsert(c, dest, hop).ll = c.ll /\ RouteInsert(c, dest, hop).left = c.left
<1> DEFINE s == KeyOf(c, c.ll[NbrLookup(c, hop)])
           r == Lowest(RouteBlocks \ Elements(c.routes))
           Q == Push(c.routes, r)
           n == [dest |-> dest, slot |-> s, via |-> hop]
           d == RouteInsert(c, dest, hop)
           R == [c.rlist EXCEPT ![s] = @ \cup {r}]
           B == [c.route EXCEPT ![r] = n]
<1>1. c \in Tables /\ c.routes \in Seq(RouteBlocks) /\ Distinct(c.routes) /\ c.num = Len(c.routes)
  BY DEF Right, Tables, Linked
<1>2. s \in Slots /\ s \in Elements(c.keys)
  <2>1. NbrLookup(c, hop) \in Slots /\ NbrLookup(c, hop) \in Elements(c.keys)
    BY LookupFacts
  <2>2. s # None
    BY <2>1, KeyFacts
  <2> QED
    BY <2>2, KeyFacts
<1>3. r \in RouteBlocks /\ r \notin Elements(c.routes)
  <2> DEFINE F == RouteBlocks \ Elements(c.routes)
  <2>1. F \subseteq Nat
    BY NoneApart
  <2>2. F # {}
    <3> SUFFICES ASSUME F = {} PROVE FALSE
      OBVIOUS
    <3>1. Elements(c.routes) = RouteBlocks
      BY RoutesCounted
    <3>2. Cardinality(RouteBlocks) = NRoutes
      BY FS_Interval, SizeAssumption DEF RouteBlocks
    <3> QED
      BY <3>1, <3>2, RoutesCounted
  <2> HIDE DEF F
  <2>3. Lowest(F) \in F
    BY <2>1, <2>2, LowestFacts
  <2> QED
    BY <2>3 DEF F
<1>4. n \in Routes /\ n # Unused /\ n.slot = s
  BY <1>2, UnusedAssumption DEF Routes
<1> HIDE DEF s, r
<1>5. Q \in Seq(RouteBlocks) /\ Elements(Q) = Elements(c.routes) \cup {r} /\ Distinct(Q)
  BY <1>1, <1>3, PushFacts
<1>6. Len(Q) = c.num + 1 /\ Len(Q) \in Nat
  <2> HIDE DEF Q
  <2>0. Q \in Seq(RouteBlocks) /\ Distinct(Q)
    BY <1>5
  <2>1. Cardinality(Elements(Q)) = Len(Q) /\ Len(Q) \in Nat
    BY <2>0, DistinctLen
  <2>2. /\ IsFiniteSet(Elements(c.routes)) /\ Cardinality(Elements(c.routes)) = c.num
    BY RoutesCounted
  <2>3. Cardinality(Elements(c.routes) \cup {r}) = Cardinality(Elements(c.routes)) + 1
    BY <1>3, <2>2, FS_AddElement
  <2> QED
    BY <1>5, <2>1, <2>2, <2>3
<1>7. /\ R \in [Slots -> SUBSET RouteBlocks] /\ B \in [RouteBlocks -> Routes \cup {Unused}]
      /\ \A t \in Slots : R[t] = IF t = s THEN c.rlist[t] \cup {r} ELSE c.rlist[t]
      /\ \A q \in RouteBlocks : B[q] = IF q = r THEN n ELSE c.route[q]
  BY <1>1, <1>2, <1>3, <1>4 DEF Tables
<1>8. d = [c EXCEPT !.routes = Q, !.route = B, !.num = Len(Q), !.rlist = R,
                    !.hops = c.hops \cup {s}]
  BY <1>1, <1>6 DEF RouteInsert, Tables, s, r
<1> HIDE DEF Q, R, B, n
<1>9. /\ d \in Tables /\ d.keys = c.keys /\ d.ll = c.ll /\ d.nbr = c.nbr /\ d.hops = c.hops \cup {s}
      /\ d.rlist = R /\ d.routes = Q /\ d.route = B /\ d.num = Len(Q)
      /\ d.defrts = c.defrts /\ d.left = c.left
  <2>1. c.hops \cup {s} \in SUBSET Slots
    BY <1>1, <1>2 DEF Tables
  <2>2. d \in Tables
    BY <1>1, <1>5, <1>6, <1>7, <1>8, <2>1 DEF Tables
  <2> QED
    BY <1>1, <1>8, <2>2 DEF Tables
<1> HIDE DEF d
<1>10. KeysRight(d)
  BY <1>2, <1>9 DEF Right, KeysRight
<1>11. Linked(d)
  <2>1. \A q \in RouteBlocks : d.route[q] # Unused <=> q \in Elements(d.routes)
    BY <1>4, <1>5, <1>7, <1>9 DEF Right, Linked
  <2>2. \A q \in RouteBlocks, t \in Slots :
          q \in d.rlist[t] <=> d.route[q] # Unused /\ d.route[q].slot = t
    <3> SUFFICES ASSUME NEW q \in RouteBlocks, NEW t \in Slots
                 PROVE  q \in d.rlist[t] <=> d.route[q] # Unused /\ d.route[q].slot = t
      OBVIOUS
    <3>1. CASE q = r
      <4>1. c.route[q] = Unused
        BY <1>3, <3>1 DEF Right, Linked
      <4>2. q \notin c.rlist[t]
        BY <4>1 DEF Right, Linked
      <4> QED
        BY <1>4, <1>7, <1>9, <3>1, <4>2
    <3>2. CASE q # r
      BY <1>7, <1>9, <3>2 DEF Right, Linked
    <3> QED
      BY <3>1, <3>2
  <2>3. \A t \in Slots : d.rlist[t] # {} <=> t \in d.hops
    BY <1>7, <1>9 DEF Right, Linked
  <2> QED
    BY <1>5, <1>9, <2>1, <2>2, <2>3 DEF Linked
<1>12. Neighbours(d) /\ RoutersOnce(d)
  BY <1>9 DEF Right, Neighbours, RoutersOnce
<1> QED
  BY <1>9, <1>10, <1>11, <1>12 DEF Right, d

\* uip_ds6_route_add replaces the route to the address, or the oldest.
LEMMA RouteAddRight ==
  ASSUME NEW c, Right(c), NEW a, NEW dest \in Dests, NEW hop \in Addrs, NbrLookup(c, hop) # None
  PROVE  Right(RouteAdd(c, a, dest, hop)) /\ RouteAdd(c, a, dest, hop).nbr = c.nbr
<1> DEFINE old == RouteFor(c, a)
           looked == Touch(c, old)
           bare == IF old = None THEN looked ELSE RouteRm(looked, old)
           oldest == bare.routes[Len(bare.routes)]
           room == IF bare.num = NRoutes THEN RouteRm(bare, oldest) ELSE bare
<1>1. old \in Elements(c.routes) \cup {None}
  BY RouteForFacts
<1> HIDE DEF old
<1>2. /\ Right(looked) /\ looked = [c EXCEPT !.routes = looked.routes]
      /\ Elements(looked.routes) = Elements(c.routes)
  BY <1>1, TouchRight
<1>3. looked.keys = c.keys /\ looked.nbr = c.nbr
  BY <1>2 DEF Right, Tables
<1> HIDE DEF looked
<1>4. Right(bare) /\ bare.keys = c.keys /\ bare.nbr = c.nbr
  <2>1. CASE old = None
    BY <1>2, <1>3, <2>1
  <2>2. CASE old # None
    <3>1. old \in Elements(looked.routes)
      BY <1>1, <1>2, <2>2
    <3>2. /\ Right(RouteRm(looked, old)) /\ RouteRm(looked, old).keys = looked.keys
          /\ RouteRm(looked, old).nbr = looked.nbr
      BY <1>2, <3>1, RouteRmRight
    <3> QED
      BY <1>3, <2>2, <3>2
  <2> QED
    BY <2>1, <2>2
<1> HIDE DEF bare
<1>5. Right(room) /\ room.keys = c.keys /\ room.nbr = c.nbr /\ room.num # NRoutes
  <2>1. CASE bare.num # NRoutes
    BY <1>4, <2>1
  <2>2. CASE bare.num = NRoutes
    <3>1. bare.routes \in Seq(RouteBlocks) /\ Len(bare.routes) = NRoutes /\ NRoutes \in Nat \ {0}
      BY <1>4, <2>2, SizeAssumption DEF Right, Tables, Linked
    <3>2. oldest \in Elements(bare.routes)
      BY <3>1 DEF Elements
    <3>3. /\ Right(RouteRm(bare, oldest)) /\ RouteRm(bare, oldest).keys = bare.keys
          /\ RouteRm(bare, oldest).nbr = bare.nbr
          /\ RouteRm(bare, oldest).num = bare.num - 1
      BY <1>4, <3>2, RouteRmRight
    <3>4. RouteRm(bare, oldest).num # NRoutes
      BY <2>2, <3>1, <3>3
    <3> QED
      BY <1>4, <2>2, <3>3, <3>4
  <2> QED
    BY <2>1, <2>2
<1> HIDE DEF room
<1>6. NbrLookup(room, hop) # None
  BY <1>5 DEF NbrLookup, NbrSlots
<1>7. Right(RouteInsert(room, dest, hop)) /\ RouteInsert(room, dest, hop).nbr = c.nbr
  BY <1>5, <1>6, RouteInsertRight
<1>8. RouteAdd(c, a, dest, hop) = IF old # None /\ Nexthop(looked, old) = hop THEN looked
                                  ELSE RouteInsert(room, dest, hop)
  BY DEF RouteAdd, old, looked, bare, room
<1> QED
  BY <1>2, <1>3, <1>7, <1>8

-----------------------------------------------------------------------------
(* Default routers *)

\* Only the default routers change.
LEMMA RoutersRight ==
  ASSUME NEW c, Right(c), NEW D \in Seq(RouterRecords), Distinct(D), Len(D) <= NDefrts,
         \A d, e \in Elements(D) : d.ip = e.ip => d = e
  PROVE  /\ Right([c EXCEPT !.defrts = D]) /\ [c EXCEPT !.defrts = D].nbr = c.nbr
         /\ [c EXCEPT !.defrts = D].ll = c.ll /\ [c EXCEPT !.defrts = D].keys = c.keys
         /\ [c EXCEPT !.defrts = D].left = c.left
<1> DEFINE d == [c EXCEPT !.defrts = D]
<1>1. /\ d \in Tables /\ d.keys = c.keys /\ d.ll = c.ll /\ d.nbr = c.nbr /\ d.hops = c.hops
      /\ d.rlist = c.rlist /\ d.routes = c.routes /\ d.route = c.route /\ d.num = c.num
      /\ d.defrts = D /\ d.left = c.left
  BY DEF Right, Tables
<1> HIDE DEF d
<1>2. KeysRight(d) /\ Linked(d) /\ Neighbours(d) /\ RoutersOnce(d)
  BY <1>1 DEF Right, KeysRight, Linked, Neighbours, RoutersOnce
<1> QED
  BY <1>1, <1>2 DEF Right, d

\* uip_ds6_defrt_rm changes nothing but the default routers.
LEMMA DefrtRmRight ==
  ASSUME NEW c, Right(c), NEW gone
  PROVE  /\ Right(DefrtRm(c, gone)) /\ DefrtRm(c, gone).nbr = c.nbr
         /\ DefrtRm(c, gone).ll = c.ll /\ DefrtRm(c, gone).keys = c.keys
         /\ DefrtRm(c, gone).left = c.left /\ DefrtRm(c, gone).hops = c.hops
<1> DEFINE S == {d \in Elements(c.defrts) : d.ip \in gone}
           D == Without(c.defrts, S)
<1>1. c.defrts \in Seq(RouterRecords) /\ Distinct(c.defrts) /\ Len(c.defrts) <= NDefrts
      /\ NDefrts \in Nat /\ \A d, e \in Elements(c.defrts) : d.ip = e.ip => d = e
  BY SizeAssumption DEF Right, Tables, RoutersOnce
<1>2. DefrtRm(c, gone) = [c EXCEPT !.defrts = D]
  BY DEF DefrtRm
<1> HIDE DEF S
<1>3. /\ D \in Seq(RouterRecords) /\ Distinct(D) /\ Len(D) <= Len(c.defrts)
      /\ Elements(D) = Elements(c.defrts) \ S
  BY <1>1, WithoutFacts
<1> HIDE DEF D
<1>4. Len(D) <= NDefrts
  <2>1. Len(D) \in Nat /\ Len(c.defrts) \in Nat
    BY <1>1, <1>3
  <2> QED
    BY <1>1, <1>3, <2>1
<1>5. \A d, e \in Elements(D) : d.ip = e.ip => d = e
  BY <1>1, <1>3
<1> QED
  BY <1>2, <1>3, <1>4, <1>5, RoutersRight

\* uip_ds6_defrt_add sets the router that is there, or adds one.
LEMMA DefrtAddRight ==
  ASSUME NEW c, Right(c), NEW a \in Addrs, NEW inf \in BOOLEAN
  PROVE  /\ Right(DefrtAdd(c, a, inf)) /\ DefrtAdd(c, a, inf).nbr = c.nbr
         /\ DefrtAdd(c, a, inf).ll = c.ll /\ DefrtAdd(c, a, inf).keys = c.keys
<1> DEFINE x == [ip |-> a, inf |-> inf]
           R == [i \in DOMAIN c.defrts |-> IF c.defrts[i].ip = a THEN x ELSE c.defrts[i]]
           P == Push(c.defrts, x)
           n == Len(c.defrts)
<1>1. c.defrts \in Seq(RouterRecords) /\ Distinct(c.defrts) /\ n <= NDefrts
      /\ NDefrts \in Nat /\ n \in Nat /\ DOMAIN c.defrts = 1 .. n
      /\ \A d, e \in Elements(c.defrts) : d.ip = e.ip => d = e
  BY SizeAssumption DEF Right, Tables, RoutersOnce
<1>2. x \in RouterRecords /\ x.ip = a
  BY DEF RouterRecords
<1>3. \A i \in 1 .. n : c.defrts[i] \in RouterRecords /\ c.defrts[i] \in Elements(c.defrts)
  BY <1>1 DEF Elements
<1>4. CASE a \in Routers(c)
  <2>1. DefrtAdd(c, a, inf) = [c EXCEPT !.defrts = R]
    BY <1>4 DEF DefrtAdd
  <2>2. /\ DOMAIN R = 1 .. n /\ R = [i \in 1 .. n |-> R[i]]
        /\ \A i \in 1 .. n : R[i] \in RouterRecords /\ R[i].ip = c.defrts[i].ip
    <3>1. DOMAIN R = 1 .. n /\ R = [i \in 1 .. n |-> R[i]]
      BY <1>1
    <3>2. ASSUME NEW i \in 1 .. n
          PROVE  R[i] \in RouterRecords /\ R[i].ip = c.defrts[i].ip
      <4>1. R[i] = IF c.defrts[i].ip = a THEN x ELSE c.defrts[i]
        BY <1>1
      <4> HIDE DEF R, x
      <4> QED
        BY <1>2, <1>3, <4>1
    <3> QED
      BY <3>1, <3>2
  <2> HIDE DEF R, x
  <2>3. R \in Seq(RouterRecords)
    <3>0. n \in Nat /\ \A i \in 1 .. n : R[i] \in RouterRecords
      BY <1>1, <2>2
    <3> HIDE DEF n
    <3>1. [i \in 1 .. n |-> R[i]] \in Seq(RouterRecords)
      BY <3>0
    <3> QED
      BY <2>2, <3>1
  <2>4. Len(R) = n
    BY <1>1, <2>2, <2>3
  <2>5. \A i, j \in 1 .. n : R[i].ip = R[j].ip => i = j
    <3> SUFFICES ASSUME NEW i \in 1 .. n, NEW j \in 1 .. n, R[i].ip = R[j].ip PROVE i = j
      OBVIOUS
    <3>1. c.defrts[i].ip = c.defrts[j].ip
      BY <2>2
    <3>2. c.defrts[i] = c.defrts[j]
      BY <1>1, <1>3, <3>1
    <3> QED
      BY <1>1, <3>2 DEF Distinct
  <2>6. Distinct(R) /\ \A d, e \in Elements(R) : d.ip = e.ip => d = e
    <3>1. DOMAIN R = 1 .. n
      BY <2>2
    <3>2. Distinct(R)
      BY <2>5, <3>1 DEF Distinct
    <3>3. ASSUME NEW d \in Elements(R), NEW e \in Elements(R), d.ip = e.ip PROVE d = e
      <4>1. PICK i \in 1 .. n, j \in 1 .. n : d = R[i] /\ e = R[j]
        BY <3>1 DEF Elements
      <4> QED
        BY <2>5, <3>3, <4>1
    <3> QED
      BY <3>2, <3>3
  <2>7. Len(R) <= NDefrts
    BY <1>1, <2>4
  <2> QED
    BY <2>1, <2>3, <2>6, <2>7, RoutersRight
<1>5. CASE a \notin Routers(c) /\ n = NDefrts
  <2>1. DefrtAdd(c, a, inf) = c
    BY <1>5 DEF DefrtAdd
  <2> QED
    BY <2>1
<1>6. CASE a \notin Routers(c) /\ n # NDefrts
  <2>1. DefrtAdd(c, a, inf) = [c EXCEPT !.defrts = P]
    BY <1>6 DEF DefrtAdd
  <2>2. \A d \in Elements(c.defrts) : d.ip # a
    BY <1>6 DEF Routers
  <2> HIDE DEF x
  <2>3. /\ P \in Seq(RouterRecords) /\ Len(P) <= n + 1 /\ Distinct(P)
        /\ Elements(P) = Elements(c.defrts) \cup {x}
    BY <1>1, <1>2, PushFacts
  <2> HIDE DEF P
  <2>4. Len(P) <= NDefrts
    <3>1. Len(P) \in Nat
      BY <2>3
    <3> QED
      BY <1>1, <1>6, <2>3, <3>1
  <2>5. \A d, e \in Elements(P) : d.ip = e.ip => d = e
    BY <1>1, <1>2, <2>2, <2>3
  <2> QED
    BY <2>1, <2>3, <2>4, <2>5, RoutersRight
<1> QED
  BY <1>4, <1>5, <1>6

\* The next hop by a default router, or by a route, is an address.
LEMMA DefrtChooseFacts ==
  ASSUME NEW c, Right(c)
  PROVE  DefrtChoose(c) \in Addrs \cup {None}
<1> DEFINE known == {d \in Elements(c.defrts) : LET s == NbrLookup(c, d.ip)
                       IN s # None /\ c.nbr[s].state # "INCOMPLETE"}
<1>1. c.defrts \in Seq(RouterRecords)
  BY DEF Right, Tables
<1>2. \A d \in Elements(c.defrts) : d.ip \in Addrs
  <2>1. \A d \in Elements(c.defrts) : d \in RouterRecords
    BY <1>1 DEF Elements
  <2> QED
    BY <2>1 DEF RouterRecords
<1>3. DefrtChoose(c) = IF known # {} THEN FirstIn(c.defrts, known).ip
                       ELSE IF c.defrts = <<>> THEN None ELSE c.defrts[Len(c.defrts)].ip
  BY DEF DefrtChoose
<1>4. known \subseteq Elements(c.defrts)
  OBVIOUS
<1> HIDE DEF known
<1>5. CASE known # {}
  <2>1. FirstIn(c.defrts, known) \in Elements(c.defrts)
    <3>1. Elements(c.defrts) \cap known # {}
      BY <1>4, <1>5
    <3> QED
      BY <1>1, <3>1, FirstInElement
  <2> QED
    BY <1>2, <1>3, <1>5, <2>1
<1>6. CASE known = {} /\ c.defrts # <<>>
  <2>1. c.defrts[Len(c.defrts)] \in Elements(c.defrts)
    BY <1>1, <1>6 DEF Elements
  <2> QED
    BY <1>2, <1>3, <1>6, <2>1
<1> QED
  BY <1>3, <1>5, <1>6

\* uip_ds6_route_nexthop returns an address or a null pointer.
LEMMA NexthopFacts ==
  ASSUME NEW c, Right(c), NEW r
  PROVE  Nexthop(c, r) \in Addrs \cup {None}
<1> DEFINE s == KeyOf(c, c.ll[c.route[r].slot])
<1>1. s \in Slots \cup {None}
  BY KeyFacts
<1>2. Nexthop(c, r) = IF s # None /\ c.nbr[s] # Unused THEN c.nbr[s].ip ELSE None
  BY DEF Nexthop
<1> HIDE DEF s
<1>3. c.nbr \in [Slots -> Entries \cup {Unused}]
  BY DEF Right, Tables
<1>4. CASE s # None /\ c.nbr[s] # Unused
  <2>1. c.nbr[s] \in Entries
    BY <1>1, <1>3, <1>4
  <2> QED
    BY <1>2, <1>4, <2>1 DEF Entries
<1> QED
  BY <1>2, <1>4

-----------------------------------------------------------------------------
(* Output *)

\* tcpip_ipv6_output adds its next hop as INCOMPLETE, or ages it to DELAY.
LEMMA SendToRight ==
  ASSUME NEW c, Right(c), NEW hop \in Addrs
  PROVE  Right(SendTo(c, hop))
<1> DEFINE s == NbrLookup(c, hop)
           b == NbrAdd(c, hop, NullLL, FALSE, "INCOMPLETE", 1)
           n == [c.nbr[s] EXCEPT !.state = "DELAY", !.nscount = 0]
<1>1. c \in Tables /\ s \in Slots \cup {None}
  BY LookupFacts DEF Right
<1>2. CASE s = None
  <2>1. SendTo(c, hop) = LeftSet(b, "solicitation")
    BY <1>2 DEF SendTo, LeftSet
  <2>2. NbrSlots(c, hop) = {}
    BY <1>2, LookupFacts
  <2>3. "INCOMPLETE" \in NbrStates /\ 1 \in Nat /\ NullLL \in Links
    BY DEF NbrStates, Links
  <2>4. Right(b)
    BY <2>2, <2>3, NbrAddRight
  <2> HIDE DEF b
  <2> QED
    BY <2>1, <2>4, LeftRight DEF Leftovers
<1>3. CASE s # None /\ c.nbr[s].state = "STALE"
  <2>1. s \in Slots /\ c.nbr[s] \in Entries /\ c.nbr[s] # Unused /\ c.ll[s] \in Links
    BY <1>1, <1>3, LookupFacts DEF Tables
  <2>2. SendTo(c, hop) = LeftSet(EntrySet(c, s, c.ll[s], n), None)
    BY <1>1, <1>3, <2>1 DEF SendTo, LeftSet, EntrySet, Tables
  <2>3. n \in Entries /\ n.ip = c.nbr[s].ip /\ n.state = "DELAY"
    BY <2>1 DEF Entries, NbrStates
  <2>4. EntryFits(n, c.ll[s])
    BY <1>3, <2>1, <2>3 DEF Right, Neighbours, EntryFits
  <2> HIDE DEF n, s
  <2>5. Right(EntrySet(c, s, c.ll[s], n))
    BY <2>1, <2>3, <2>4, EntryRight
  <2> QED
    BY <2>2, <2>5, LeftRight DEF Leftovers
<1>4. CASE s # None /\ c.nbr[s].state # "STALE"
  <2>1. SendTo(c, hop) = LeftSet(c, None)
    BY <1>4 DEF SendTo, LeftSet
  <2> QED
    BY <2>1, LeftRight DEF Leftovers
<1> QED
  BY <1>2, <1>3, <1>4

\* A packet takes nothing away but a route that leads nowhere.
LEMMA OutputRight ==
  ASSUME NEW c, Right(c), NEW dst \in Addrs
  PROVE  Right(Output(c, dst))
<1> DEFINE r == RouteFor(c, dst)
           d == Touch(c, r)
           hop == IF r = None THEN DefrtChoose(c) ELSE Nexthop(d, r)
<1>1. r \in Elements(c.routes) \cup {None}
  BY RouteForFacts
<1>2. Output(c, dst) = IF dst \in OnLink THEN SendTo(c, dst)
                       ELSE IF hop # None THEN SendTo(d, hop)
                       ELSE IF r # None THEN LeftSet(RouteRm(d, r), dst)
                       ELSE LeftSet(c, None)
  BY DEF Output, LeftSet
<1> HIDE DEF r
<1>3. Right(d) /\ Elements(d.routes) = Elements(c.routes)
  BY <1>1, TouchRight
<1> HIDE DEF d
<1>4. hop \in Addrs \cup {None}
  BY <1>3, DefrtChooseFacts, NexthopFacts
<1> HIDE DEF hop
<1>5. CASE dst \in OnLink
  BY <1>2, <1>5, SendToRight
<1>6. CASE dst \notin OnLink /\ hop # None
  BY <1>2, <1>3, <1>4, <1>6, SendToRight
<1>7. CASE dst \notin OnLink /\ hop = None /\ r # None
  <2>1. r \in Elements(d.routes)
    BY <1>1, <1>3, <1>7
  <2>2. Right(RouteRm(d, r))
    BY <1>3, <2>1, RouteRmRight
  <2> QED
    BY <1>2, <1>7, <2>2, LeftRight DEF Leftovers
<1>8. CASE dst \notin OnLink /\ hop = None /\ r = None
  BY <1>2, <1>8, LeftRight DEF Leftovers
<1> QED
  BY <1>5, <1>6, <1>7, <1>8

\* uip_buf is emptied.
LEMMA ClearRight ==
  ASSUME NEW c, Right(c)
  PROVE  Right(Clear(c))
<1>1. Clear(c) = LeftSet(c, None)
  BY DEF Clear, LeftSet
<1> QED
  BY <1>1, LeftRight DEF Leftovers

-----------------------------------------------------------------------------
(* Input *)

\* A neighbour is heard with its own link-layer address.
LEMMA HearSourceRight ==
  ASSUME NEW c, Right(c), NEW src \in Addrs, NEW l \in Owns[src], NEW isrouter \in BOOLEAN
  PROVE  Right(HearSource(c, src, l, isrouter))
<1> DEFINE s == NbrLookup(c, src)
           n == [c.nbr[s] EXCEPT !.state = "STALE"]
<1>1. c \in Tables /\ s \in Slots \cup {None} /\ l \in Links
  BY LookupFacts, OwnsAssumption DEF Right, Links
<1>2. CASE s = None
  <2>1. NbrSlots(c, src) = {} /\ "STALE" \in NbrStates /\ 0 \in Nat
    BY <1>2, LookupFacts DEF NbrStates
  <2>2. Right(NbrAdd(c, src, l, isrouter, "STALE", 0))
    BY <1>1, <2>1, NbrAddRight
  <2> QED
    BY <1>2, <2>2 DEF HearSource
<1>3. CASE s # None /\ c.ll[s] # l
  <2>1. s \in Slots /\ c.nbr[s] \in Entries /\ c.nbr[s] # Unused /\ c.nbr[s].ip = src
    BY <1>1, <1>3, LookupFacts
  <2>2. HearSource(c, src, l, isrouter) = EntrySet(c, s, l, n)
    BY <1>1, <1>3 DEF HearSource, Moved, EntrySet
  <2>3. n \in Entries /\ n.ip = c.nbr[s].ip /\ n.state = "STALE"
    BY <2>1 DEF Entries, NbrStates
  <2>4. EntryFits(n, l)
    BY <2>1, <2>3 DEF EntryFits
  <2> HIDE DEF n, s
  <2>5. Right(EntrySet(c, s, l, n))
    BY <1>1, <2>1, <2>3, <2>4, EntryRight
  <2> QED
    BY <2>2, <2>5
<1>4. CASE s # None /\ c.ll[s] = l
  BY <1>4 DEF HearSource
<1> QED
  BY <1>2, <1>3, <1>4

\* An advertisement resolves its target only with an address of the target.
LEMMA NaAcceptForm ==
  ASSUME NEW c, Right(c), NEW target \in Addrs, NbrLookup(c, target) # None,
         NEW l \in Owns[target] \cup {NoOpt}, NEW solicited \in BOOLEAN, NEW override \in BOOLEAN,
         NEW isrouter \in BOOLEAN, NEW d,
         d = NaAccept(c, NbrLookup(c, target), l, solicited, override, isrouter)
  PROVE  \/ d = c
         \/ \E k \in Links, n \in Entries : /\ d = EntrySet(c, NbrLookup(c, target), k, n)
                                           /\ n.ip = target /\ EntryFits(n, k)
<1> DEFINE s == NbrLookup(c, target)
           e == c.nbr[s]
           new == IF l = NoOpt THEN c.ll[s] ELSE l
           changed == l # NoOpt /\ l # c.ll[s]
           resolved == [e EXCEPT !.state = IF solicited THEN "REACHABLE" ELSE "STALE",
                                 !.nscount = IF solicited THEN 0 ELSE e.nscount,
                                 !.isrouter = isrouter]
           kept == [e EXCEPT !.state = IF e.state = "REACHABLE" THEN "STALE" ELSE e.state]
           updated == [e EXCEPT !.state = IF solicited THEN "REACHABLE"
                                          ELSE IF changed THEN "STALE" ELSE e.state,
                                !.isrouter = isrouter]
<1>1. /\ c \in Tables /\ s \in Slots /\ e \in Entries /\ e # Unused /\ e.ip = target
      /\ EntryFits(e, c.ll[s]) /\ c.ll[s] \in Links
  <2>1. s \in Slots /\ e \in Entries /\ e # Unused /\ e.ip = target
    BY LookupFacts
  <2> QED
    BY <2>1 DEF Right, Tables, Neighbours
<1>2. new \in Links /\ (l # NoOpt => l \in Owns[target] /\ l \in Links)
  BY <1>1, OwnsAssumption DEF Links
<1>3. /\ resolved \in Entries /\ resolved.ip = e.ip /\ resolved.state # "INCOMPLETE"
      /\ kept \in Entries /\ kept.ip = e.ip
      /\ (kept.state = "INCOMPLETE" <=> e.state = "INCOMPLETE")
      /\ updated \in Entries /\ updated.ip = e.ip
      /\ (e.state # "INCOMPLETE" => updated.state # "INCOMPLETE")
  BY <1>1 DEF Entries, NbrStates
<1>4. NaAccept(c, s, l, solicited, override, isrouter) =
        IF e.state = "INCOMPLETE"
          THEN IF l = NoOpt THEN c ELSE EntrySet(c, s, l, resolved)
        ELSE IF changed /\ ~override THEN EntrySet(c, s, c.ll[s], kept)
        ELSE EntrySet(c, s, new, updated)
  <2> HIDE DEF s
  <2>1. EntrySet(c, s, c.ll[s], kept)
          = [c EXCEPT !.nbr[s].state = IF e.state = "REACHABLE" THEN "STALE" ELSE e.state]
    BY <1>1 DEF EntrySet, Tables
  <2>2. EntrySet(c, s, l, resolved) = NaResolve(c, s, l, solicited, isrouter)
    BY DEF EntrySet, NaResolve
  <2>3. EntrySet(c, s, new, updated) = NaUpdate(c, s, l, solicited, changed, isrouter)
    BY DEF EntrySet, NaUpdate
  <2> QED
    BY <2>1, <2>2, <2>3 DEF NaAccept
<1> HIDE DEF resolved, kept, updated
<1>5. e.state = "INCOMPLETE" /\ l # NoOpt => EntryFits(resolved, l)
  BY <1>1, <1>2, <1>3 DEF EntryFits
<1>6. EntryFits(kept, c.ll[s])
  BY <1>1, <1>3 DEF EntryFits
<1>7. e.state # "INCOMPLETE" => EntryFits(updated, new)
  BY <1>1, <1>2, <1>3 DEF EntryFits
<1> HIDE DEF s, e, new, changed
<1> QED
  BY <1>1, <1>2, <1>3, <1>4, <1>5, <1>6, <1>7 DEF s

\* An advertisement leaves the tables right.
LEMMA NaAcceptRight ==
  ASSUME NEW c, Right(c), NEW target \in Addrs, NbrLookup(c, target) # None,
         NEW l \in Owns[target] \cup {NoOpt}, NEW solicited \in BOOLEAN, NEW override \in BOOLEAN,
         NEW isrouter \in BOOLEAN
  PROVE  Right(NaAccept(c, NbrLookup(c, target), l, solicited, override, isrouter))
<1> DEFINE d == NaAccept(c, NbrLookup(c, target), l, solicited, override, isrouter)
           s == NbrLookup(c, target)
<1>1. \/ d = c
      \/ \E k \in Links, n \in Entries : d = EntrySet(c, s, k, n) /\ n.ip = target /\ EntryFits(n, k)
  BY NaAcceptForm
<1>2. s \in Slots /\ c.nbr[s] # Unused /\ c.nbr[s].ip = target
  BY LookupFacts
<1> HIDE DEF d, s
<1>3. ASSUME NEW k \in Links, NEW n \in Entries, n.ip = target, EntryFits(n, k)
      PROVE  Right(EntrySet(c, s, k, n))
  BY <1>2, <1>3, EntryRight
<1>4. Right(d)
  BY <1>1, <1>3
<1> QED
  BY <1>4 DEF d, s

\* A neighbour becomes a router without another change.
LEMMA IsRouterRight ==
  ASSUME NEW c, Right(c), NEW s \in Slots \cup {None}
  PROVE  Right(IsRouter(c, s))
<1> DEFINE n == [c.nbr[s] EXCEPT !.isrouter = TRUE]
<1>1. CASE s # None /\ c.nbr[s] # Unused
  <2>1. /\ c \in Tables /\ s \in Slots /\ c.nbr[s] \in Entries /\ c.ll[s] \in Links
        /\ EntryFits(c.nbr[s], c.ll[s])
    BY <1>1 DEF Right, Tables, Neighbours
  <2>2. IsRouter(c, s) = EntrySet(c, s, c.ll[s], n)
    BY <1>1, <2>1 DEF IsRouter, EntrySet, Tables
  <2>3. n \in Entries /\ n.ip = c.nbr[s].ip /\ n.state = c.nbr[s].state
    BY <2>1 DEF Entries
  <2>4. EntryFits(n, c.ll[s])
    BY <2>1, <2>3 DEF EntryFits
  <2> HIDE DEF n
  <2>5. Right(EntrySet(c, s, c.ll[s], n))
    BY <1>1, <2>1, <2>3, <2>4, EntryRight
  <2> QED
    BY <2>2, <2>5
<1>2. CASE s = None \/ c.nbr[s] = Unused
  BY <1>2 DEF IsRouter
<1> QED
  BY <1>1, <1>2

-----------------------------------------------------------------------------
(* The steps *)

\* A pass over the neighbours gives up some and changes the states of others.
Passed(c, b, expired, asker) ==
  [b EXCEPT !.nbr = [s \in Slots |-> Aged(c, s, expired, s = asker)]]

\* The pass of uip_ds6_neighbor_periodic leaves the tables right.
LEMMA AgedRight ==
  ASSUME NEW c, Right(c), NEW b, Right(b), b.nbr = c.nbr, b.ll = c.ll, NEW expired, NEW asker
  PROVE  Right(Passed(c, b, expired, asker))
<1> DEFINE N == [s \in Slots |-> Aged(c, s, expired, s = asker)]
<1>1. b \in Tables /\ b.ll \in [Slots -> Links] /\ c.nbr \in [Slots -> Entries \cup {Unused}]
  BY DEF Right, Tables
<1>2. ASSUME NEW s \in Slots, N[s] # Unused
      PROVE  /\ N[s] \in Entries /\ c.nbr[s] # Unused /\ N[s].ip = c.nbr[s].ip
             /\ EntryFits(N[s], b.ll[s])
  <2> DEFINE n == c.nbr[s]
  <2>1. N[s] = Aged(c, s, expired, s = asker)
    OBVIOUS
  <2>2. n \in Entries /\ n # Unused /\ EntryFits(n, b.ll[s])
    <3>1. n # Unused
      BY <1>2, <2>1 DEF Aged
    <3> QED
      BY <1>1, <3>1 DEF Right, Neighbours
  <2>3. \/ N[s] = n
        \/ N[s] = [n EXCEPT !.nscount = n.nscount + 1]
        \/ n.state = "REACHABLE" /\ N[s] = [n EXCEPT !.state = "STALE"]
        \/ n.state = "DELAY" /\ N[s] = [n EXCEPT !.state = "PROBE", !.nscount = 0]
    BY <1>2, <2>1 DEF Aged
  <2> HIDE DEF N
  <2>4. N[s] \in Entries /\ N[s].ip = n.ip
    <3> HIDE DEF n
    <3>1. CASE N[s] = n
      BY <2>2, <3>1
    <3>2. CASE N[s] = [n EXCEPT !.nscount = n.nscount + 1]
      BY <2>2, <3>2 DEF Entries
    <3>3. CASE N[s] = [n EXCEPT !.state = "STALE"]
      BY <2>2, <3>3 DEF Entries, NbrStates
    <3>4. CASE N[s] = [n EXCEPT !.state = "PROBE", !.nscount = 0]
      <4> DEFINE m == [n EXCEPT !.state = "PROBE", !.nscount = 0]
      <4>1. m \in Entries /\ m.ip = n.ip
        BY <2>2 DEF Entries, NbrStates
      <4> HIDE DEF m
      <4>2. N[s] = m
        BY <3>4 DEF m
      <4> QED
        BY <4>1, <4>2
    <3> QED
      BY <2>3, <3>1, <3>2, <3>3, <3>4
  <2>5. EntryFits(N[s], b.ll[s])
    BY <2>2, <2>3 DEF EntryFits, Entries
  <2> QED
    BY <2>2, <2>4, <2>5
<1>3. N \in [Slots -> Entries \cup {Unused}]
  BY <1>2
<1> HIDE DEF N
<1>4. Right([b EXCEPT !.ll = b.ll, !.nbr = N])
  BY <1>1, <1>2, <1>3, NbrRight
<1>5. [b EXCEPT !.ll = b.ll, !.nbr = N] = [b EXCEPT !.nbr = N]
  BY <1>1 DEF Tables
<1> QED
  BY <1>4, <1>5 DEF N, Passed

\* The neighbour that a pass solicits for
LEMMA SolicitorFacts ==
  ASSUME NEW c, Right(c), NEW expired, Solicitor(c, expired) # None
  PROVE  /\ Solicitor(c, expired) \in Slots
         /\ c.nbr[Solicitor(c, expired)] \in Entries /\ c.nbr[Solicitor(c, expired)] # Unused
<1> DEFINE S == {s \in expired : c.nbr[s] # Unused /\ c.nbr[s].state \in Solicits /\ ~Tried(c, s)}
<1>1. c.keys \in Seq(Slots) /\ None \notin Slots /\ c.nbr \in [Slots -> Entries \cup {Unused}]
  BY NoneApart DEF Right, Tables
<1>2. Solicitor(c, expired) = FirstIn(c.keys, S)
  BY DEF Solicitor
<1>3. \A s \in S : c.nbr[s] # Unused
  OBVIOUS
<1> HIDE DEF S
<1>4. FirstIn(c.keys, S) # None => FirstIn(c.keys, S) \in Slots /\ FirstIn(c.keys, S) \in S
  BY <1>1, FirstInFacts
<1> QED
  BY <1>1, <1>2, <1>3, <1>4

\* So does the whole of uip_ds6_periodic, with the solicitation that it sends.
LEMMA PeriodicRight ==
  ASSUME Right(cache), NEW expired, NEW dead, NEW busy, Periodic(expired, dead, busy)
  PROVE  Right(cache)'
<1> DEFINE d == DefrtRm(cache, dead)
           b == DefrtRm(d, DeadRouters(d))
           asker == IF cache.left # None \/ busy THEN None ELSE Solicitor(d, expired)
           aged == Passed(d, b, expired, asker)
           packet == IF asker # None THEN d.nbr[asker].ip ELSE cache.left
           unicast == IF asker # None THEN d.nbr[asker].state = "PROBE" ELSE cache.left \in Addrs
<1>1. cache' = IF unicast THEN Output(aged, packet) ELSE Clear(aged)
  BY DEF Periodic, Passed
<1>2. Right(d)
  BY DefrtRmRight
<1>3. asker # None => d.nbr[asker] \in Entries
  BY <1>2, SolicitorFacts
<1> HIDE DEF d, asker
<1>4. Right(b) /\ b.nbr = d.nbr /\ b.ll = d.ll
  BY <1>2, DefrtRmRight
<1> HIDE DEF b
<1>5. Right(aged)
  BY <1>2, <1>4, AgedRight
<1>6. unicast => packet \in Addrs
  BY <1>3 DEF Entries
<1> HIDE DEF aged, unicast, packet
<1>7. Right(Clear(aged)) /\ (unicast => Right(Output(aged, packet)))
  BY <1>5, <1>6, ClearRight, OutputRight
<1> QED
  BY <1>1, <1>7

\* ns_input keeps the invariant.
LEMMA SolicitationRight ==
  ASSUME Nd6Inductive, NEW src \in Addrs, NEW forUs \in BOOLEAN, NEW l \in Owns[src] \cup {NoOpt},
         NsInput(src, l, forUs)
  PROVE  Nd6Inductive'
<1> DEFINE d == IF l = NoOpt THEN cache ELSE HearSource(cache, src, l, FALSE)
           s == IF l = NoOpt THEN last ELSE NbrLookup(cache, src)
<1>1. /\ cache' = Clear(IF forUs THEN Output(d, src) ELSE d) /\ router' = router
      /\ last' = IF router THEN None ELSE s
  BY DEF NsInput, Remember
<1>2. Right(cache) /\ last \in Slots \cup {None} /\ router \in BOOLEAN
  BY DEF Nd6Inductive
<1>3. Right(d)
  <2>1. l # NoOpt => l \in Owns[src]
    OBVIOUS
  <2> QED
    BY <1>2, <2>1, HearSourceRight
<1>4. s \in Slots \cup {None}
  BY <1>2, LookupFacts
<1> HIDE DEF d, s
<1>5. Right(Clear(Output(d, src))) /\ Right(Clear(d))
  BY <1>3, OutputRight, ClearRight
<1>6. Right(cache)'
  BY <1>1, <1>5
<1> QED
  BY <1>1, <1>2, <1>4, <1>6 DEF Nd6Inductive

\* na_input keeps the invariant.
LEMMA AdvertisementRight ==
  ASSUME Nd6Inductive, NEW target \in Addrs, NEW src \in Addrs,
         NEW l \in Owns[target] \cup {NoOpt}, NEW solicited \in BOOLEAN, NEW override \in BOOLEAN,
         NEW isrouter \in BOOLEAN, NaInput(target, src, l, solicited, override, isrouter)
  PROVE  Nd6Inductive'
<1> DEFINE s == NbrLookup(cache, target)
           d == NaAccept(cache, s, l, solicited, override, isrouter)
<1>1. /\ \/ s = None /\ cache' = Clear(cache)
         \/ s # None /\ cache' \in {Clear(d), Clear(DefrtRm(d, {src}))}
      /\ last' = (IF router THEN None ELSE s) /\ router' = router
  BY DEF NaInput, Remember
<1>2. Right(cache) /\ last \in Slots \cup {None} /\ router \in BOOLEAN
  BY DEF Nd6Inductive
<1>3. s # None => Right(d)
  BY <1>2, NaAcceptRight
<1>4. s \in Slots \cup {None}
  BY <1>2, LookupFacts
<1> HIDE DEF d, s
<1>5. s # None => Right(Clear(d)) /\ Right(Clear(DefrtRm(d, {src})))
  BY <1>3, DefrtRmRight, ClearRight
<1>6. Right(Clear(cache))
  BY <1>2, ClearRight
<1>7. Right(cache)'
  BY <1>1, <1>5, <1>6
<1> QED
  BY <1>1, <1>2, <1>4, <1>7 DEF Nd6Inductive

\* rs_input keeps the invariant: the entry that it removes and adds again has no other.
LEMMA RouterSolicitationRight ==
  ASSUME Nd6Inductive, NEW src \in Addrs, NEW l \in Owns[src], RsInput(src, l)
  PROVE  Nd6Inductive'
<1> DEFINE s == NbrLookup(cache, src)
           fresh == NbrAdd(cache, src, l, FALSE, "STALE", 0)
           bare == NbrRm(cache, s)
           moved == NbrAdd(bare, src, l, FALSE, "STALE", cache.nbr[s].nscount)
           n == [cache.nbr[s] EXCEPT !.isrouter = FALSE]
           same == [cache EXCEPT !.nbr[s].isrouter = FALSE]
<1>1. /\ cache' = Clear(IF s = None THEN fresh ELSE IF cache.ll[s] # l THEN moved ELSE same)
      /\ last' = last /\ router' = router
  BY DEF RsInput
<1>2. Right(cache) /\ last \in Slots \cup {None} /\ router \in BOOLEAN /\ cache \in Tables
  BY DEF Nd6Inductive, Right
<1>3. l \in Links /\ "STALE" \in NbrStates /\ 0 \in Nat
  BY OwnsAssumption DEF Links, NbrStates
<1>4. s = None => Right(fresh)
  <2> SUFFICES ASSUME s = None PROVE Right(fresh)
    OBVIOUS
  <2>1. NbrSlots(cache, src) = {}
    BY <1>2, LookupFacts
  <2> HIDE DEF s
  <2> QED
    BY <1>2, <1>3, <2>1, NbrAddRight
<1>5. ASSUME s # None PROVE Right(moved) /\ Right(same)
  <2>1. /\ s \in Slots /\ cache.nbr[s] \in Entries /\ cache.nbr[s] # Unused
        /\ cache.nbr[s].ip = src /\ cache.ll[s] \in Links /\ EntryFits(cache.nbr[s], cache.ll[s])
    <3>1. /\ s \in Slots /\ cache.nbr[s] \in Entries /\ cache.nbr[s] # Unused
          /\ cache.nbr[s].ip = src
      BY <1>2, <1>5, LookupFacts
    <3> QED
      BY <1>2, <3>1 DEF Right, Tables, Neighbours
  <2> HIDE DEF s
  <2>2. Right(bare) /\ bare.nbr = [cache.nbr EXCEPT ![s] = Unused]
    BY <1>2, <2>1, NbrRmRight
  <2>3. NbrSlots(bare, src) = {}
    <3> SUFFICES ASSUME NEW t \in Slots, bare.nbr[t] # Unused, bare.nbr[t].ip = src PROVE FALSE
      BY DEF NbrSlots
    <3>1. t # s /\ cache.nbr[t] = bare.nbr[t]
      BY <1>2, <2>1, <2>2 DEF Tables
    <3> QED
      BY <1>2, <2>1, <3>1 DEF Right, Neighbours
  <2> HIDE DEF bare
  <2>4. cache.nbr[s].nscount \in Nat
    BY <2>1 DEF Entries
  <2>5. Right(moved)
    BY <1>3, <2>2, <2>3, <2>4, NbrAddRight
  <2>6. same = EntrySet(cache, s, cache.ll[s], n)
    BY <1>2, <2>1 DEF EntrySet, Tables
  <2>7. n \in Entries /\ n.ip = cache.nbr[s].ip /\ n.state = cache.nbr[s].state
    BY <2>1 DEF Entries
  <2>8. EntryFits(n, cache.ll[s])
    BY <2>1, <2>7 DEF EntryFits
  <2> HIDE DEF n
  <2>9. Right(EntrySet(cache, s, cache.ll[s], n))
    BY <1>2, <2>1, <2>7, <2>8, EntryRight
  <2> QED
    BY <2>5, <2>6, <2>9
<1> HIDE DEF s, fresh, moved, same
<1>6. Right(cache)'
  BY <1>1, <1>4, <1>5, ClearRight
<1> QED
  BY <1>1, <1>2, <1>6 DEF Nd6Inductive

\* ra_input keeps the invariant.
LEMMA RouterAdvertisementRight ==
  ASSUME Nd6Inductive, NEW src \in Addrs, NEW l \in Owns[src] \cup {NoOpt}, NEW lifetime \in BOOLEAN,
         RaInput(src, l, lifetime)
  PROVE  Nd6Inductive'
<1> DEFINE h == HearSource(cache, src, l, TRUE)
           heard == IF l = NoOpt THEN cache ELSE IsRouter(h, NbrLookup(h, src))
           nbr == IF l = NoOpt THEN last ELSE NbrLookup(heard, src)
           lived == IF src \in Routers(heard) THEN heard ELSE DefrtAdd(heard, src, FALSE)
<1>1. /\ last' = nbr /\ router' = router
      /\ cache' = Clear(IF lifetime THEN IsRouter(lived, nbr) ELSE DefrtRm(heard, {src}))
  BY DEF RaInput
<1>2. Right(cache) /\ last \in Slots \cup {None} /\ router \in BOOLEAN
  BY DEF Nd6Inductive
<1>3. Right(heard)
  <2>1. CASE l = NoOpt
    BY <1>2, <2>1
  <2>2. CASE l # NoOpt
    <3>1. Right(h)
      BY <1>2, <2>2, HearSourceRight
    <3> HIDE DEF h
    <3>2. NbrLookup(h, src) \in Slots \cup {None}
      BY <3>1, LookupFacts
    <3>3. Right(IsRouter(h, NbrLookup(h, src)))
      BY <3>1, <3>2, IsRouterRight
    <3> QED
      BY <2>2, <3>3
  <2> QED
    BY <2>1, <2>2
<1> HIDE DEF heard
<1>4. nbr \in Slots \cup {None}
  BY <1>2, <1>3, LookupFacts
<1>5. Right(lived)
  BY <1>3, DefrtAddRight
<1> HIDE DEF nbr, lived
<1>6. Right(IsRouter(lived, nbr)) /\ Right(DefrtRm(heard, {src}))
  BY <1>3, <1>4, <1>5, IsRouterRight, DefrtRmRight
<1>7. Right(cache)'
  BY <1>1, <1>6, ClearRight
<1> QED
  BY <1>1, <1>2, <1>4, <1>7 DEF Nd6Inductive

\* Empty tables are right.
LEMMA Nd6Init ==
  ASSUME Init
  PROVE  Nd6Inductive
<1>1. cache = EmptyTables /\ last = None /\ router \in BOOLEAN
  BY BuildAssumption DEF Init
<1>2. EmptyTables \in Tables
  <2>1. <<>> \in Seq(Slots) /\ <<>> \in Seq(RouteBlocks) /\ <<>> \in Seq(RouterRecords) /\ 0 \in Nat
    OBVIOUS
  <2> QED
    BY <2>1 DEF EmptyTables, Tables, Links, Leftovers
<1>3. Elements(<<>>) = {} /\ Distinct(<<>>) /\ Len(<<>>) = 0
  BY DEF Elements, Distinct
<1>4. KeysRight(EmptyTables) /\ Linked(EmptyTables) /\ Neighbours(EmptyTables)
  BY <1>3 DEF EmptyTables, KeysRight, Linked, Neighbours
<1>5. RoutersOnce(EmptyTables)
  BY <1>3, SizeAssumption DEF EmptyTables, RoutersOnce
<1> QED
  BY <1>1, <1>2, <1>4, <1>5 DEF Nd6Inductive, Right

\* Every step of neighbour discovery keeps the invariant.
LEMMA Nd6Step ==
  ASSUME Nd6Inductive, [Next]_vars
  PROVE  Nd6Inductive'
<1>0. Right(cache) /\ last \in Slots \cup {None} /\ router \in BOOLEAN /\ Nodes \subseteq Addrs
      /\ Hops \subseteq Addrs /\ RouterAddrs \subseteq Addrs
  BY HopAssumption DEF Nd6Inductive, Nodes
<1>1. ASSUME NEW dst \in Addrs, Send(dst) PROVE Nd6Inductive'
  <2>1. Right(Output(cache, dst)) /\ Right(Clear(Output(cache, dst)))
    BY <1>0, OutputRight, ClearRight
  <2> QED
    BY <1>0, <1>1, <2>1 DEF Send, Nd6Inductive
<1>2. CASE Hear
  <2>1. ASSUME NEW src \in Nodes, NEW forUs \in BOOLEAN, NEW l \in Owns[src] \cup {NoOpt},
               NsInput(src, l, forUs)
        PROVE  Nd6Inductive'
    BY <1>0, <2>1, SolicitationRight
  <2>2. ASSUME NEW target \in Nodes, NEW src \in Nodes, NEW l \in Owns[target] \cup {NoOpt},
               NEW solicited \in BOOLEAN, NEW override \in BOOLEAN, NEW isrouter \in BOOLEAN,
               NaInput(target, src, l, solicited, override, isrouter)
        PROVE  Nd6Inductive'
    BY <1>0, <2>2, AdvertisementRight
  <2>3. ASSUME NEW src \in Nodes, NEW l \in Owns[src], RsInput(src, l)
        PROVE  Nd6Inductive'
    BY <1>0, <2>3, RouterSolicitationRight
  <2>4. ASSUME NEW src \in RouterAddrs, NEW lifetime \in BOOLEAN, NEW l \in Owns[src] \cup {NoOpt},
               RaInput(src, l, lifetime)
        PROVE  Nd6Inductive'
    BY <1>0, <2>4, RouterAdvertisementRight
  <2>a. CASE \E src \in Nodes, forUs \in BOOLEAN : \E l \in Owns[src] \cup {NoOpt} : NsInput(src, l, forUs)
    BY <2>1, <2>a
  <2>b. CASE \E target, src \in Nodes : \E l \in Owns[target] \cup {NoOpt} :
             \E solicited, override, isrouter \in BOOLEAN :
               NaInput(target, src, l, solicited, override, isrouter)
    BY <2>2, <2>b
  <2>c. CASE \E src \in Nodes : \E l \in Owns[src] : RsInput(src, l)
    BY <2>3, <2>c
  <2>d. CASE \E src \in RouterAddrs, lifetime \in BOOLEAN : \E l \in Owns[src] \cup {NoOpt} :
             RaInput(src, l, lifetime)
    BY <2>4, <2>d
  <2> QED
    BY <1>2, <2>a, <2>b, <2>c, <2>d DEF Hear
<1>3. CASE Tick
  <2>1. PICK expired, dead, busy : Periodic(expired, dead, busy)
    BY <1>3 DEF Tick
  <2>2. Right(cache)'
    BY <1>0, <2>1, PeriodicRight
  <2>3. last' = last /\ router' = router
    BY <2>1 DEF Periodic
  <2> QED
    BY <1>0, <2>2, <2>3 DEF Nd6Inductive
<1>4. CASE Apply
  <2>1. ASSUME NEW hop \in Hops, RmRoutesBy(hop) PROVE Nd6Inductive'
    <3> DEFINE s == NbrLookup(cache, hop)
               k == KeyOf(cache, IF s = None THEN NullLL ELSE cache.ll[s])
    <3>1. k # None /\ cache' = RmRouteList(cache, k) /\ last' = last /\ router' = router
      BY <2>1 DEF RmRoutesBy
    <3>2. k \in Slots
      BY <1>0, <3>1, KeyFacts
    <3> HIDE DEF k
    <3>3. Right(RmRouteList(cache, k))
      BY <1>0, <3>2, RmRouteListRight
    <3> QED
      BY <1>0, <3>1, <3>3 DEF Nd6Inductive
  <2>2. ASSUME NEW hop \in Hops, NEW dest \in Dests, NEW a \in dest, AddRoute(a, dest, hop)
        PROVE  Nd6Inductive'
    <3>1. /\ NbrLookup(cache, hop) # None /\ cache' = RouteAdd(cache, a, dest, hop)
          /\ last' = last /\ router' = router
      BY <2>2 DEF AddRoute
    <3>2. Right(RouteAdd(cache, a, dest, hop))
      BY <1>0, <3>1, RouteAddRight
    <3> QED
      BY <1>0, <3>1, <3>2 DEF Nd6Inductive
  <2>3. ASSUME NEW a \in RouterAddrs, AddRouter(a) PROVE Nd6Inductive'
    <3>1. cache' = DefrtAdd(cache, a, TRUE) /\ last' = last /\ router' = router
      BY <2>3 DEF AddRouter
    <3>2. Right(DefrtAdd(cache, a, TRUE))
      BY <1>0, DefrtAddRight
    <3> QED
      BY <1>0, <3>1, <3>2 DEF Nd6Inductive
  <2> QED
    BY <1>4, <2>1, <2>2, <2>3 DEF Apply
<1>5. CASE UNCHANGED vars
  BY <1>5 DEF vars, Nd6Inductive
<1> QED
  BY <1>1, <1>2, <1>3, <1>4, <1>5 DEF Next

-----------------------------------------------------------------------------
(* What the runs check of Nd6 *)

\* The tables are always right.
LEMMA Nd6InductiveAlways == Spec => []Nd6Inductive
  BY Nd6Init, Nd6Step, PTL DEF Spec

\* Every table keeps its shape, whatever nodes announce and applications add, and a slot
\* that any of them uses has a key.
THEOREM Nd6TypeCorrect == Spec => []Nd6TypeOK
<1>1. ASSUME Nd6Inductive PROVE Nd6TypeOK
  <2>1. /\ cache \in Tables /\ last \in Slots \cup {None} /\ router \in BOOLEAN /\ KeysRight(cache)
        /\ Distinct(cache.routes) /\ Len(cache.defrts) <= NDefrts /\ cache.num \in 0 .. NRoutes
    BY <1>1, RoutesCounted DEF Nd6Inductive, Right, Linked, RoutersOnce
  <2>2. \A s \in Slots : UseCount(cache, s) > 0 => s \in Elements(cache.keys)
    BY <2>1 DEF KeysRight, UseCount
  <2> QED
    BY <2>1, <2>2 DEF Nd6TypeOK, Tables, KeysRight, Links, RouterRecords, Leftovers
<1> QED
  BY <1>1, Nd6InductiveAlways, PTL

\* The list of routes, its count, the blocks and the lists of next hops agree after every
\* eviction, replacement and removal (uip-ds6-route.c, nbr-table.c).
THEOREM RoutesLinkedAlways == Spec => []RoutesLinked
<1>1. Nd6Inductive => RoutesLinked
  BY DEF Nd6Inductive, Right, Linked, RoutesLinked
<1> QED
  BY <1>1, Nd6InductiveAlways, PTL

\* No address has two entries in the neighbour cache (uip_ds6_nbr_add after a lookup).
THEOREM UniqueAddressAlways == Spec => []UniqueAddress
<1>1. Nd6Inductive => UniqueAddress
  BY DEF Nd6Inductive, Right, Neighbours, UniqueAddress
<1> QED
  BY <1>1, Nd6InductiveAlways, PTL

\* What is sent goes to a link-layer address that the neighbour has announced: na_input,
\* ns_input and ra_input replace addresses in keys that other entries had before.
THEOREM ResolvedAlways == Spec => []Resolved
<1>1. Nd6Inductive => Resolved
  BY DEF Nd6Inductive, Right, Neighbours, EntryFits, Resolved
<1> QED
  BY <1>1, Nd6InductiveAlways, PTL

\* A router is in the list of default routers once (uip_ds6_defrt_add).
THEOREM RoutersDistinctAlways == Spec => []RoutersDistinct
<1>1. Nd6Inductive => RoutersDistinct
  BY DEF Nd6Inductive, Right, RoutersOnce, Distinct, Elements, RoutersDistinct
<1> QED
  BY <1>1, Nd6InductiveAlways, PTL

-----------------------------------------------------------------------------
(* What a step takes away *)

\* The addresses that send solicitations are on the link.
NodesOnLink == Nodes \subseteq OnLink

\* Every neighbour stays in its slot.
Keeps(c, d) == \A s \in Slots :
  c.nbr[s] # Unused => d.nbr[s] # Unused /\ d.nbr[s].ip = c.nbr[s].ip

\* The key of a slot, one of the least used of a full table, is another's.
Taken(c, d, s) == Len(c.keys) = NSlots /\ d.ll[s] # c.ll[s] /\ LeastUsed(c, s)

\* A neighbour goes only with its key, or for one with its link-layer address.
Spares(c, d) == \A s \in Slots :
  c.nbr[s] # Unused =>
    \/ InCache(d, c.nbr[s].ip)
    \/ Taken(c, d, s)
    \/ d.nbr[s] # Unused /\ d.ll[s] = c.ll[s]

\* A step that keeps every neighbour spares every neighbour.
LEMMA KeepsSpares ==
  ASSUME NEW c, NEW d, Keeps(c, d)
  PROVE  Spares(c, d)
BY DEF Keeps, Spares, InCache, NbrSlots

\* A step that spares may be followed by one that keeps.
LEMMA SparesKeeps ==
  ASSUME NEW c, NEW d, NEW e, Spares(c, d), Keeps(d, e), e.ll = d.ll
  PROVE  Spares(c, e)
<1>1. \A a : InCache(d, a) => InCache(e, a)
  BY DEF Keeps, InCache, NbrSlots
<1> QED
  BY <1>1 DEF Keeps, Spares, Taken

\* Or by the emptying of uip_buf.
LEMMA ClearSpares ==
  ASSUME NEW c, NEW d \in Tables, Spares(c, d)
  PROVE  Spares(c, Clear(d))
<1>1. Clear(d).nbr = d.nbr /\ Clear(d).ll = d.ll
  BY DEF Clear, Tables
<1>2. Keeps(d, Clear(d))
  BY <1>1 DEF Keeps
<1> QED
  BY <1>1, <1>2, SparesKeeps

\* A step that does not touch the neighbour cache spares it.
LEMMA SameSpares ==
  ASSUME NEW c, NEW d, d.nbr = c.nbr
  PROVE  Spares(c, d)
<1>1. Keeps(c, d)
  BY DEF Keeps
<1> QED
  BY <1>1, KeepsSpares

\* nbr_table_add_lladdr
LEMMA AddKeySpares ==
  ASSUME NEW c, Right(c), NEW l \in Links
  PROVE  \A t \in Slots : c.nbr[t] # Unused =>
           \/ Taken(c, AddKey(c, l), t)
           \/ AddKey(c, l).nbr[t] = c.nbr[t] /\ AddKey(c, l).ll[t] = c.ll[t]
<1>1. /\ c.keys \in Seq(Slots) /\ Distinct(c.keys) /\ Elements(c.keys) \subseteq Slots
      /\ c.ll \in [Slots -> Links] /\ c \in Tables
  BY DEF Right, Tables, KeysRight, Elements
<1>2. CASE KeyOf(c, l) # None
  BY <1>2 DEF AddKey
<1>3. CASE KeyOf(c, l) = None /\ FreeSlots(c) = {}
  <2> DEFINE v == Victim(c)
             b == Evict(c, v)
  <2>1. Elements(c.keys) = Slots
    BY <1>1, <1>3 DEF FreeSlots
  <2>2. Len(c.keys) = NSlots
    <3>1. Cardinality(Slots) = NSlots
      BY FS_Interval, SizeAssumption DEF Slots
    <3>2. Cardinality(Elements(c.keys)) = Len(c.keys)
      BY <1>1, DistinctLen
    <3> QED
      BY <2>1, <3>1, <3>2
  <2>3. v \in Slots /\ LeastUsed(c, v)
    <3>1. 1 \in Slots
      BY SizeAssumption DEF Slots
    <3> QED
      BY <2>1, <3>1, VictimFacts DEF LeastUsed
  <2>4. AddKey(c, l) = KeyPut(b, v, l)
    BY <1>3 DEF AddKey, KeyPut
  <2>5. c.ll[v] # l
    BY <1>3, <2>1, <2>3, KeyFacts
  <2> HIDE DEF v
  <2>6. b.nbr = [c.nbr EXCEPT ![v] = Unused] /\ b.ll = c.ll /\ b \in Tables
    BY <2>3, EvictRight DEF Right
  <2> HIDE DEF b
  <2>7. /\ KeyPut(b, v, l).nbr = b.nbr /\ KeyPut(b, v, l).ll[v] = l
        /\ \A t \in Slots : t # v => KeyPut(b, v, l).ll[t] = b.ll[t]
    BY <2>3, <2>6 DEF KeyPut, Tables
  <2>8. \A t \in Slots : t # v => b.nbr[t] = c.nbr[t]
    BY <1>1, <2>3, <2>6 DEF Tables
  <2>9. Taken(c, AddKey(c, l), v)
    BY <2>2, <2>3, <2>4, <2>5, <2>7 DEF Taken
  <2> QED
    BY <2>4, <2>6, <2>7, <2>8, <2>9
<1>4. CASE KeyOf(c, l) = None /\ FreeSlots(c) # {}
  <2> DEFINE s == Lowest(FreeSlots(c))
  <2>1. AddKey(c, l) = KeyPut(c, s, l)
    BY <1>4 DEF AddKey, KeyPut
  <2>2. s \in Slots /\ s \notin Elements(c.keys)
    <3>1. FreeSlots(c) \subseteq Nat
      BY NoneApart DEF FreeSlots
    <3>2. s \in FreeSlots(c)
      BY <1>4, <3>1, LowestFacts
    <3> QED
      BY <3>2 DEF FreeSlots
  <2>3. c.nbr[s] = Unused
    BY <2>2 DEF Right, KeysRight
  <2> HIDE DEF s
  <2>4. /\ KeyPut(c, s, l).nbr = c.nbr
        /\ \A t \in Slots : t # s => KeyPut(c, s, l).ll[t] = c.ll[t]
    BY <1>1, <2>2 DEF KeyPut, Tables
  <2> QED
    BY <2>1, <2>3, <2>4
<1> QED
  BY <1>2, <1>3, <1>4

\* uip_ds6_nbr_add evicts only from a full table, and replaces only an entry of the same
\* key.
LEMMA NbrAddSpares ==
  ASSUME NEW c, Right(c), NEW a, NEW l \in Links, NEW isrouter, NEW state, NEW nscount,
         [ip |-> a, state |-> state, isrouter |-> isrouter, nscount |-> nscount] \in Entries
  PROVE  /\ Spares(c, NbrAdd(c, a, l, isrouter, state, nscount))
         /\ InCache(NbrAdd(c, a, l, isrouter, state, nscount), a)
         /\ NbrAdd(c, a, l, isrouter, state, nscount) \in Tables
<1> DEFINE b == AddKey(c, l)
           k == KeyOf(b, l)
           n == [ip |-> a, state |-> state, isrouter |-> isrouter, nscount |-> nscount]
           d == NbrAdd(c, a, l, isrouter, state, nscount)
<1>1. d = [b EXCEPT !.nbr[k] = n]
  BY DEF NbrAdd
<1>2. Right(b) /\ k \in Slots /\ b.ll[k] = l
  BY AddKeyRight
<1>3. \A t \in Slots : c.nbr[t] # Unused =>
        \/ Taken(c, b, t)
        \/ b.nbr[t] = c.nbr[t] /\ b.ll[t] = c.ll[t]
  <2>1. l \in Links /\ Right(c)
    OBVIOUS
  <2> QED
    BY <2>1, AddKeySpares, Zenon
<1>4. n \in Entries /\ n # Unused /\ n.ip = a
  BY UnusedAssumption
<1> HIDE DEF b, k, n
<1>5. b \in Tables
  BY <1>2 DEF Right
<1>6. /\ d \in Tables /\ d.ll = b.ll /\ d.nbr[k] = n
      /\ \A t \in Slots : t # k => d.nbr[t] = b.nbr[t]
  <2> DEFINE N == [b.nbr EXCEPT ![k] = n]
  <2>1. /\ N \in [Slots -> Entries \cup {Unused}] /\ N[k] = n
        /\ \A t \in Slots : t # k => N[t] = b.nbr[t]
    BY <1>2, <1>4, <1>5 DEF Tables
  <2>2. d = [b EXCEPT !.nbr = N]
    BY <1>1
  <2> HIDE DEF N, d
  <2>3. d \in Tables /\ d.ll = b.ll /\ d.nbr = N
    BY <1>5, <2>1, <2>2 DEF Tables
  <2> QED
    BY <2>1, <2>3
<1> HIDE DEF d
<1>7. Spares(c, d)
  <2> SUFFICES ASSUME NEW s \in Slots, c.nbr[s] # Unused, ~Taken(c, d, s)
               PROVE  d.nbr[s] # Unused /\ d.ll[s] = c.ll[s]
    BY DEF Spares
  <2>1. ~Taken(c, b, s)
    BY <1>6 DEF Taken
  <2> QED
    BY <1>3, <1>4, <1>6, <2>1
<1>8. InCache(d, a)
  BY <1>2, <1>4, <1>6 DEF InCache, NbrSlots
<1> QED
  BY <1>6, <1>7, <1>8 DEF d

\* tcpip_ipv6_output adds a neighbour only if its next hop is not one.
LEMMA SendToSpares ==
  ASSUME NEW c, Right(c), NEW hop \in Addrs
  PROVE  /\ Spares(c, SendTo(c, hop))
         /\ InCache(c, hop) => Keeps(c, SendTo(c, hop)) /\ SendTo(c, hop).ll = c.ll
<1> DEFINE s == NbrLookup(c, hop)
           b == NbrAdd(c, hop, NullLL, FALSE, "INCOMPLETE", 1)
           n == [c.nbr[s] EXCEPT !.state = "DELAY", !.nscount = 0]
<1>1. c \in Tables /\ s \in Slots \cup {None}
  BY LookupFacts DEF Right
<1>2. CASE s = None
  <2>1. SendTo(c, hop) = LeftSet(b, "solicitation")
    BY <1>2 DEF SendTo, LeftSet
  <2>2. NbrSlots(c, hop) = {}
    BY <1>2, LookupFacts
  <2>3. /\ [ip |-> hop, state |-> "INCOMPLETE", isrouter |-> FALSE, nscount |-> 1] \in Entries
        /\ NullLL \in Links /\ "INCOMPLETE" \in NbrStates /\ 1 \in Nat
    BY DEF NbrStates, Links, Entries
  <2>4. Spares(c, b) /\ Right(b)
    <3>1. Spares(c, b)
      BY <2>3, NbrAddSpares
    <3>2. Right(b)
      BY <2>2, <2>3, NbrAddRight
    <3> QED
      BY <3>1, <3>2
  <2> HIDE DEF b
  <2>5. LeftSet(b, "solicitation").nbr = b.nbr /\ LeftSet(b, "solicitation").ll = b.ll
    BY <2>4 DEF LeftSet, Right, Tables
  <2>6. Spares(c, LeftSet(b, "solicitation"))
    BY <2>4, <2>5 DEF Spares, Taken, InCache, NbrSlots
  <2> QED
    BY <2>1, <2>2, <2>6 DEF InCache
<1>3. CASE s # None /\ c.nbr[s].state = "STALE"
  <2>1. s \in Slots /\ c.nbr[s] \in Entries /\ c.nbr[s] # Unused
    BY <1>1, <1>3, LookupFacts
  <2>2. SendTo(c, hop) = LeftSet(EntrySet(c, s, c.ll[s], n), None)
    BY <1>1, <1>3, <2>1 DEF SendTo, LeftSet, EntrySet, Tables
  <2>3. n \in Entries /\ n.ip = c.nbr[s].ip /\ n # Unused
    <3>1. n \in Entries /\ n.ip = c.nbr[s].ip
      BY <2>1 DEF Entries, NbrStates
    <3> QED
      BY <3>1, UnusedAssumption
  <2> HIDE DEF n, s
  <2>4. /\ SendTo(c, hop).ll = c.ll /\ SendTo(c, hop).nbr[s] = n
        /\ \A t \in Slots : t # s => SendTo(c, hop).nbr[t] = c.nbr[t]
    BY <1>1, <2>1, <2>2 DEF LeftSet, EntrySet, Tables
  <2>5. Keeps(c, SendTo(c, hop))
    BY <2>3, <2>4 DEF Keeps
  <2> QED
    BY <2>4, <2>5, KeepsSpares
<1>4. CASE s # None /\ c.nbr[s].state # "STALE"
  <2>1. SendTo(c, hop) = LeftSet(c, None)
    BY <1>4 DEF SendTo, LeftSet
  <2>2. SendTo(c, hop).nbr = c.nbr /\ SendTo(c, hop).ll = c.ll
    BY <1>1, <2>1 DEF LeftSet, Tables
  <2>3. Keeps(c, SendTo(c, hop))
    BY <2>2 DEF Keeps
  <2> QED
    BY <2>2, <2>3, KeepsSpares
<1> QED
  BY <1>2, <1>3, <1>4

\* So does the whole way from the choice of a next hop.
LEMMA OutputSpares ==
  ASSUME NEW c, Right(c), NEW dst \in Addrs
  PROVE  Spares(c, Output(c, dst))
<1> DEFINE r == RouteFor(c, dst)
           d == Touch(c, r)
           hop == IF r = None THEN DefrtChoose(c) ELSE Nexthop(d, r)
<1>1. r \in Elements(c.routes) \cup {None}
  BY RouteForFacts
<1>2. Output(c, dst) = IF dst \in OnLink THEN SendTo(c, dst)
                       ELSE IF hop # None THEN SendTo(d, hop)
                       ELSE IF r # None THEN LeftSet(RouteRm(d, r), dst)
                       ELSE LeftSet(c, None)
  BY DEF Output, LeftSet
<1> HIDE DEF r
<1>3. /\ Right(d) /\ Elements(d.routes) = Elements(c.routes)
      /\ d.nbr = c.nbr /\ d.ll = c.ll /\ d.keys = c.keys /\ d.hops = c.hops
  <2>1. Right(d) /\ Elements(d.routes) = Elements(c.routes) /\ d = [c EXCEPT !.routes = d.routes]
    BY <1>1, TouchRight
  <2> QED
    BY <2>1 DEF Right, Tables
<1> HIDE DEF d
<1>4. hop \in Addrs \cup {None}
  BY <1>3, DefrtChooseFacts, NexthopFacts
<1> HIDE DEF hop
<1>5. CASE dst \in OnLink
  BY <1>2, <1>5, SendToSpares
<1>6. CASE dst \notin OnLink /\ hop # None
  <2>1. Spares(d, SendTo(d, hop))
    BY <1>3, <1>4, <1>6, SendToSpares
  <2>2. Spares(c, SendTo(d, hop))
    BY <1>3, <2>1 DEF Spares, Taken, LeastUsed, UseCount
  <2> QED
    BY <1>2, <1>6, <2>2
<1>7. CASE dst \notin OnLink /\ hop = None
  <2>1. r # None => Right(RouteRm(d, r)) /\ RouteRm(d, r).nbr = c.nbr
    BY <1>1, <1>3, RouteRmRight
  <2>2. Output(c, dst).nbr = c.nbr
    BY <1>2, <1>7, <2>1, LeftRight DEF Leftovers
  <2> QED
    BY <2>2, SameSpares
<1> QED
  BY <1>5, <1>6, <1>7

\* A source that is heard spares the others, and is in the cache after.
LEMMA HearSourceSpares ==
  ASSUME NEW c, Right(c), NEW src \in Addrs, NEW l \in Owns[src], NEW isrouter \in BOOLEAN
  PROVE  /\ Spares(c, HearSource(c, src, l, isrouter))
         /\ InCache(HearSource(c, src, l, isrouter), src)
<1> DEFINE s == NbrLookup(c, src)
           n == [c.nbr[s] EXCEPT !.state = "STALE"]
           d == HearSource(c, src, l, isrouter)
<1>1. c \in Tables /\ s \in Slots \cup {None} /\ l \in Links
  BY LookupFacts, OwnsAssumption DEF Right, Links
<1>2. CASE s = None
  <2>1. [ip |-> src, state |-> "STALE", isrouter |-> isrouter, nscount |-> 0] \in Entries
    BY DEF Entries, NbrStates
  <2>2. d = NbrAdd(c, src, l, isrouter, "STALE", 0)
    BY <1>2 DEF HearSource
  <2> QED
    BY <1>1, <2>1, <2>2, NbrAddSpares
<1>3. CASE s # None
  <2>1. /\ s \in Slots /\ c.nbr[s] \in Entries /\ c.nbr[s] # Unused /\ c.nbr[s].ip = src
        /\ s \in NbrSlots(c, src)
    BY <1>1, <1>3, LookupFacts
  <2>2. d = c \/ d = EntrySet(c, s, l, n)
    BY <1>1, <1>3 DEF HearSource, Moved, EntrySet
  <2>3. n.ip = c.nbr[s].ip /\ n # Unused
    <3>1. n \in Entries /\ n.ip = c.nbr[s].ip
      BY <2>1 DEF Entries, NbrStates
    <3> QED
      BY <3>1, UnusedAssumption
  <2> HIDE DEF n, s, d
  <2>4. /\ d.nbr[s] \in {n, c.nbr[s]}
        /\ \A t \in Slots : t # s => d.nbr[t] = c.nbr[t]
    <3>1. d.nbr = c.nbr \/ d.nbr = [c.nbr EXCEPT ![s] = n]
      BY <1>1, <2>2 DEF EntrySet, Tables
    <3> QED
      BY <1>1, <2>1, <3>1 DEF Tables
  <2>5. Keeps(c, d)
    BY <2>3, <2>4 DEF Keeps
  <2>6. InCache(d, src)
    BY <2>1, <2>5 DEF Keeps, InCache, NbrSlots
  <2> QED
    BY <2>5, <2>6, KeepsSpares DEF d
<1> QED
  BY <1>2, <1>3

\* An entry that changes stays the entry of its address.
LEMMA EntryKeeps ==
  ASSUME NEW c, Right(c), NEW s \in Slots, c.nbr[s] # Unused, NEW l, NEW n \in Entries,
         n.ip = c.nbr[s].ip
  PROVE  Keeps(c, EntrySet(c, s, l, n))
<1>1. c \in Tables /\ n # Unused
  BY UnusedAssumption DEF Right
<1>2. EntrySet(c, s, l, n).nbr = [c.nbr EXCEPT ![s] = n]
  BY <1>1 DEF EntrySet, Tables
<1>3. \A t \in Slots : EntrySet(c, s, l, n).nbr[t] = IF t = s THEN n ELSE c.nbr[t]
  BY <1>1, <1>2 DEF Tables
<1> QED
  BY <1>1, <1>3 DEF Keeps

\* So it does when its neighbour becomes a router.
LEMMA IsRouterKeeps ==
  ASSUME NEW c, Right(c), NEW s \in Slots \cup {None}
  PROVE  Keeps(c, IsRouter(c, s))
<1> DEFINE n == [c.nbr[s] EXCEPT !.isrouter = TRUE]
<1>1. CASE s # None /\ c.nbr[s] # Unused
  <2>1. c \in Tables /\ s \in Slots /\ c.nbr[s] \in Entries
    BY <1>1 DEF Right, Tables
  <2>2. IsRouter(c, s) = EntrySet(c, s, c.ll[s], n)
    BY <1>1, <2>1 DEF IsRouter, EntrySet, Tables
  <2>3. n \in Entries /\ n.ip = c.nbr[s].ip
    BY <2>1 DEF Entries
  <2> HIDE DEF n
  <2> QED
    BY <1>1, <2>1, <2>2, <2>3, EntryKeeps
<1>2. CASE s = None \/ c.nbr[s] = Unused
  BY <1>2 DEF IsRouter, Keeps
<1> QED
  BY <1>1, <1>2

\* A tick takes only neighbours whose solicitations are used up.
LEMMA PeriodicSpares ==
  ASSUME Right(cache), NEW expired, NEW dead, NEW busy, Periodic(expired, dead, busy),
         NEW s \in Slots
  PROVE  Kept(s)
<1> DEFINE d == DefrtRm(cache, dead)
           b == DefrtRm(d, DeadRouters(d))
           asker == IF cache.left # None \/ busy THEN None ELSE Solicitor(d, expired)
           aged == Passed(d, b, expired, asker)
           packet == IF asker # None THEN d.nbr[asker].ip ELSE cache.left
           unicast == IF asker # None THEN d.nbr[asker].state = "PROBE" ELSE cache.left \in Addrs
<1>1. cache' = IF unicast THEN Output(aged, packet) ELSE Clear(aged)
  BY DEF Periodic, Passed
<1>2. /\ Right(d) /\ d.nbr = cache.nbr /\ d.ll = cache.ll /\ d.keys = cache.keys
      /\ d.hops = cache.hops
  BY DefrtRmRight
<1>3. unicast => packet \in Addrs
  <2>1. asker # None => d.nbr[asker] \in Entries
    BY <1>2, SolicitorFacts
  <2> QED
    BY <2>1 DEF Entries
<1> HIDE DEF d, asker
<1>4. Right(b) /\ b.nbr = d.nbr /\ b.ll = d.ll /\ b.keys = d.keys /\ b.hops = d.hops
  BY <1>2, DefrtRmRight
<1> HIDE DEF b
<1>5. Right(aged)
  BY <1>2, <1>4, AgedRight
<1>6. aged.ll = cache.ll /\ aged.keys = cache.keys /\ aged.hops = cache.hops
      /\ aged.nbr = [t \in Slots |-> Aged(d, t, expired, t = asker)]
  BY <1>2, <1>4 DEF Passed, Right, Tables
<1> HIDE DEF aged, unicast, packet
<1>7. Spares(aged, cache')
  <2>1. unicast => Spares(aged, Output(aged, packet))
    BY <1>3, <1>5, OutputSpares
  <2>2. Spares(aged, Clear(aged))
    BY <1>5, SameSpares, ClearSpares DEF Right
  <2> QED
    BY <1>1, <2>1, <2>2
<1> DEFINE stays == aged.nbr[s] # Unused /\ aged.nbr[s].ip = cache.nbr[s].ip
<1>8. ASSUME cache.nbr[s] # Unused, stays PROVE Taken(aged, cache', s) => Taken(cache, cache', s)
  <2>1. \A t \in Slots : cache.nbr[t] = Unused => aged.nbr[t] = Unused
    BY <1>2, <1>6 DEF Aged
  <2>2. /\ UseCount(aged, s) = UseCount(cache, s)
        /\ \A t \in Slots : UseCount(aged, t) <= UseCount(cache, t)
    BY <1>6, <1>8, <2>1 DEF UseCount
  <2>3. \A t \in Slots : UseCount(cache, t) \in Nat /\ UseCount(aged, t) \in Nat
    BY DEF UseCount
  <2> QED
    BY <1>6, <2>2, <2>3 DEF Taken, LeastUsed
<1>9. SUFFICES ASSUME cache.nbr[s] # Unused, ~Tried(cache, s)
               PROVE  stays
  BY <1>6, <1>7, <1>8 DEF Kept, Spares, Taken
<1>10. ~Tried(d, s)
  BY <1>2, <1>9 DEF Tried
<1>11. cache.nbr[s] \in Entries
  BY <1>9 DEF Right, Tables
<1> DEFINE n == cache.nbr[s]
           m1 == [n EXCEPT !.nscount = n.nscount + 1]
           m2 == [n EXCEPT !.state = "STALE"]
           m3 == [n EXCEPT !.state = "PROBE", !.nscount = 0]
<1>12. aged.nbr[s] \in {n, m1, m2, m3}
  <2>1. aged.nbr[s] = Aged(d, s, expired, s = asker) /\ d.nbr[s] = n /\ n # Unused
    BY <1>2, <1>6, <1>9
  <2> HIDE DEF n
  <2> QED
    BY <1>10, <2>1 DEF Aged
<1>13. \A m \in {n, m1, m2, m3} : m \in Entries /\ m.ip = n.ip
  <2> HIDE DEF n
  <2>1. n \in Entries
    BY <1>11 DEF n
  <2>2. m1 \in Entries /\ m1.ip = n.ip
    BY <2>1 DEF Entries
  <2>3. m2 \in Entries /\ m2.ip = n.ip
    BY <2>1 DEF Entries, NbrStates
  <2>4. m3 \in Entries /\ m3.ip = n.ip
    BY <2>1 DEF Entries, NbrStates
  <2> QED
    BY <2>1, <2>2, <2>3, <2>4
<1> HIDE DEF n, m1, m2, m3
<1> QED
  BY <1>12, <1>13, UnusedAssumption DEF n

\* ns_input adds one neighbour at most: its answer goes to the source it has heard.
LEMMA SolicitationSpares ==
  ASSUME Right(cache), NodesOnLink, NEW src \in Nodes, NEW forUs \in BOOLEAN,
         NEW l \in Owns[src] \cup {NoOpt}, NsInput(src, l, forUs)
  PROVE  Spares(cache, cache')
<1> DEFINE d == IF l = NoOpt THEN cache ELSE HearSource(cache, src, l, FALSE)
           e == IF forUs THEN Output(d, src) ELSE d
<1>0. src \in Addrs /\ src \in OnLink
  BY DEF Nodes, NodesOnLink
<1>1. cache' = Clear(e)
  BY DEF NsInput
<1>2. Right(d) /\ Right(e)
  <2>1. Right(d)
    <3>1. l # NoOpt => l \in Owns[src]
      OBVIOUS
    <3> QED
      BY <1>0, <3>1, HearSourceRight
  <2> HIDE DEF d
  <2> QED
    BY <1>0, <2>1, OutputRight
<1>3. Spares(cache, e)
  <2>1. CASE l = NoOpt
    <3>1. e = cache \/ e = Output(cache, src)
      BY <2>1
    <3>2. Spares(cache, cache) /\ Spares(cache, Output(cache, src))
      BY <1>0, SameSpares, OutputSpares
    <3> QED
      BY <3>1, <3>2
  <2>2. CASE l # NoOpt
    <3>1. Spares(cache, d) /\ InCache(d, src)
      BY <1>0, <2>2, HearSourceSpares
    <3>2. Output(d, src) = SendTo(d, src)
      BY <1>0 DEF Output
    <3> HIDE DEF d
    <3>3. Keeps(d, SendTo(d, src)) /\ SendTo(d, src).ll = d.ll
      BY <1>0, <1>2, <3>1, SendToSpares
    <3>4. Spares(cache, SendTo(d, src))
      BY <3>1, <3>3, SparesKeeps
    <3> QED
      BY <3>1, <3>2, <3>4
  <2> QED
    BY <2>1, <2>2
<1> HIDE DEF e, d
<1> QED
  BY <1>1, <1>2, <1>3, ClearSpares DEF Right

\* rs_input removes only the entry that it adds again.
LEMMA RouterSolicitationSpares ==
  ASSUME Right(cache), NEW src \in Addrs, NEW l \in Owns[src], RsInput(src, l)
  PROVE  Spares(cache, cache')
<1> DEFINE s == NbrLookup(cache, src)
           fresh == NbrAdd(cache, src, l, FALSE, "STALE", 0)
           bare == NbrRm(cache, s)
           moved == NbrAdd(bare, src, l, FALSE, "STALE", cache.nbr[s].nscount)
           n == [cache.nbr[s] EXCEPT !.isrouter = FALSE]
           same == [cache EXCEPT !.nbr[s].isrouter = FALSE]
           e == IF s = None THEN fresh ELSE IF cache.ll[s] # l THEN moved ELSE same
<1>1. cache' = Clear(e)
  BY DEF RsInput
<1>2. l \in Links /\ cache \in Tables /\ cache.nbr \in [Slots -> Entries \cup {Unused}]
  BY OwnsAssumption DEF Links, Right, Tables
<1>3. Spares(cache, fresh) /\ fresh \in Tables
  <2>1. [ip |-> src, state |-> "STALE", isrouter |-> FALSE, nscount |-> 0] \in Entries
    BY DEF Entries, NbrStates
  <2> QED
    BY <1>2, <2>1, NbrAddSpares
<1>4. ASSUME s # None PROVE /\ Spares(cache, moved) /\ Spares(cache, same)
                                /\ moved \in Tables /\ same \in Tables
  <2>1. /\ s \in Slots /\ cache.nbr[s] \in Entries /\ cache.nbr[s] # Unused
        /\ cache.nbr[s].ip = src
    BY <1>4, LookupFacts
  <2> HIDE DEF s
  <2>2. Right(bare) /\ bare.nbr = [cache.nbr EXCEPT ![s] = Unused]
    BY <2>1, NbrRmRight
  <2>3. bare.ll = cache.ll /\ bare.keys = cache.keys /\ bare.hops = cache.hops
    BY <1>2 DEF NbrRm, Tables
  <2> HIDE DEF bare
  <2>4. [ip |-> src, state |-> "STALE", isrouter |-> FALSE,
         nscount |-> cache.nbr[s].nscount] \in Entries
    BY <2>1 DEF Entries, NbrStates
  <2>5. Spares(bare, moved) /\ InCache(moved, src) /\ moved \in Tables
    BY <1>2, <2>2, <2>4, NbrAddSpares
  <2> HIDE DEF moved
  <2>6. Spares(cache, moved)
    <3>1. \A t \in Slots : t # s => bare.nbr[t] = cache.nbr[t]
      BY <1>2, <2>1, <2>2
    <3>2. /\ \A t \in Slots : UseCount(bare, t) <= UseCount(cache, t)
          /\ \A t \in Slots : t # s => UseCount(bare, t) = UseCount(cache, t)
          /\ \A t \in Slots : UseCount(cache, t) \in Nat /\ UseCount(bare, t) \in Nat
      BY <1>2, <2>1, <2>2, <2>3 DEF UseCount
    <3>3. ASSUME NEW t \in Slots, t # s, Taken(bare, moved, t) PROVE Taken(cache, moved, t)
      BY <2>1, <2>3, <3>2, <3>3 DEF Taken, LeastUsed
    <3> QED
      BY <2>1, <2>3, <2>5, <3>1, <3>3 DEF Spares
  <2>7. same = EntrySet(cache, s, cache.ll[s], n)
    BY <1>2, <2>1 DEF EntrySet, Tables
  <2>8. n \in Entries /\ n.ip = cache.nbr[s].ip
    BY <2>1 DEF Entries
  <2> HIDE DEF n, same
  <2>9. EntrySet(cache, s, cache.ll[s], n) \in Tables
    BY <1>2, <2>1, <2>8 DEF EntrySet, Tables
  <2> QED
    BY <2>1, <2>5, <2>6, <2>7, <2>8, <2>9, EntryKeeps, KeepsSpares
<1>5. Spares(cache, e) /\ e \in Tables
  <2> HIDE DEF s, fresh, moved, same
  <2> QED
    BY <1>3, <1>4
<1> HIDE DEF e
<1> QED
  BY <1>1, <1>5, ClearSpares

\* na_input changes one entry, and perhaps the default routers.
LEMMA AdvertisementSpares ==
  ASSUME Right(cache), NEW target \in Addrs, NEW src \in Addrs,
         NEW l \in Owns[target] \cup {NoOpt}, NEW solicited \in BOOLEAN, NEW override \in BOOLEAN,
         NEW isrouter \in BOOLEAN, NaInput(target, src, l, solicited, override, isrouter)
  PROVE  Spares(cache, cache')
<1> DEFINE s == NbrLookup(cache, target)
           d == NaAccept(cache, s, l, solicited, override, isrouter)
<1>1. \/ s = None /\ cache' = Clear(cache)
      \/ s # None /\ cache' \in {Clear(d), Clear(DefrtRm(d, {src}))}
  BY DEF NaInput
<1>2. CASE s = None
  BY <1>1, <1>2, SameSpares, ClearSpares DEF Right
<1>3. CASE s # None
  <2>1. Right(d) /\ (\/ d = cache
                     \/ \E k \in Links, n \in Entries : d = EntrySet(cache, s, k, n) /\ n.ip = target)
    BY <1>3, NaAcceptForm, NaAcceptRight
  <2>2. s \in Slots /\ cache.nbr[s] # Unused /\ cache.nbr[s].ip = target
    BY <1>3, LookupFacts
  <2> HIDE DEF d, s
  <2>3. \A k \in Links, n \in Entries : n.ip = target => Keeps(cache, EntrySet(cache, s, k, n))
    BY <2>2, EntryKeeps
  <2>4. Spares(cache, d)
    BY <2>1, <2>3, KeepsSpares, SameSpares
  <2>5. Right(DefrtRm(d, {src})) /\ DefrtRm(d, {src}).nbr = d.nbr /\ DefrtRm(d, {src}).ll = d.ll
    BY <2>1, DefrtRmRight
  <2>6. Spares(cache, DefrtRm(d, {src}))
    BY <2>4, <2>5 DEF Spares, Taken, InCache, NbrSlots
  <2> QED
    BY <1>1, <1>3, <2>1, <2>4, <2>5, <2>6, ClearSpares DEF Right
<1> QED
  BY <1>2, <1>3

\* ra_input hears its source, and changes one entry after that.
LEMMA RouterAdvertisementSpares ==
  ASSUME Right(cache), last \in Slots \cup {None}, NEW src \in Addrs, NEW l \in Owns[src] \cup {NoOpt},
         NEW lifetime \in BOOLEAN, RaInput(src, l, lifetime)
  PROVE  Spares(cache, cache')
<1> DEFINE h == HearSource(cache, src, l, TRUE)
           heard == IF l = NoOpt THEN cache ELSE IsRouter(h, NbrLookup(h, src))
           nbr == IF l = NoOpt THEN last ELSE NbrLookup(heard, src)
           lived == IF src \in Routers(heard) THEN heard ELSE DefrtAdd(heard, src, FALSE)
           e == IF lifetime THEN IsRouter(lived, nbr) ELSE DefrtRm(heard, {src})
<1>1. cache' = Clear(e)
  BY DEF RaInput
<1>2. Right(heard) /\ Spares(cache, heard)
  <2>1. CASE l = NoOpt
    BY <2>1, SameSpares
  <2>2. CASE l # NoOpt
    <3>1. Right(h) /\ Spares(cache, h)
      BY <2>2, HearSourceRight, HearSourceSpares
    <3> HIDE DEF h
    <3>2. NbrLookup(h, src) \in Slots \cup {None}
      BY <3>1, LookupFacts
    <3>3. Right(IsRouter(h, NbrLookup(h, src))) /\ Keeps(h, IsRouter(h, NbrLookup(h, src)))
      BY <3>1, <3>2, IsRouterRight, IsRouterKeeps
    <3>4. IsRouter(h, NbrLookup(h, src)).ll = h.ll
      BY <3>1 DEF IsRouter, Right, Tables
    <3> QED
      BY <2>2, <3>1, <3>3, <3>4, SparesKeeps
  <2> QED
    BY <2>1, <2>2
<1> HIDE DEF heard
<1>3. nbr \in Slots \cup {None}
  BY <1>2, LookupFacts
<1>4. Right(lived) /\ lived.nbr = heard.nbr /\ lived.ll = heard.ll
  BY <1>2, DefrtAddRight
<1> HIDE DEF nbr, lived
<1>5. Right(IsRouter(lived, nbr)) /\ Keeps(heard, IsRouter(lived, nbr))
      /\ IsRouter(lived, nbr).ll = heard.ll
  <2>1. Right(IsRouter(lived, nbr)) /\ Keeps(lived, IsRouter(lived, nbr))
    BY <1>3, <1>4, IsRouterRight, IsRouterKeeps
  <2>2. IsRouter(lived, nbr).ll = lived.ll
    BY <1>4 DEF IsRouter, Right, Tables
  <2> QED
    BY <1>4, <2>1, <2>2 DEF Keeps
<1>6. Right(DefrtRm(heard, {src})) /\ Keeps(heard, DefrtRm(heard, {src}))
      /\ DefrtRm(heard, {src}).ll = heard.ll
  BY <1>2, DefrtRmRight DEF Keeps
<1>7. Right(e) /\ Spares(cache, e)
  BY <1>2, <1>5, <1>6, SparesKeeps
<1> HIDE DEF e
<1> QED
  BY <1>1, <1>7, ClearSpares DEF Right

\* A neighbour leaves the cache only when it does not answer, for an entry with its
\* link-layer address, or with its key, one of the least used of a full table, which goes to
\* another address (nbr_table_allocate, uip_ds6_neighbor_periodic).
\* The nodes that send are on the link: the answer to one that is not goes to a router,
\* which needs a second key when the first has filled the table.
THEOREM LosesNoneAlways == NodesOnLink => (Spec => LosesNone)
<1> SUFFICES ASSUME NodesOnLink PROVE Spec => LosesNone
  OBVIOUS
<1>1. ASSUME Nd6Inductive, [Next]_vars
      PROVE  [\A s \in Slots : Kept(s)]_vars
  <2>0. Right(cache) /\ last \in Slots \cup {None} /\ Nodes \subseteq Addrs
        /\ Hops \subseteq Addrs /\ RouterAddrs \subseteq Addrs
    BY <1>1, HopAssumption DEF Nd6Inductive, Nodes
  <2>1. ASSUME Spares(cache, cache') PROVE \A s \in Slots : Kept(s)
    BY <2>1 DEF Spares, Kept, Taken
  <2>2. ASSUME NEW dst \in Addrs, Send(dst) PROVE Spares(cache, cache')
    <3>1. Right(Output(cache, dst)) /\ Spares(cache, Output(cache, dst))
      BY <2>0, OutputRight, OutputSpares
    <3> QED
      BY <2>2, <3>1, ClearSpares DEF Send, Right
  <2>3. CASE Hear
    <3>1. ASSUME NEW src \in Nodes, NEW forUs \in BOOLEAN, NEW l \in Owns[src] \cup {NoOpt},
                 NsInput(src, l, forUs)
          PROVE  Spares(cache, cache')
      BY <2>0, <3>1, SolicitationSpares
    <3>2. ASSUME NEW target \in Nodes, NEW src \in Nodes, NEW l \in Owns[target] \cup {NoOpt},
                 NEW solicited \in BOOLEAN, NEW override \in BOOLEAN, NEW isrouter \in BOOLEAN,
                 NaInput(target, src, l, solicited, override, isrouter)
          PROVE  Spares(cache, cache')
      BY <2>0, <3>2, AdvertisementSpares
    <3>3. ASSUME NEW src \in Nodes, NEW l \in Owns[src], RsInput(src, l)
          PROVE  Spares(cache, cache')
      BY <2>0, <3>3, RouterSolicitationSpares
    <3>4. ASSUME NEW src \in RouterAddrs, NEW lifetime \in BOOLEAN,
                 NEW l \in Owns[src] \cup {NoOpt}, RaInput(src, l, lifetime)
          PROVE  Spares(cache, cache')
      BY <2>0, <3>4, RouterAdvertisementSpares
    <3>5. Spares(cache, cache')
      <4>a. CASE \E src \in Nodes, forUs \in BOOLEAN : \E l \in Owns[src] \cup {NoOpt} : NsInput(src, l, forUs)
        BY <3>1, <4>a
      <4>b. CASE \E target, src \in Nodes : \E l \in Owns[target] \cup {NoOpt} :
                 \E solicited, override, isrouter \in BOOLEAN :
                   NaInput(target, src, l, solicited, override, isrouter)
        BY <3>2, <4>b
      <4>c. CASE \E src \in Nodes : \E l \in Owns[src] : RsInput(src, l)
        BY <3>3, <4>c
      <4>d. CASE \E src \in RouterAddrs, lifetime \in BOOLEAN : \E l \in Owns[src] \cup {NoOpt} :
                 RaInput(src, l, lifetime)
        BY <3>4, <4>d
      <4> QED
        BY <2>3, <4>a, <4>b, <4>c, <4>d DEF Hear
    <3> QED
      BY <2>1, <3>5
  <2>4. CASE Tick
    <3>1. PICK expired, dead, busy : Periodic(expired, dead, busy)
      BY <2>4 DEF Tick
    <3> QED
      BY <2>0, <3>1, PeriodicSpares
  <2>5. CASE Apply
    <3>1. ASSUME NEW hop \in Hops, RmRoutesBy(hop) PROVE cache'.nbr = cache.nbr
      <4> DEFINE s == NbrLookup(cache, hop)
                 k == KeyOf(cache, IF s = None THEN NullLL ELSE cache.ll[s])
      <4>1. k # None /\ cache' = RmRouteList(cache, k)
        BY <3>1 DEF RmRoutesBy
      <4>2. k \in Slots
        BY <2>0, <4>1, KeyFacts
      <4> HIDE DEF k
      <4> QED
        BY <2>0, <4>1, <4>2, RmRouteListRight
    <3>2. ASSUME NEW hop \in Hops, NEW dest \in Dests, NEW a \in dest, AddRoute(a, dest, hop)
          PROVE  cache'.nbr = cache.nbr
      BY <2>0, <3>2, RouteAddRight DEF AddRoute
    <3>3. ASSUME NEW a \in RouterAddrs, AddRouter(a) PROVE cache'.nbr = cache.nbr
      BY <2>0, <3>3, DefrtAddRight DEF AddRouter
    <3>4. cache'.nbr = cache.nbr
      BY <2>5, <3>1, <3>2, <3>3 DEF Apply
    <3> QED
      BY <2>1, <3>4, SameSpares
  <2> QED
    BY <1>1, <2>1, <2>2, <2>3, <2>4, <2>5 DEF Next
<1>2. Nd6Inductive /\ [Next]_vars => [\A s \in Slots : Kept(s)]_vars
  BY <1>1
<1> QED
  BY <1>2, Nd6InductiveAlways, PTL DEF Spec, LosesNone
=============================================================================
