------------------------------ MODULE Ds6Addr ------------------------------
(***************************************************************************)
(* The addresses of IPv6 nodes on one link: uip-ds6.c, and what uip-nd6.c  *)
(* does for duplicate address detection and for router and prefix          *)
(* discovery.  The network thread of a node does one thing at a time: a    *)
(* turn of the loop of uip_ds6_periodic, or a message.  The link delivers  *)
(* what is sent, in any order; timers run out at any time, but the one of  *)
(* a solicitation waits for the answers.  Prefixes are disjoint, and an    *)
(* address is a prefix and an interface identifier.  Lifetimes and the two *)
(* hours of uip-nd6.c have a common unit.                                  *)
(***************************************************************************)
EXTENDS Naturals, FiniteSets

CONSTANTS
  Hosts, RouterNodes,  \* nodes without and with UIP_CONF_ROUTER
  Iid,                 \* the interface identifier that the link address of a node gives
  LinkPrefix,          \* fe80::/64
  Prefixes,            \* others that routers advertise
  AddrNb, PrefixNb,    \* UIP_DS6_ADDR_NB, UIP_DS6_PREFIX_NB
  MaxDadNs,            \* uip_ds6_if.maxdadns
  MaxRs,               \* UIP_ND6_MAX_RTR_SOLICITATIONS
  MaxInitialRas,       \* UIP_ND6_MAX_INITIAL_RAS
  Options, TwoHours,   \* what routers advertise: a prefix, with its flags and valid
                       \* lifetime, and whether they are a default router
  Links,               \* the sets of nodes that may share a link
  MaxTold              \* bound: options and calls of an application

AddrNodes == Hosts \cup RouterNodes
Infinite == 100

ASSUME Ds6Assumption ==
  /\ Hosts \cap RouterNodes = {} /\ LinkPrefix \notin Prefixes
  /\ Options \subseteq [pfx : Prefixes, flags : SUBSET {"onlink", "auto"},
                       valid : 0 .. Infinite, router : BOOLEAN]
  /\ AddrNb \in Nat \ {0} /\ PrefixNb \in Nat \ {0} /\ MaxDadNs \in Nat \ {0}
  /\ MaxRs \in Nat /\ MaxInitialRas \in Nat /\ MaxTold \in Nat
  /\ TwoHours \in Nat \ {0} /\ Links \subseteq SUBSET (Hosts \cup RouterNodes)

Addresses == [pfx : Prefixes \cup {LinkPrefix}, iid : {Iid[n] : n \in AddrNodes}]

VARIABLES
  addrs,     \* addr_list of a node: the addresses in use, each with its fields
  groups,    \* maddr_list: the identifiers whose solicited-node group it is in
  onlink,    \* uip_ds6_prefix_list: the prefixes in use with isinfinite and vlifetime
  rs,        \* uip_ds6_timer_rs is set, rscount, and a default router is known
  racount,   \* of a router
  link,      \* messages to a node
  up,        \* the nodes on this link
  told       \* options that routers sent, and calls of applications

ds6vars == <<addrs, groups, onlink, rs, racount, link, up, told>>

-----------------------------------------------------------------------------
(* The lists *)

\* stimer_set, and no timer for an infinite lifetime
Life(valid, left) ==
  [inf |-> valid = Infinite, left |-> IF valid = Infinite THEN left ELSE valid]

\* uip_ds6_addr_add, with the group of the address
WithAddr(as, a, valid, auto) ==
  IF a \in DOMAIN as \/ Cardinality(DOMAIN as) = AddrNb THEN as
  ELSE [b \in DOMAIN as \cup {a} |->
          IF b \in DOMAIN as THEN as[b]
          ELSE [st |-> "TENTATIVE", dad |-> 0, auto |-> auto, life |-> Life(valid, 0)]]

\* uip_ds6_addr_rm
WithoutAddr(as, a) == [b \in DOMAIN as \ {a} |-> as[b]]

SetAddrs(n, as) ==
  /\ addrs' = [addrs EXCEPT ![n] = as]
  /\ groups' = [groups EXCEPT ![n] =
       (@ \ {a.iid : a \in DOMAIN addrs[n] \ DOMAIN as})
       \cup {a.iid : a \in DOMAIN as \ DOMAIN addrs[n]}]

\* uip_ds6_get_link_local(ADDR_PREFERRED): what uip_ds6_select_src takes for messages
\* to a group
LinkSource(n) ==
  \E a \in DOMAIN addrs[n] : a.pfx = LinkPrefix /\ addrs[n][a].st = "PREFERRED"

Frames(n, type, tgt, to) == {[type |-> type, tgt |-> tgt, from |-> n, to |-> m] : m \in (to \cap up) \ {n}}

LinkLocalOf(n) == [pfx |-> LinkPrefix, iid |-> Iid[n]]

\* uip_ds6_init
Ds6Init ==
  /\ addrs = [n \in AddrNodes |->
       [a \in {LinkLocalOf(n)} |->
         [st |-> "TENTATIVE", dad |-> 0, auto |-> TRUE, life |-> Life(Infinite, 0)]]]
  /\ groups = [n \in AddrNodes |-> {Iid[n]}]
  /\ onlink = [n \in AddrNodes |-> [p \in {LinkPrefix} |-> Life(Infinite, 0)]]
  /\ rs = [n \in Hosts |-> [on |-> TRUE, count |-> 0, router |-> FALSE]]
  /\ racount = [n \in RouterNodes |-> 0]
  /\ link = {} /\ up \in Links /\ told = 0

-----------------------------------------------------------------------------
(* uip_ds6_periodic *)

\* An address whose lifetime is over
AddrExpires(n) ==
  /\ \E a \in DOMAIN addrs[n] :
       /\ addrs[n][a].life.left = 0 /\ ~addrs[n][a].life.inf
       /\ SetAddrs(n, WithoutAddr(addrs[n], a))
  /\ UNCHANGED <<onlink, rs, racount, link, up, told>>

PrefixExpires(n) ==
  /\ n \in Hosts
  /\ \E p \in DOMAIN onlink[n] :
       /\ onlink[n][p].left = 0 /\ ~onlink[n][p].inf
       /\ onlink' = [onlink EXCEPT ![n] = [q \in DOMAIN @ \ {p} |-> @[q]]]
  /\ UNCHANGED <<addrs, groups, rs, racount, link, up, told>>

\* dadtimer has run out: for the first solicitation at any time, then after all answers.
DadDue(n, a) ==
  /\ a \in DOMAIN addrs[n] /\ addrs[n][a].st = "TENTATIVE"
  /\ addrs[n][a].life.left > 0 \/ addrs[n][a].life.inf
  /\ addrs[n][a].dad > 0 => \A f \in link : f.type \in {"NS", "NA"} => f.tgt # a

\* Wrong: the solicitations are not counted.
DadSolicitOn(n, a) ==
  /\ DadDue(n, a) /\ addrs[n][a].dad < MaxDadNs
  /\ link' = link \cup Frames(n, "NS", a, AddrNodes)
  /\ UNCHANGED <<addrs, groups, onlink, rs, racount, up, told>>

\* uip_ds6_dad: a solicitation from :: for the address, to its group
DadSolicit(n, a) ==
  /\ DadDue(n, a) /\ addrs[n][a].dad < MaxDadNs
  /\ link' = link \cup Frames(n, "NS", a, AddrNodes)
  /\ addrs' = [addrs EXCEPT ![n][a].dad = @ + 1]
  /\ UNCHANGED <<groups, onlink, rs, racount, up, told>>

\* uip_ds6_dad: nobody has answered.
DadSucceeds(n, a) ==
  /\ DadDue(n, a) /\ addrs[n][a].dad = MaxDadNs
  /\ addrs' = [addrs EXCEPT ![n][a].st = "PREFERRED"]
  /\ UNCHANGED <<groups, onlink, rs, racount, link, up, told>>

\* uip_nd6_rs_output: the source is the link-local address, or :: while it has none.
RsOut(n) == Frames(n, "RS", LinkLocalOf(n), RouterNodes)

\* uip_nd6_ra_output: the flags and lifetime of a default router, and no prefixes.  What
\* has no link-local source is dropped by its receivers.
RaOut(n) == IF LinkSource(n) THEN Frames(n, "RA", LinkLocalOf(n), Hosts) ELSE {}

\* uip_ds6_send_rs, at uip_ds6_timer_rs
RsTimer(n) ==
  /\ n \in Hosts /\ rs[n].on
  /\ IF ~rs[n].router /\ rs[n].count < MaxRs
       THEN /\ rs' = [rs EXCEPT ![n].count = @ + 1]
            /\ link' = link \cup RsOut(n)
       ELSE rs' = [rs EXCEPT ![n].on = FALSE] /\ UNCHANGED link
  /\ UNCHANGED <<addrs, groups, onlink, racount, up, told>>

\* uip_ds6_send_ra_periodic, at uip_ds6_timer_ra: the first time only to set it
RaTimer(n) ==
  /\ n \in RouterNodes
  /\ link' = link \cup IF racount[n] > 0 THEN RaOut(n) ELSE {}
  /\ racount' = [racount EXCEPT ![n] = IF @ < MaxInitialRas THEN @ + 1 ELSE @]
  /\ UNCHANGED <<addrs, groups, onlink, rs, up, told>>

\* Time passes for everybody.
LifeTick ==
  LET less(l) == [l EXCEPT !.left = IF @ = 0 THEN 0 ELSE @ - 1]
  IN /\ addrs' = [n \in AddrNodes |-> [a \in DOMAIN addrs[n] |->
                    [addrs[n][a] EXCEPT !.life = less(@)]]]
     /\ onlink' = [n \in AddrNodes |-> [p \in DOMAIN onlink[n] |-> less(onlink[n][p])]]
     /\ \A n \in AddrNodes : \A a \in DOMAIN addrs[n] :
          addrs[n][a].life.left > 0 \/ addrs[n][a].life.inf
     /\ UNCHANGED <<groups, rs, racount, link, up, told>>

-----------------------------------------------------------------------------
(* Messages *)

\* uip_ds6_dad_failed.  Nobody handles the 0 for a link-local address: it stays, and
\* its dadtimer goes on.
DadFailed(n, a) ==
  IF a.pfx = LinkPrefix THEN UNCHANGED <<addrs, groups>>
  ELSE SetAddrs(n, WithoutAddr(addrs[n], a))

Tentative(n, a) == a \in DOMAIN addrs[n] /\ addrs[n][a].st = "TENTATIVE"

\* A router gets what is for its groups, a host what is for any.
InGroup(n, a) == n \in Hosts \/ a.iid \in groups[n]

\* Wrong: of two solicitations that cross neither is taken for a conflict.
NsInputAnswer(n, f) ==
  /\ f.type = "NS" /\ f.to = n
  /\ link' = (link \ {f}) \cup
       IF InGroup(n, f.tgt) /\ f.tgt \in DOMAIN addrs[n] /\ ~Tentative(n, f.tgt)
         THEN Frames(n, "NA", f.tgt, AddrNodes) ELSE {}
  /\ UNCHANGED <<addrs, groups, onlink, rs, racount, up, told>>

\* ns_input of a solicitation from ::
NsInput(n, f) ==
  /\ f.type = "NS" /\ f.to = n
  /\ IF InGroup(n, f.tgt) /\ Tentative(n, f.tgt)
       THEN DadFailed(n, f.tgt) ELSE UNCHANGED <<addrs, groups>>
  /\ link' = (link \ {f}) \cup
       IF InGroup(n, f.tgt) /\ f.tgt \in DOMAIN addrs[n] /\ ~Tentative(n, f.tgt)
         THEN Frames(n, "NA", f.tgt, AddrNodes) ELSE {}
  /\ UNCHANGED <<onlink, rs, racount, up, told>>

\* na_input for an address of our own
NaInput(n, f) ==
  /\ f.type = "NA" /\ f.to = n
  /\ IF Tentative(n, f.tgt) THEN DadFailed(n, f.tgt) ELSE UNCHANGED <<addrs, groups>>
  /\ link' = link \ {f}
  /\ UNCHANGED <<onlink, rs, racount, up, told>>

\* rs_input: the timer of the next advertisement is set forward.
RsInput(n, f) ==
  /\ f.type = "RS" /\ f.to = n
  /\ link' = link \ {f}
  /\ UNCHANGED <<addrs, groups, onlink, rs, racount, up, told>>

\* ra_input of what a router of uIP advertises: itself
RaInput(n, f) ==
  /\ f.type = "RA" /\ f.to = n
  /\ rs' = [rs EXCEPT ![n].router = TRUE]
  /\ link' = link \ {f}
  /\ UNCHANGED <<addrs, groups, onlink, racount, up, told>>

\* The prefix list after an option with the on-link flag
OnLinkAfter(ps, p, valid) ==
  IF p \notin DOMAIN ps
    THEN IF valid = 0 \/ Cardinality(DOMAIN ps) = PrefixNb THEN ps
         ELSE [q \in DOMAIN ps \cup {p} |-> IF q = p THEN Life(valid, 0) ELSE ps[q]]
  ELSE IF valid = 0 THEN [q \in DOMAIN ps \ {p} |-> ps[q]]
  ELSE [ps EXCEPT ![p] = Life(valid, @.left)]

\* stimer_remaining: what has run out counts from the top of an unsigned long.
Remaining(life) == IF life.left = 0 THEN Infinite ELSE life.left

\* The lifetime of an address after an option for its prefix: RFC 4862, 5.5.3 e
Renewed(life, valid) ==
  IF valid = Infinite THEN [life EXCEPT !.inf = TRUE]
  ELSE IF valid > TwoHours \/ valid > Remaining(life) THEN [inf |-> FALSE, left |-> valid]
  ELSE [inf |-> FALSE, left |-> TwoHours]

\* The addresses after an option with the autonomous flag.  An address of the same
\* value that was not made so is left alone.
AddrsAfter(as, a, valid) ==
  IF valid = 0 THEN as
  ELSE IF a \in DOMAIN as /\ as[a].auto THEN [as EXCEPT ![a].life = Renewed(@, valid)]
  ELSE WithAddr(as, a, valid, TRUE)

\* ra_input of what another router advertises: a prefix, and whether it is a default
\* router itself
PrefixInput(n) ==
  /\ n \in Hosts
  /\ \E o \in Options :
       /\ onlink' = [onlink EXCEPT ![n] =
            IF "onlink" \in o.flags THEN OnLinkAfter(@, o.pfx, o.valid) ELSE @]
       /\ SetAddrs(n, IF "auto" \in o.flags
                        THEN AddrsAfter(addrs[n], [pfx |-> o.pfx, iid |-> Iid[n]], o.valid)
                        ELSE addrs[n])
       /\ rs' = [rs EXCEPT ![n].router = o.router]
  /\ told < MaxTold /\ told' = told + 1
  /\ UNCHANGED <<racount, link, up>>

\* An application adds an address with uip_ds6_addr_add, or takes it away.
Configure(n) ==
  /\ \E p \in Prefixes :
       LET a == [pfx |-> p, iid |-> Iid[n]]
       IN SetAddrs(n, IF a \in DOMAIN addrs[n] THEN WithoutAddr(addrs[n], a)
                      ELSE WithAddr(addrs[n], a, Infinite, FALSE))
  /\ told < MaxTold /\ told' = told + 1
  /\ UNCHANGED <<onlink, rs, racount, link, up>>

Ds6Next ==
  \/ LifeTick
  \/ \E n \in up :
       \/ AddrExpires(n) \/ PrefixExpires(n) \/ RsTimer(n) \/ RaTimer(n)
       \/ PrefixInput(n) \/ Configure(n)
       \/ \E a \in Addresses : DadSolicit(n, a) \/ DadSucceeds(n, a)
       \/ \E f \in link : NsInput(n, f) \/ NaInput(n, f) \/ RsInput(n, f) \/ RaInput(n, f)

Ds6Spec == Ds6Init /\ [][Ds6Next]_ds6vars

\* Solicitations and the answers to them arrive, and timers run out.
Ds6Fairness ==
  /\ WF_ds6vars(\E n \in up : \E f \in link :
       NsInput(n, f) \/ NaInput(n, f))
  /\ \A n \in AddrNodes : WF_ds6vars(n \in up /\ AddrExpires(n))
  /\ \A n \in AddrNodes, a \in Addresses :
       WF_ds6vars(n \in up /\ (DadSolicit(n, a) \/ DadSucceeds(n, a)))
Ds6FairSpec == Ds6Spec /\ Ds6Fairness

-----------------------------------------------------------------------------
(* Properties *)

Holds(n, a) == a \in DOMAIN addrs[n] /\ addrs[n][a].st = "PREFERRED"

\* Of two hosts with the same interface identifier at most one comes to use a global
\* address, whoever is first and however their solicitations and advertisements cross
\* (uip_ds6_dad, ns_input, na_input).
UniqueGlobal ==
  \A m, n \in Hosts \cap up : \A a \in Addresses :
    m # n /\ a.pfx # LinkPrefix => ~(Holds(m, a) /\ Holds(n, a))

\* The same of every node and address: an address that another node has claimed or
\* answered for is not used (uip-ds6.c: "If we arrive here it means DAD succeeded,
\* otherwise the dad process would have been interrupted").  No run states it, for TLC
\* refutes it in ds6: a link-local address that failed is used all the same.
UniqueAddresses ==
  \A m, n \in up : \A a \in Addresses : m # n => ~(Holds(m, a) /\ Holds(n, a))

\* No address stays tentative: its node comes to use it or gives it up, also when the
\* addresses of several nodes knock each other out.
AddressSettles ==
  \A n \in AddrNodes, a \in Addresses : n \in up /\ Tentative(n, a) ~> ~Tentative(n, a)
=============================================================================
