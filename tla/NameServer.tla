---------------------------- MODULE NameServer ----------------------------
(***************************************************************************)
(* The name servers of a node: the records of uip-nameserver.c with a pool *)
(* of more than one.  A host learns them from the RDNSS options of routers *)
(* (ra_input); in a router an application tells them, and its              *)
(* advertisements pass them on (uip_nd6_ra_output).  Time is               *)
(* clock_seconds(); a lifetime of NsInfinite is for ever.                  *)
(***************************************************************************)
EXTENDS Lists

CONSTANTS
  Servers,     \* addresses
  NsPool,      \* UIP_NAMESERVER_POOL_SIZE
  NsInfinite,  \* UIP_NAMESERVER_INFINITE_LIFETIME, the greatest uint32_t
  Lifetimes,   \* what is announced; 0 withdraws a server
  MaxNow       \* bound: seconds

ASSUME NsAssumption ==
  /\ NsPool \in Nat \ {0, 1} /\ NsInfinite \in Nat /\ MaxNow \in 1 .. (NsInfinite - 1)
  /\ Lifetimes \subseteq 0 .. NsInfinite

VARIABLES
  dns,       \* the list of records, each in a block of dnsmemb
  now,
  announced, \* ghost: until when each server was last announced; 0 when withdrawn
  rdnss      \* RDNSS options that are being sent, at most one

nsvars == <<dns, now, announced, rdnss>>

NsInit ==
  /\ dns = <<>> /\ now = 0
  /\ announced = [a \in Servers |-> 0]
  /\ rdnss = {}

\* DNS_EXPIRATION
Until(added, lifetime) ==
  IF NsInfinite - added <= lifetime THEN NsInfinite ELSE added + lifetime
Expiration(e) == Until(e.added, e.lifetime)

\* The first record that expires before all others
Soonest ==
  CHOOSE i \in DOMAIN dns :
    \A j \in DOMAIN dns :
      IF j < i THEN Expiration(dns[j]) > Expiration(dns[i])
      ELSE Expiration(dns[j]) >= Expiration(dns[i])

Known(a) == {i \in DOMAIN dns : dns[i].ip = a}

\* Wrong: while there is room a server is not looked for.
RecordAnew(a) == IF Len(dns) < NsPool THEN Len(dns) + 1 ELSE Soonest

\* The record for a server: its own, a new one, or the one that expires first
RecordFor(a) ==
  IF Known(a) # {} THEN CHOOSE i \in Known(a) : TRUE
  ELSE IF Len(dns) < NsPool THEN Len(dns) + 1
  ELSE Soonest

\* uip_nameserver_update.  With a full pool, the withdrawal of a server that has no
\* record removes the one that expires first.
Update(a, lifetime) ==
  /\ dns' =
       IF lifetime > 0
         THEN LET e == [ip |-> a, added |-> now, lifetime |-> lifetime]
              IN IF RecordFor(a) > Len(dns) THEN Append(dns, e)
                 ELSE [dns EXCEPT ![RecordFor(a)] = e]
       ELSE IF RecordFor(a) > Len(dns) THEN dns
       ELSE Without(dns, {dns[RecordFor(a)]})
  /\ announced' = [announced EXCEPT ![a] = IF lifetime = 0 THEN 0 ELSE Until(now, lifetime)]

\* purge: after a removal the loop goes on behind the head, which is not looked at.
NsExpired(e) == Expiration(e) < now
Purged(s) ==
  LET kept == IF s # <<>> /\ NsExpired(Head(s)) THEN Tail(s) ELSE s
  IN IF kept = <<>> THEN kept
     ELSE <<Head(kept)>> \o Without(Tail(kept), {e \in Elements(Tail(kept)) : NsExpired(e)})

\* uip_nameserver_next_expiration, after its purge
NextExpiration(s) ==
  LET ends == {Expiration(s[i]) : i \in DOMAIN s} \cup {NsInfinite}
  IN CHOOSE t \in ends : \A u \in ends : t <= u

\* ra_input with an RDNSS option of one server, or a call of an application
NsAnnounced ==
  /\ \E a \in Servers, lifetime \in Lifetimes : Update(a, lifetime)
  /\ rdnss' = {} /\ UNCHANGED now

\* uip_nameserver_get, called by an application
NsGet ==
  /\ dns' = Purged(dns)
  /\ rdnss' = {} /\ UNCHANGED <<now, announced>>

\* uip_nd6_ra_output: uip_nameserver_next_expiration purges once, and every
\* uip_nameserver_get once more.  The lifetime is an unsigned difference.
NsAdvertise ==
  /\ dns # <<>>
  /\ dns' = Purged(Purged(dns))
  /\ LET end == NextExpiration(Purged(dns))
     IN rdnss' = {[servers |-> dns',
                   lifetime |-> IF end = NsInfinite THEN end
                                ELSE (end + NsInfinite + 1 - now) % (NsInfinite + 1)]}
  /\ UNCHANGED <<now, announced>>

NsTick ==
  /\ now < MaxNow /\ now' = now + 1
  /\ rdnss' = {} /\ UNCHANGED <<dns, announced>>

NsNext == NsAnnounced \/ NsGet \/ NsAdvertise \/ NsTick

NsSpec == NsInit /\ [][NsNext]_nsvars

-----------------------------------------------------------------------------
(* Properties *)

\* A record says of its server what was announced last, and no server has two or has one
\* after it was withdrawn, while records are replaced, removed and purged; and the head
\* that a purge overlooks is gone from an option when it is sent.
ServersTold ==
  /\ \A i, j \in DOMAIN dns : dns[i].ip = dns[j].ip => i = j
  /\ \A i \in DOMAIN dns : announced[dns[i].ip] = Expiration(dns[i])
  /\ \A o \in rdnss : \A i \in DOMAIN o.servers : Expiration(o.servers[i]) >= now

\* No server is advertised for longer than it is known (uip-nameserver.h: "The least
\* expiration time is returned").  No run states it, for TLC refutes it in services
\* with NsPool = 3: an expired head makes a lifetime of almost 2^32 seconds.
AdvertisedInTime ==
  \A o \in rdnss : \A i \in DOMAIN o.servers :
    o.lifetime = NsInfinite \/ now + o.lifetime <= Expiration(o.servers[i])

\* A server is forgotten only for its own withdrawal, its end, or for a newer one
\* (uip-nameserver.h: "Minimum is 0, which is considered to remove an entry").  No run
\* states it, for TLC refutes it in services.
NoneDisplaced ==
  [][\A i \in DOMAIN dns :
       LET a == dns[i].ip
       IN (\A j \in DOMAIN dns' : dns'[j].ip # a) =>
            \/ announced'[a] < now \/ announced'[a] = 0
            \/ Len(dns') = Len(dns)]_nsvars
=============================================================================
