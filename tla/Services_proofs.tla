--------------------------- MODULE Services_proofs ---------------------------
(***************************************************************************)
(* Proofs about the small parts below and beside TCP, each of them alone:  *)
(* the DHCP client, the name servers, the event timers, ARP with the split *)
(* of packets, and the drivers.  They share no variable.                   *)
(***************************************************************************)
EXTENDS Dhcpc, NameServer, Etimer, UipArp, Drivers, Lists_proofs, SequenceTheorems

-----------------------------------------------------------------------------
(***************************************************************************)
(* LeaseKept for any number of hosts, any life time of at least six        *)
(* seconds and any order, loss and repetition of messages that are under   *)
(* way for a second at most.  Six seconds and one: dhcpTask gives up when  *)
(* three seconds or less are left (dhcpc.c), two in the worst case, and it *)
(* counts from the answer, not from when the server gave it.               *)
(***************************************************************************)

\* How late an answer may be for what dhcpTask keeps in hand at the end
InTime == Lease >= 6 /\ MaxDelay <= 1

-----------------------------------------------------------------------------
(* The inductive invariant *)

Tasks == [pc : {"discover", "request", "renew", "sleep"}, xid : Nat, wait : Nat, rest : Nat]

Messages == [c : Clients, type : {"discover", "offer", "request", "ack"}, xid : Nat,
             ttl : 0 .. MaxDelay]

DhcpTypeOK ==
  /\ task \in [Clients -> Tasks]
  /\ left \in [Clients -> Nat]
  /\ set \in [Clients -> BOOLEAN]
  /\ lease \in [Clients -> 0 .. Lease]
  /\ mail \subseteq Messages

\* The server has one address.
OneLease == \A c, d \in Clients : lease[c] > 0 /\ lease[d] > 0 => c = d

\* An answer is as old as it has been under way.
AnswersLast ==
  \A m \in mail : m.type = "ack" => lease[m.c] + MaxDelay >= Lease + m.ttl

\* A host that uses the address is asleep or renews it, and gives it up while the server
\* still keeps it: it counts from the answer, which was MaxDelay late at most.
GivesUp ==
  \A c \in Clients : set[c] =>
    \/ task[c].pc = "sleep" /\ lease[c] + MaxDelay >= left[c] + Rest
    \/ /\ task[c].pc = "renew" /\ task[c].wait + 2 <= task[c].rest
       /\ lease[c] + MaxDelay >= left[c] + (task[c].rest - task[c].wait)

\* Only such a host is asleep or renews.
UsesIt == \A c \in Clients : task[c].pc \in {"sleep", "renew"} <=> set[c]

DhcpInductive == DhcpTypeOK /\ OneLease /\ AnswersLast /\ UsesIt /\ GivesUp

-----------------------------------------------------------------------------
(* The parts of the invariant, one step at a time *)

\* What dhcpTask keeps in hand of a lease is at least 3 seconds and at most half of it.
LEMMA RestFacts ==
  ASSUME InTime
  PROVE  /\ Rest \in Nat /\ Rest >= 3 /\ Rest + Rest <= Lease
         /\ Lease \div 2 = Rest
         /\ \A n \in Nat : /\ n \div 2 \in Nat /\ n \div 2 <= n
                           /\ n >= 3 => n \div 2 + 2 <= n
BY DhcpAssumption DEF InTime, Rest

\* A message of the kind that clients and the server write
LEMMA MessageType ==
  ASSUME NEW c \in Clients, NEW type \in {"discover", "offer", "request", "ack"},
         NEW xid \in Nat
  PROVE  /\ Message(c, type, xid) \in Messages
         /\ Message(c, type, xid).type = type /\ Message(c, type, xid).c = c
         /\ Message(c, type, xid).ttl = MaxDelay
BY DhcpAssumption DEF Message, Messages

\* A transaction number stays one.
LEMMA XidType == \A n \in Nat : (n + 1) % XidMod \in Nat
BY DhcpAssumption

\* A task that begins again is a task.
LEMMA FreshType ==
  ASSUME NEW t \in Tasks
  PROVE  Fresh(t) \in Tasks /\ Fresh(t).pc = "discover"
<1>1. (t.xid + 1) % XidMod \in Nat
  BY XidType DEF Tasks
<1> QED
  BY <1>1 DEF Fresh, Tasks

\* The invariant holds before any host has asked.
LEMMA DhcpInitial == DhcpInit => DhcpInductive
<1> SUFFICES ASSUME DhcpInit PROVE DhcpInductive
  OBVIOUS
<1>1. Fresh([xid |-> 0]) \in Tasks /\ Fresh([xid |-> 0]).pc = "discover"
  <2>1. (0 + 1) % XidMod \in Nat
    BY XidType
  <2> QED
    BY <2>1 DEF Fresh, Tasks
<1>2. \A c \in Clients : task[c] \in Tasks /\ task[c].pc = "discover"
  BY <1>1 DEF DhcpInit
<1>3. \A m \in mail : m \in Messages /\ m.type = "discover"
  <2> SUFFICES ASSUME NEW c \in Clients
               PROVE  /\ Message(c, "discover", task[c].xid) \in Messages
                      /\ Message(c, "discover", task[c].xid).type = "discover"
    BY DEF DhcpInit
  <2>1. task[c].xid \in Nat
    BY <1>2 DEF Tasks
  <2> QED
    BY <2>1, MessageType
<1>4. DhcpTypeOK
  BY <1>1, <1>2, <1>3, DhcpAssumption DEF DhcpInit, DhcpTypeOK
<1>5. OneLease
  BY DEF DhcpInit, OneLease
<1>6. AnswersLast
  BY <1>3 DEF AnswersLast
<1>7. UsesIt /\ GivesUp
  BY <1>2 DEF DhcpInit, UsesIt, GivesUp
<1> QED
  BY <1>4, <1>5, <1>6, <1>7 DEF DhcpInductive

\* A step that gives one host's task a new state and time, and writes messages that are
\* no answers, keeps what is said of the others.
LEMMA OneTask ==
  ASSUME InTime, DhcpInductive, NEW c \in Clients, NEW t \in Tasks, NEW n \in Nat,
         At(c, t, n), UNCHANGED lease,
         set' \in [Clients -> BOOLEAN], \A d \in Clients \ {c} : set'[d] = set[d],
         \A m \in mail' : m \in mail \/ (m \in Messages /\ m.type # "ack"),
         t.pc \in {"sleep", "renew"} <=> set'[c],
         set'[c] =>
           \/ t.pc = "sleep" /\ lease[c] + MaxDelay >= n + Rest
           \/ /\ t.pc = "renew" /\ t.wait + 2 <= t.rest
              /\ lease[c] + MaxDelay >= n + (t.rest - t.wait)
  PROVE  DhcpInductive'
<1> USE DEF DhcpInductive
<1>1. /\ task' = [task EXCEPT ![c] = t] /\ left' = [left EXCEPT ![c] = n]
      /\ task'[c] = t /\ left'[c] = n
      /\ \A d \in Clients \ {c} : task'[d] = task[d] /\ left'[d] = left[d]
  BY DEF At, DhcpTypeOK
<1>2. DhcpTypeOK'
  BY <1>1 DEF DhcpTypeOK
<1>3. OneLease'
  BY DEF OneLease
<1>4. AnswersLast'
  BY DEF AnswersLast
<1>5. UsesIt'
  <2> SUFFICES ASSUME NEW d \in Clients
               PROVE  task'[d].pc \in {"sleep", "renew"} <=> set'[d]
    BY DEF UsesIt
  <2> QED
    BY <1>1 DEF UsesIt
<1>6. GivesUp'
  <2> SUFFICES ASSUME NEW d \in Clients, set'[d]
               PROVE  \/ task'[d].pc = "sleep" /\ lease[d] + MaxDelay >= left'[d] + Rest
                      \/ /\ task'[d].pc = "renew" /\ task'[d].wait + 2 <= task'[d].rest
                         /\ lease[d] + MaxDelay >= left'[d] + (task'[d].rest - task'[d].wait)
    BY DEF GivesUp, Rest
  <2>1. CASE d = c
    BY <2>1, <1>1
  <2>2. CASE d # c
    BY <2>2, <1>1 DEF GivesUp
  <2> QED
    BY <2>1, <2>2
<1> QED
  BY <1>2, <1>3, <1>4, <1>5, <1>6

\* A step of the server or the network that leaves the tasks alone
LEMMA MailOnly ==
  ASSUME DhcpInductive, UNCHANGED <<task, left, set, lease>>,
         \A m \in mail' : m \in mail \/ (m \in Messages /\ m.type # "ack")
  PROVE  DhcpInductive'
BY DEF DhcpInductive, DhcpTypeOK, OneLease, AnswersLast, UsesIt, GivesUp, Rest

\* The invariant holds after every step of a host, the server, the network or the clock.
LEMMA DhcpStep ==
  ASSUME InTime, DhcpInductive, [DhcpNext]_dhcpvars
  PROVE  DhcpInductive'
<1> USE DEF DhcpInductive
<1>1. ASSUME Second PROVE DhcpInductive'
  <2> DEFINE older(m) == [m EXCEPT !.ttl = @ - 1]
  <2>1. \A c \in Clients : /\ left[c] > 0 /\ left'[c] = left[c] - 1
                          /\ lease'[c] = IF lease[c] = 0 THEN 0 ELSE lease[c] - 1
    BY <1>1 DEF Second, DhcpTypeOK
  <2>2. left' \in [Clients -> Nat] /\ lease' \in [Clients -> 0 .. Lease]
    BY <1>1, <2>1, DhcpAssumption DEF Second, DhcpTypeOK
  <2>3. \A m \in mail : /\ older(m) \in Messages /\ older(m).ttl = m.ttl - 1 /\ m.ttl >= 1
                       /\ older(m).type = m.type /\ older(m).c = m.c /\ m.c \in Clients
                       /\ m.ttl \in Nat
    BY <1>1, DhcpAssumption DEF Second, DhcpTypeOK, Messages
  <2>4. mail' = {older(m) : m \in mail} /\ UNCHANGED <<task, set>>
    BY <1>1 DEF Second
  <2>5. DhcpTypeOK'
    BY <2>2, <2>3, <2>4 DEF DhcpTypeOK
  <2>6. OneLease'
    BY <2>1 DEF OneLease, DhcpTypeOK
  <2>7. AnswersLast'
    <3> SUFFICES ASSUME NEW m \in mail, older(m).type = "ack"
                 PROVE  lease'[older(m).c] + MaxDelay >= Lease + older(m).ttl
      BY <2>4 DEF AnswersLast
    <3>1. m.c \in Clients /\ lease[m.c] \in Nat /\ lease[m.c] + MaxDelay >= Lease + m.ttl
      <4>1. m.c \in Clients /\ m.type = "ack"
        BY <2>3
      <4> QED
        BY <4>1, DhcpAssumption DEF AnswersLast, DhcpTypeOK
    <3>2. /\ older(m).c = m.c /\ older(m).ttl = m.ttl - 1 /\ m.ttl \in Nat /\ m.ttl >= 1
          /\ lease'[m.c] = IF lease[m.c] = 0 THEN 0 ELSE lease[m.c] - 1
      BY <3>1, <2>1, <2>3
    <3> HIDE DEF older
    <3>3. lease'[m.c] + MaxDelay >= Lease + (m.ttl - 1)
      BY <3>1, <3>2, DhcpAssumption DEF InTime
    <3> QED
      BY <3>2, <3>3
  <2>8. UsesIt'
    BY <2>4 DEF UsesIt
  <2>9. GivesUp'
    <3> SUFFICES ASSUME NEW c \in Clients, set[c]
                 PROVE  \/ task[c].pc = "sleep" /\ lease'[c] + MaxDelay >= left'[c] + Rest
                        \/ /\ task[c].pc = "renew" /\ task[c].wait + 2 <= task[c].rest
                           /\ lease'[c] + MaxDelay >= left'[c] + (task[c].rest - task[c].wait)
      BY <2>4 DEF GivesUp, Rest
    <3>1. /\ task[c].wait \in Nat /\ task[c].rest \in Nat /\ lease[c] \in Nat
          /\ left[c] \in Nat
      BY DEF DhcpTypeOK, Tasks
    <3> QED
      BY <3>1, <2>1, RestFacts, DhcpAssumption DEF GivesUp, InTime
  <2> QED
    BY <2>5, <2>6, <2>7, <2>8, <2>9
<1>2. ASSUME NEW c \in Clients, DiscoverAgain(c) PROVE DhcpInductive'
  <2> DEFINE w == IF task[c].wait < DiscoverMax THEN 2 * task[c].wait ELSE task[c].wait
             t == [task[c] EXCEPT !.wait = w]
  <2>1. w \in Nat /\ t \in Tasks /\ t.pc = "discover" /\ task[c].xid \in Nat
    BY <1>2, DhcpAssumption DEF DiscoverAgain, DhcpTypeOK, Tasks
  <2>2. /\ At(c, t, w) /\ UNCHANGED <<set, lease>>
        /\ mail' = mail \cup {Message(c, "discover", task[c].xid)}
    BY <1>2 DEF DiscoverAgain
  <2>3. ~set[c]
    BY <1>2 DEF DiscoverAgain, UsesIt
  <2> HIDE DEF t, w
  <2>4. \A m \in mail' : m \in mail \/ (m \in Messages /\ m.type # "ack")
    BY <2>1, <2>2, MessageType
  <2> QED
    BY <2>1, <2>2, <2>3, <2>4, OneTask DEF DhcpTypeOK
<1>3. ASSUME NEW c \in Clients, NEW m \in mail, Offered(c, m) PROVE DhcpInductive'
  <2> DEFINE xid == (task[c].xid + 1) % XidMod
             t == [pc |-> "request", xid |-> xid, wait |-> 1, rest |-> 0]
  <2>1. xid \in Nat
    BY XidType DEF DhcpTypeOK, Tasks
  <2>2. /\ At(c, t, 1) /\ UNCHANGED <<set, lease>>
        /\ mail' = (mail \ {m}) \cup {Message(c, "request", xid)}
    BY <1>3 DEF Offered
  <2>3. ~set[c]
    BY <1>3 DEF Offered, UsesIt
  <2> HIDE DEF xid
  <2>4. t \in Tasks /\ t.pc = "request"
    BY <2>1 DEF Tasks
  <2> HIDE DEF t
  <2>5. \A k \in mail' : k \in mail \/ (k \in Messages /\ k.type # "ack")
    BY <2>1, <2>2, MessageType
  <2> QED
    BY <2>2, <2>3, <2>4, <2>5, OneTask DEF DhcpTypeOK
<1>4. ASSUME NEW c \in Clients, ToInit(c), UNCHANGED lease, ~set'[c],
             set' = [set EXCEPT ![c] = FALSE]
      PROVE  DhcpInductive'
  <2> DEFINE t == Fresh(task[c])
  <2>1. t \in Tasks /\ t.pc = "discover" /\ t.xid \in Nat
    BY FreshType DEF DhcpTypeOK, Tasks
  <2>2. At(c, t, 1) /\ mail' = mail \cup {Message(c, "discover", t.xid)}
    BY <1>4 DEF ToInit
  <2> HIDE DEF t
  <2>3. \A m \in mail' : m \in mail \/ (m \in Messages /\ m.type # "ack")
    BY <2>1, <2>2, MessageType
  <2>4. set' \in [Clients -> BOOLEAN] /\ \A d \in Clients \ {c} : set'[d] = set[d]
    BY <1>4 DEF DhcpTypeOK
  <2> QED
    BY <1>4, <2>1, <2>2, <2>3, <2>4, OneTask
<1>5. ASSUME NEW c \in Clients, RequestAgain(c) PROVE DhcpInductive'
  <2>1. ~set[c] /\ UNCHANGED <<set, lease>>
    BY <1>5 DEF RequestAgain, UsesIt
  <2>2. CASE task[c].wait < RequestMax
    <3> DEFINE t == [task[c] EXCEPT !.wait = @ + 1]
    <3>1. /\ t \in Tasks /\ t.pc = "request" /\ task[c].xid \in Nat
          /\ task[c].wait + 1 \in Nat
      BY <1>5 DEF RequestAgain, DhcpTypeOK, Tasks
    <3>2. /\ At(c, t, task[c].wait + 1)
          /\ mail' = mail \cup {Message(c, "request", task[c].xid)}
      BY <1>5, <2>2 DEF RequestAgain
    <3> HIDE DEF t
    <3>3. \A m \in mail' : m \in mail \/ (m \in Messages /\ m.type # "ack")
      BY <3>1, <3>2, MessageType
    <3> QED
      BY <2>1, <3>1, <3>2, <3>3, OneTask DEF DhcpTypeOK
  <2>3. CASE ~(task[c].wait < RequestMax)
    <3>1. ToInit(c)
      BY <1>5, <2>3 DEF RequestAgain
    <3>2. set' = [set EXCEPT ![c] = FALSE]
      BY <2>1 DEF DhcpTypeOK
    <3> QED
      BY <2>1, <3>1, <3>2, <1>4
  <2> QED
    BY <2>2, <2>3
<1>6. ASSUME NEW c \in Clients, NEW m \in mail, Bound(c, m) PROVE DhcpInductive'
  <2> DEFINE t == [task[c] EXCEPT !.pc = "sleep", !.wait = 0, !.rest = 0]
  <2>1. t \in Tasks /\ t.pc = "sleep"
    BY DEF DhcpTypeOK, Tasks
  <2>2. /\ At(c, t, Rest) /\ UNCHANGED lease /\ mail' = mail \ {m}
        /\ set' = [set EXCEPT ![c] = TRUE]
    BY <1>6 DEF Bound, Rest
  <2> HIDE DEF t
  <2>3. lease[c] \in Nat /\ lease[c] + MaxDelay >= Lease
    <3>1. m.c = c /\ m.type = "ack" /\ m.ttl \in Nat
      BY <1>6 DEF Bound, DhcpTypeOK, Messages
    <3> QED
      BY <3>1, DhcpAssumption DEF AnswersLast, DhcpTypeOK
  <2>4. lease[c] + MaxDelay >= Rest + Rest /\ Rest \in Nat
    BY <2>3, RestFacts, DhcpAssumption
  <2>5. /\ set' \in [Clients -> BOOLEAN] /\ \A d \in Clients \ {c} : set'[d] = set[d]
        /\ set'[c]
    BY <2>2 DEF DhcpTypeOK
  <2> QED
    BY <2>1, <2>2, <2>4, <2>5, OneTask
<1>7. ASSUME NEW c \in Clients, Renew(c) PROVE DhcpInductive'
  <2> DEFINE xid == (task[c].xid + 1) % XidMod
             w == Rest \div 2
             t == [pc |-> "renew", xid |-> xid, wait |-> w, rest |-> Rest]
  <2>1. xid \in Nat
    BY XidType DEF DhcpTypeOK, Tasks
  <2>2. /\ At(c, t, w) /\ UNCHANGED <<set, lease>>
        /\ mail' = mail \cup {Message(c, "request", xid)}
    BY <1>7 DEF Renew
  <2>3. set[c] /\ lease[c] + MaxDelay >= Rest /\ lease[c] \in Nat
    <3>1. task[c].pc = "sleep" /\ left[c] = 0 /\ set[c]
      BY <1>7 DEF Renew, UsesIt
    <3> QED
      BY <3>1, RestFacts DEF GivesUp, DhcpTypeOK
  <2>4. w \in Nat /\ w + 2 <= Rest /\ Rest \in Nat
    BY RestFacts
  <2> HIDE DEF xid, w
  <2>5. t \in Tasks /\ t.pc = "renew" /\ t.wait = w /\ t.rest = Rest
    BY <2>1, <2>4 DEF Tasks
  <2> HIDE DEF t
  <2>6. \A m \in mail' : m \in mail \/ (m \in Messages /\ m.type # "ack")
    BY <2>1, <2>2, MessageType
  <2>7. lease[c] + MaxDelay >= w + (t.rest - t.wait)
    BY <2>3, <2>4, <2>5
  <2> QED
    BY <2>2, <2>3, <2>4, <2>5, <2>6, <2>7, OneTask DEF DhcpTypeOK
<1>8. ASSUME NEW c \in Clients, RenewAgain(c) PROVE DhcpInductive'
  <2> DEFINE rest == task[c].rest - task[c].wait
             w == rest \div 2
             t == [task[c] EXCEPT !.wait = w, !.rest = rest]
  <2>1. /\ task[c].pc = "renew" /\ left[c] = 0 /\ set[c] /\ task[c].xid \in Nat
        /\ task[c].rest \in Nat /\ task[c].wait \in Nat /\ UNCHANGED lease
    BY <1>8 DEF RenewAgain, UsesIt, DhcpTypeOK, Tasks
  <2>2. rest \in Nat /\ lease[c] + MaxDelay >= rest /\ lease[c] \in Nat
    BY <2>1 DEF GivesUp, DhcpTypeOK
  <2>3. CASE rest > 3
    <3>1. /\ At(c, t, w) /\ UNCHANGED set
          /\ mail' = mail \cup {Message(c, "request", task[c].xid)}
      BY <1>8, <2>3 DEF RenewAgain
    <3> HIDE DEF rest
    <3>2. w \in Nat /\ w + 2 <= rest
      BY <2>2, <2>3, RestFacts
    <3> HIDE DEF w
    <3>3. t \in Tasks /\ t.pc = "renew" /\ t.wait = w /\ t.rest = rest
      BY <2>1, <2>2, <3>2 DEF Tasks, DhcpTypeOK
    <3> HIDE DEF t
    <3>4. \A m \in mail' : m \in mail \/ (m \in Messages /\ m.type # "ack")
      BY <2>1, <3>1, MessageType
    <3>5. lease[c] + MaxDelay >= w + (t.rest - t.wait)
      BY <2>2, <3>2, <3>3
    <3> QED
      BY <2>1, <3>1, <3>2, <3>3, <3>4, <3>5, OneTask DEF DhcpTypeOK
  <2>4. CASE ~(rest > 3)
    <3>1. ToInit(c) /\ set' = [set EXCEPT ![c] = FALSE]
      BY <1>8, <2>4 DEF RenewAgain
    <3>2. ~set'[c]
      BY <3>1 DEF DhcpTypeOK
    <3> QED
      BY <2>1, <3>1, <3>2, <1>4
  <2> QED
    BY <2>3, <2>4
<1>9. ASSUME NEW c \in Clients, NEW m \in mail, Ignored(c, m) PROVE DhcpInductive'
  BY <1>9, MailOnly DEF Ignored
<1>10. ASSUME NEW m \in mail, Offer(m) PROVE DhcpInductive'
  <2>1. m.c \in Clients /\ m.xid \in Nat
    BY DEF DhcpTypeOK, Messages
  <2>2. \A k \in mail' : k \in mail \/ (k \in Messages /\ k.type # "ack")
    BY <1>10, <2>1, MessageType DEF Offer
  <2> QED
    BY <1>10, <2>2, MailOnly DEF Offer
<1>11. ASSUME NEW m \in mail, Grant(m) PROVE DhcpInductive'
  <2> DEFINE c == m.c
             k == Message(c, "ack", m.xid)
  <2>1. c \in Clients /\ m.xid \in Nat
    BY DEF DhcpTypeOK, Messages
  <2>2. /\ Free(c) /\ lease' = [lease EXCEPT ![c] = Lease] /\ UNCHANGED <<task, left, set>>
        /\ mail' = (mail \ {m}) \cup {k}
    BY <1>11 DEF Grant
  <2>3. k \in Messages /\ k.type = "ack" /\ k.c = c /\ k.ttl = MaxDelay
    BY <2>1, MessageType
  <2> HIDE DEF c, k
  <2>4. lease'[c] = Lease /\ \A d \in Clients \ {c} : lease'[d] = lease[d] /\ lease[d] = 0
    BY <2>1, <2>2 DEF DhcpTypeOK, Free
  <2>5. DhcpTypeOK'
    <3>1. mail' \subseteq Messages
      BY <2>2, <2>3 DEF DhcpTypeOK
    <3>2. lease' \in [Clients -> 0 .. Lease]
      <4>1. Lease \in 0 .. Lease /\ lease \in [Clients -> 0 .. Lease]
        BY DhcpAssumption DEF DhcpTypeOK
      <4> QED
        BY <2>1, <2>2, <4>1
    <3> QED
      BY <2>2, <3>1, <3>2 DEF DhcpTypeOK
  <2>6. OneLease'
    BY <2>1, <2>4 DEF OneLease
  <2>7. AnswersLast'
    <3> SUFFICES ASSUME NEW n \in mail', n.type = "ack"
                 PROVE  lease'[n.c] + MaxDelay >= Lease + n.ttl
      BY DEF AnswersLast
    <3>1. CASE n = k
      BY <3>1, <2>3, <2>4, DhcpAssumption
    <3>2. CASE n # k
      <4>1. /\ n \in mail /\ n.c \in Clients /\ n.ttl \in 0 .. MaxDelay
            /\ lease[n.c] + MaxDelay >= Lease + n.ttl
        BY <3>2, <2>2 DEF AnswersLast, DhcpTypeOK, Messages
      <4>2. CASE n.c = c
        BY <4>1, <4>2, <2>4, DhcpAssumption
      <4>3. CASE n.c # c
        BY <4>1, <4>3, <2>4
      <4> QED
        BY <4>2, <4>3
    <3> QED
      BY <3>1, <3>2
  <2>8. UsesIt'
    BY <2>2 DEF UsesIt
  <2>9. GivesUp'
    <3>1. \A d \in Clients : lease[d] \in Nat /\ lease'[d] \in Nat /\ lease'[d] >= lease[d]
      BY <2>1, <2>4, DhcpAssumption DEF DhcpTypeOK
    <3> SUFFICES ASSUME NEW d \in Clients, set[d]
                 PROVE  \/ task[d].pc = "sleep" /\ lease'[d] + MaxDelay >= left[d] + Rest
                        \/ /\ task[d].pc = "renew" /\ task[d].wait + 2 <= task[d].rest
                           /\ lease'[d] + MaxDelay >= left[d] + (task[d].rest - task[d].wait)
      BY <2>2 DEF GivesUp, Rest
    <3>2. /\ task[d].wait \in Nat /\ task[d].rest \in Nat /\ left[d] \in Nat
      BY DEF DhcpTypeOK, Tasks
    <3> QED
      BY <3>1, <3>2, RestFacts, DhcpAssumption DEF GivesUp
  <2> QED
    BY <2>5, <2>6, <2>7, <2>8, <2>9
<1>12. ASSUME NEW m \in mail, LoseMail(m) PROVE DhcpInductive'
  BY <1>12, MailOnly DEF LoseMail
<1>13. CASE UNCHANGED dhcpvars
  BY <1>13, MailOnly DEF dhcpvars
<1> QED
  BY <1>1, <1>2, <1>3, <1>5, <1>6, <1>7, <1>8, <1>9, <1>10, <1>11, <1>12, <1>13
  DEF DhcpNext

-----------------------------------------------------------------------------
(* The results *)

\* LeaseKept follows from the invariant: what GivesUp keeps in hand is more than the delay.
LEMMA KeptWhenInductive ==
  ASSUME InTime, DhcpInductive
  PROVE  LeaseKept
<1> USE DEF DhcpInductive
<1>1. ASSUME NEW c \in Clients, set[c] PROVE lease[c] > 0
  <2>1. /\ task[c].wait \in Nat /\ task[c].rest \in Nat /\ left[c] \in Nat
        /\ lease[c] \in Nat
    BY DhcpAssumption DEF DhcpTypeOK, Tasks
  <2> QED
    BY <1>1, <2>1, RestFacts, DhcpAssumption DEF GivesUp, InTime
<1> QED
  BY <1>1 DEF LeaseKept, OneLease

\* A host uses the address that DHCP gave it only while the server has given it to this
\* host and to no other (dhcpTask with its retries, renewals and lost or late answers).
THEOREM LeaseKeptAlways == InTime => (DhcpSpec => []LeaseKept)
<1> SUFFICES ASSUME InTime PROVE DhcpSpec => []LeaseKept
  OBVIOUS
<1>1. DhcpInit => DhcpInductive
  BY DhcpInitial
<1>2. DhcpInductive /\ [DhcpNext]_dhcpvars => DhcpInductive'
  BY DhcpStep
<1>3. DhcpInductive => LeaseKept
  BY KeptWhenInductive
<1> QED
  BY <1>1, <1>2, <1>3, PTL DEF DhcpSpec
-----------------------------------------------------------------------------
(***************************************************************************)
(* The name servers: ServersTold for any pool, any servers and any times   *)
(***************************************************************************)

Records == [ip : Servers, added : Nat, lifetime : Nat]

NsTypeOK ==
  /\ dns \in Seq(Records) /\ now \in Nat
  /\ announced \in [Servers -> Nat]

\* One record for a server
OnePerServer(s) ==
  Distinct(s) /\ \A e, f \in Elements(s) : e.ip = f.ip => e = f

NsInductive ==
  /\ NsTypeOK
  /\ OnePerServer(dns)
  /\ \A e \in Elements(dns) : announced[e.ip] = Expiration(e)
  /\ \A o \in rdnss : /\ o.servers \in Seq(Records)
                       /\ \A e \in Elements(o.servers) : ~NsExpired(e)

LEMMA UntilType ==
  ASSUME NEW added \in Nat, NEW lifetime \in Nat
  PROVE  Until(added, lifetime) \in Nat
BY NsAssumption DEF Until

\* There is one that expires first.
LEMMA SoonestFact ==
  ASSUME dns \in Seq(Records), dns # <<>>
  PROVE  Soonest \in DOMAIN dns
<1> DEFINE D == DOMAIN dns
           ends == {Expiration(dns[i]) : i \in D}
<1>1. D \subseteq Nat /\ \A i \in D : Expiration(dns[i]) \in Nat
  <2>1. ASSUME NEW i \in D
        PROVE  Expiration(dns[i]) \in Nat
    <3>1. dns[i] \in Records
      OBVIOUS
    <3> QED
      BY <3>1, UntilType DEF Records, Expiration
  <2> QED
    BY <2>1
<1>2. 1 \in D
  OBVIOUS
<1>3. PICK m \in ends : \A k \in ends : m <= k
  BY <1>1, <1>2, LeastNatural
<1> DEFINE first == {i \in D : Expiration(dns[i]) = m}
<1>4. PICK i \in first : \A j \in first : i <= j
  <2>1. first \subseteq Nat /\ first # {}
    BY <1>1, <1>3
  <2> QED
    BY <2>1, LeastNatural
<1>5. \A j \in D : IF j < i THEN Expiration(dns[j]) > Expiration(dns[i])
                   ELSE Expiration(dns[j]) >= Expiration(dns[i])
  <2> SUFFICES ASSUME NEW j \in D
               PROVE  IF j < i THEN Expiration(dns[j]) > Expiration(dns[i])
                      ELSE Expiration(dns[j]) >= Expiration(dns[i])
    OBVIOUS
  <2>1. Expiration(dns[i]) = m /\ m <= Expiration(dns[j]) /\ m \in Nat
    BY <1>1, <1>3, <1>4
  <2>2. Expiration(dns[j]) = m => i <= j
    BY <1>4
  <2> QED
    BY <1>1, <1>4, <2>1, <2>2
<1> QED
  BY <1>4, <1>5 DEF Soonest

\* The place that uip_nameserver_update takes for a server: its own, if it has one.
LEMMA RecordForFact ==
  ASSUME dns \in Seq(Records), NEW a \in Servers
  PROVE  /\ RecordFor(a) \in 1 .. Len(dns) + 1
         /\ \A i \in DOMAIN dns : dns[i].ip = a =>
              RecordFor(a) \in DOMAIN dns /\ dns[RecordFor(a)].ip = a
<1>1. CASE Known(a) # {}
  <2>1. RecordFor(a) \in Known(a)
    BY <1>1 DEF RecordFor
  <2> QED
    BY <2>1 DEF Known
<1>2. CASE Known(a) = {}
  <2>1. RecordFor(a) \in 1 .. Len(dns) + 1
    BY <1>2, SoonestFact, NsAssumption DEF RecordFor
  <2> QED
    BY <1>2, <2>1 DEF Known
<1> QED
  BY <1>1, <1>2
LEMMA TailFacts ==
  ASSUME NEW T, NEW s \in Seq(T), s # <<>>
  PROVE  /\ Tail(s) \in Seq(T) /\ Head(s) \in Elements(s)
         /\ Elements(Tail(s)) \subseteq Elements(s)
         /\ Distinct(s) => Distinct(Tail(s)) /\ Head(s) \notin Elements(Tail(s))
<1> DEFINE t == Tail(s)
<1>1. t \in Seq(T) /\ Len(t) = Len(s) - 1 /\ DOMAIN t = 1 .. Len(s) - 1 /\ DOMAIN s = 1 .. Len(s)
  OBVIOUS
<1>2. \A i \in 1 .. Len(s) - 1 : t[i] = s[i + 1] /\ i + 1 \in DOMAIN s
  BY <1>1
<1>3. 1 \in DOMAIN s /\ Head(s) = s[1]
  BY <1>1
<1> HIDE DEF t
<1>4. Elements(t) \subseteq Elements(s)
  BY <1>1, <1>2 DEF Elements
<1>5. ASSUME Distinct(s)
      PROVE  Distinct(t) /\ s[1] \notin Elements(t)
  <2>1. Distinct(t)
    BY <1>1, <1>2, <1>5 DEF Distinct
  <2>2. \A i \in DOMAIN t : t[i] # s[1]
    BY <1>1, <1>2, <1>3, <1>5 DEF Distinct
  <2> QED
    BY <2>1, <2>2 DEF Elements
<1> QED
  BY <1>1, <1>3, <1>4, <1>5 DEF t, Elements

\* A purge takes records away only; what it may leave behind of those that are over is
\* the first that stays, and nothing when the head was not over.
LEMMA PurgedFacts ==
  ASSUME NEW s \in Seq(Records), OnePerServer(s)
  PROVE  /\ Purged(s) \in Seq(Records) /\ OnePerServer(Purged(s))
         /\ Elements(Purged(s)) \subseteq Elements(s)
         /\ Purged(s) # <<>> =>
              \A e \in Elements(Tail(Purged(s))) : ~NsExpired(e)
         /\ s # <<>> /\ (\A e \in Elements(Tail(s)) : ~NsExpired(e)) =>
              \A e \in Elements(Purged(s)) : ~NsExpired(e)
<1> DEFINE others == IF s # <<>> /\ NsExpired(Head(s)) THEN Tail(s) ELSE s
           over == {e \in Elements(Tail(others)) : NsExpired(e)}
           rest == Without(Tail(others), over)
<1>1. /\ others \in Seq(Records) /\ Elements(others) \subseteq Elements(s) /\ Distinct(others)
      /\ s # <<>> /\ NsExpired(Head(s)) => Elements(others) \subseteq Elements(Tail(s))
  BY TailFacts DEF OnePerServer
<1>2. CASE others = <<>>
  <2>1. Purged(s) = <<>>
    BY <1>2 DEF Purged
  <2>2. Elements(<<>>) = {} /\ Distinct(<<>>) /\ <<>> \in Seq(Records)
    BY DEF Elements, Distinct
  <2> QED
    BY <2>1, <2>2 DEF OnePerServer
<1>3. CASE others # <<>>
  <2>1. Purged(s) = <<Head(others)>> \o rest
    BY <1>3 DEF Purged
  <2>2. /\ Tail(others) \in Seq(Records) /\ Head(others) \in Elements(others)
        /\ Elements(Tail(others)) \subseteq Elements(others)
        /\ Distinct(Tail(others)) /\ Head(others) \notin Elements(Tail(others))
    BY <1>1, <1>3, TailFacts
  <2>3. /\ rest \in Seq(Records) /\ Elements(rest) = Elements(Tail(others)) \ over
        /\ Distinct(rest)
    BY <2>2, WithoutFacts
  <2>4. Head(others) \in Records
    BY <1>1, <1>3
  <2> HIDE DEF rest, others
  <2>5. /\ Purged(s) \in Seq(Records) /\ Distinct(Purged(s))
        /\ Elements(Purged(s)) = Elements(rest) \cup {Head(others)}
    BY <2>1, <2>2, <2>3, <2>4, ConsFacts
  <2>6. \A e \in Elements(rest) : ~NsExpired(e)
    BY <2>3
  <2>7. Tail(Purged(s)) = rest /\ Purged(s) # <<>>
    BY <2>1, <2>3, <2>4
  <2>8. Elements(Purged(s)) \subseteq Elements(s)
    BY <1>1, <2>2, <2>3, <2>5
  <2>9. OnePerServer(Purged(s))
    BY <2>5, <2>8 DEF OnePerServer
  <2>10. ASSUME s # <<>>, \A e \in Elements(Tail(s)) : ~NsExpired(e)
         PROVE  ~NsExpired(Head(others))
    <3>1. CASE NsExpired(Head(s))
      BY <1>1, <2>2, <2>10, <3>1
    <3>2. CASE ~NsExpired(Head(s))
      BY <3>2 DEF others
    <3> QED
      BY <3>1, <3>2
  <2> QED
    BY <2>5, <2>6, <2>7, <2>8, <2>9, <2>10
<1> QED
  BY <1>2, <1>3

\* An option or an application tells of a server.
LEMMA UpdateInductive ==
  ASSUME NsInductive, NEW a \in Servers, NEW lifetime \in Nat, Update(a, lifetime),
         rdnss' = {}, now' = now
  PROVE  NsInductive'
<1> USE DEF NsInductive, NsTypeOK
<1> DEFINE i == RecordFor(a)
           e == [ip |-> a, added |-> now, lifetime |-> lifetime]
<1>1. /\ i \in 1 .. Len(dns) + 1
      /\ \A j \in DOMAIN dns : dns[j].ip = a => i \in DOMAIN dns /\ dns[i].ip = a
  BY RecordForFact
<1>2. /\ announced' \in [Servers -> Nat]
      /\ announced'[a] = IF lifetime = 0 THEN 0 ELSE Until(now, lifetime)
      /\ \A b \in Servers : b # a => announced'[b] = announced[b]
  BY UntilType DEF Update
<1>3. e \in Records /\ Expiration(e) = Until(now, lifetime) /\ e.ip = a
  BY DEF Records, Expiration
<1>4. \A f \in Elements(dns) : f \in Records /\ announced[f.ip] = Expiration(f)
  BY DEF Elements
<1>5. \A f \in Elements(dns) : f.ip = a => i \in DOMAIN dns /\ f = dns[i]
  BY <1>1 DEF Elements, OnePerServer
<1> HIDE DEF i, e
<1>6. CASE lifetime > 0 /\ i > Len(dns)
  <2>1. dns' = Append(dns, e)
    BY <1>6 DEF Update, i, e
  <2>2. \A f \in Elements(dns) : f.ip # a
    BY <1>5, <1>6
  <2>3. /\ dns' \in Seq(Records) /\ Elements(dns') = Elements(dns) \cup {e}
        /\ Distinct(dns')
    BY <1>3, <2>1, <2>2, AppendFacts DEF OnePerServer
  <2>4. OnePerServer(dns)'
    BY <1>3, <2>2, <2>3 DEF OnePerServer
  <2>5. \A f \in Elements(dns') : announced'[f.ip] = Expiration(f)
    BY <1>2, <1>3, <1>4, <1>6, <2>2, <2>3 DEF Records
  <2> QED
    BY <1>2, <2>3, <2>4, <2>5 DEF Expiration, NsExpired, Until
<1>7. CASE lifetime > 0 /\ i <= Len(dns)
  <2>1. dns' = [dns EXCEPT ![i] = e] /\ i \in DOMAIN dns
    BY <1>1, <1>7 DEF Update, i, e
  <2>2. /\ dns' \in Seq(Records) /\ DOMAIN dns' = DOMAIN dns
        /\ \A j \in DOMAIN dns : dns'[j] = IF j = i THEN e ELSE dns[j]
    BY <1>3, <2>1
  <2>3. \A j \in DOMAIN dns : j # i => dns[j].ip # a /\ dns[j] \in Elements(dns)
    BY <1>5, <2>1 DEF OnePerServer, Distinct, Elements
  <2>4. OnePerServer(dns)'
    <3>1. Distinct(dns')
      BY <1>3, <2>2, <2>3 DEF OnePerServer, Distinct
    <3>2. \A f, g \in Elements(dns') : f.ip = g.ip => f = g
      BY <1>3, <2>2, <2>3 DEF OnePerServer, Elements
    <3> QED
      BY <3>1, <3>2 DEF OnePerServer
  <2>5. \A f \in Elements(dns') : announced'[f.ip] = Expiration(f)
    <3>1. announced'[e.ip] = Expiration(e)
      BY <1>2, <1>3, <1>7
    <3>2. \A j \in DOMAIN dns : j # i => announced'[dns[j].ip] = Expiration(dns[j])
      BY <1>2, <1>4, <2>3 DEF Records
    <3> QED
      BY <2>2, <3>1, <3>2 DEF Elements
  <2> QED
    BY <1>2, <2>2, <2>4, <2>5 DEF Expiration, NsExpired, Until
<1>8. CASE lifetime = 0
  <2>1. \/ dns' = dns /\ \A f \in Elements(dns) : f.ip # a
        \/ dns' = Without(dns, {dns[i]}) /\ i \in DOMAIN dns
    BY <1>1, <1>5, <1>8 DEF Update, i
  <2>2. /\ dns' \in Seq(Records) /\ Distinct(dns')
        /\ Elements(dns') \subseteq Elements(dns)
        /\ \A f \in Elements(dns') : f.ip # a
    BY <1>5, <2>1, WithoutFacts DEF OnePerServer
  <2>3. OnePerServer(dns)'
    BY <2>2 DEF OnePerServer
  <2>4. \A f \in Elements(dns') : announced'[f.ip] = Expiration(f)
    BY <1>2, <1>4, <2>2 DEF Records
  <2> QED
    BY <1>2, <2>2, <2>3, <2>4 DEF Expiration, NsExpired, Until
<1> QED
  BY <1>1, <1>6, <1>7, <1>8
LEMMA NsInductiveInit == NsInit => NsInductive
BY DEF NsInit, NsInductive, NsTypeOK, OnePerServer, Elements, Distinct

LEMMA NsInductiveNext == NsInductive /\ [NsNext]_nsvars => NsInductive'
<1> SUFFICES ASSUME NsInductive, [NsNext]_nsvars
             PROVE  NsInductive'
  OBVIOUS
<1> USE DEF NsInductive, NsTypeOK
<1>1. CASE NsAnnounced
  BY <1>1, NsAssumption, UpdateInductive DEF NsAnnounced
<1>2. CASE NsGet
  <2>1. /\ dns' \in Seq(Records) /\ OnePerServer(dns')
        /\ Elements(dns') \subseteq Elements(dns)
    BY <1>2, PurgedFacts DEF NsGet
  <2> QED
    BY <1>2, <2>1 DEF NsGet, Expiration, Until, OnePerServer
<1>3. CASE NsAdvertise
  <2> DEFINE once == Purged(dns)
  <2>1. /\ once \in Seq(Records) /\ OnePerServer(once) /\ Elements(once) \subseteq Elements(dns)
        /\ once # <<>> => \A e \in Elements(Tail(once)) : ~NsExpired(e)
    BY PurgedFacts
  <2> HIDE DEF once
  <2>2. /\ Purged(once) \in Seq(Records) /\ OnePerServer(Purged(once))
        /\ Elements(Purged(once)) \subseteq Elements(once)
        /\ \A e \in Elements(Purged(once)) : ~NsExpired(e)
    <3>1. CASE once = <<>>
      <4>1. Elements(once) = {}
        BY <3>1 DEF Elements
      <4> QED
        BY <2>1, <4>1, PurgedFacts
    <3>2. CASE once # <<>>
      BY <2>1, <3>2, PurgedFacts
    <3> QED
      BY <3>1, <3>2
  <2>3. /\ dns' = Purged(once) /\ UNCHANGED <<now, announced>>
        /\ \A o \in rdnss' : o.servers = dns'
    BY <1>3 DEF NsAdvertise, once
  <2> QED
    BY <2>1, <2>2, <2>3 DEF Expiration, Until, NsExpired, OnePerServer
<1>4. CASE NsTick
  BY <1>4 DEF NsTick, Expiration, Until, NsExpired
<1>5. CASE UNCHANGED nsvars
  BY <1>5 DEF nsvars, Expiration, Until, NsExpired
<1> QED
  BY <1>1, <1>2, <1>3, <1>4, <1>5 DEF NsNext

\* A record says of its server what was announced last, no server has two or has one
\* after it was withdrawn, and none that is over is advertised, for any size of the
\* pool and any lifetimes (uip_nameserver_update, purge, uip_nd6_ra_output).
THEOREM ServersToldAlways == NsSpec => []ServersTold
<1>1. NsInductive => ServersTold
  <2> SUFFICES ASSUME NsInductive
               PROVE  ServersTold
    OBVIOUS
  <2>1. \A i, j \in DOMAIN dns : dns[i].ip = dns[j].ip => i = j
    BY DEF NsInductive, OnePerServer, Distinct, Elements
  <2>2. \A i \in DOMAIN dns : announced[dns[i].ip] = Expiration(dns[i])
    BY DEF NsInductive, Elements
  <2>3. ASSUME NEW o \in rdnss, NEW i \in DOMAIN o.servers
        PROVE  Expiration(o.servers[i]) >= now
    <3>1. o.servers[i] \in Records /\ ~NsExpired(o.servers[i])
      BY DEF NsInductive, Elements
    <3>2. Expiration(o.servers[i]) \in Nat /\ now \in Nat
      BY <3>1, UntilType DEF Expiration, Records, NsInductive, NsTypeOK
    <3> QED
      BY <3>1, <3>2 DEF NsExpired
  <2> QED
    BY <2>1, <2>2, <2>3 DEF ServersTold
<1> QED
  BY <1>1, NsInductiveInit, NsInductiveNext, PTL DEF NsSpec
-----------------------------------------------------------------------------
(***************************************************************************)
(* ARP and the split of packets: ArpRight and SplitWhole for any number of *)
(* machines, entries and exchanges of machines                             *)
(***************************************************************************)

\* Ethernet addresses that machines have or had
Eths == [of : Machines, k : Nat]

ArpTypeOK ==
  /\ arptable \in [Machines -> [Slots -> [ip : Machines \cup {Zero}, eth : Eths \cup {NoEth}, time : Nat]]]
  /\ arptime \in [Machines -> Nat]
  /\ macs \in [Machines -> Nat]
  /\ asked \in Nat
  /\ \A f \in wire : f.at \in Machines

\* The machine has or had this Ethernet address.
EthOf(m, eth) == eth \in Eths /\ eth.of = m /\ eth.k <= macs[m]

\* An entry in use holds an address of its machine, and one that was never used none:
\* uip_arp_timer frees none.
TableRight ==
  \A n \in Machines : \A i \in Slots :
    LET e == arptable[n][i]
    IN IF e.ip = Zero THEN e.eth = NoEth ELSE EthOf(e.ip, e.eth)

\* So do requests and replies say one of their sender.
MessagesRight ==
  \A f \in wire : f.body.type = "arp" => f.body.sip \in Machines /\ EthOf(f.body.sip, f.body.seth)

PacketsRight ==
  \A f \in wire : f.body.type = "ip" /\ f.dest # BCast =>
    NextHop(f.body.dst) \in Machines /\ EthOf(NextHop(f.body.dst), f.dest)

ArpInductive == ArpTypeOK /\ TableRight /\ MessagesRight /\ PacketsRight

\* A packet with the bytes that its sequence number says
Whole(p) ==
  /\ p.data \in Seq(Nat) /\ p.seq \in Nat
  /\ \A i \in 1 .. Len(p.data) : p.data[i] = p.seq + i

AllWhole == /\ \A f \in wire : f.body.type = "ip" => Whole(f.body)
            /\ \A p \in taken : Whole(p)
\* Addresses that a machine had it keeps having had.
LEMMA EthKept ==
  ASSUME NEW m \in Machines, NEW eth, EthOf(m, eth), ArpTypeOK, macs'[m] >= macs[m],
         macs'[m] \in Nat
  PROVE  EthOf(m, eth)'
BY DEF EthOf, ArpTypeOK, Eths

LEMMA EthNow ==
  ASSUME NEW n \in Machines, ArpTypeOK
  PROVE  EthOf(n, EthAddr(n))
BY DEF EthOf, ArpTypeOK, Eths, EthAddr

\* What uip_arp_out finds is an entry for the next hop.
LEMMA EntryFact ==
  ASSUME NEW n, NEW dst, Entry(n, dst) # 0
  PROVE  Entry(n, dst) \in Slots /\ arptable[n][Entry(n, dst)].ip = NextHop(dst)
<1> DEFINE found == {i \in Slots : arptable[n][i].ip = NextHop(dst)}
<1>1. found # {} /\ found \subseteq Nat
  BY DEF Entry, First, Slots
<1>2. \E i \in found : \A j \in found : i <= j
  BY <1>1, LeastNatural
<1>3. First(found) \in found
  BY <1>1, <1>2 DEF First
<1> QED
  BY <1>3 DEF Entry

LEMMA SendFact ==
  ASSUME NEW n, NEW eth, NEW body, NEW f \in Send(n, eth, body)
  PROVE  /\ f.at \in Machines /\ f.dest = eth /\ f.body = body
         /\ eth = BCast \/ eth = EthAddr(f.at)
BY DEF Send, Receivers

\* What goes out of uip_arp_out: the packet, to its next hop, or a request of ours
LEMMA ArpOutRight ==
  ASSUME ArpInductive, NEW n \in Machines, NEW p, p.type # "arp", NEW f \in ArpOut(n, p)
  PROVE  /\ f.at \in Machines
         /\ f.body.type = "arp" => f.body.sip \in Machines /\ EthOf(f.body.sip, f.body.seth)
         /\ f.body.type = "ip" => f.body = p
         /\ f.body.type = "ip" /\ f.dest # BCast =>
              NextHop(f.body.dst) \in Machines /\ EthOf(NextHop(f.body.dst), f.dest)
<1>1. CASE p.dst = BCast
  BY <1>1, SendFact DEF ArpOut
<1>2. CASE p.dst # BCast /\ Resolves(n, p.dst)
  <2> DEFINE i == Entry(n, p.dst)
             e == arptable[n][i]
  <2>1. f \in Send(n, e.eth, p)
    BY <1>2 DEF ArpOut
  <2>2. i \in Slots /\ e.ip = NextHop(p.dst)
    BY <1>2, EntryFact DEF Resolves
  <2>3. IF e.ip = Zero THEN e.eth = NoEth ELSE EthOf(e.ip, e.eth)
    BY <2>2 DEF ArpInductive, TableRight
  <2>4. e.ip \in Machines \cup {Zero}
    BY <2>2 DEF ArpInductive, ArpTypeOK
  <2> HIDE DEF e
  <2>5. f.at \in Machines /\ f.dest = e.eth /\ f.body = p /\ (e.eth = BCast \/ e.eth = EthAddr(f.at))
    BY <2>1, SendFact
  <2>6. e.ip = Zero => e.eth = BCast
    BY <2>3, <2>5, ArpAssumption DEF NoEth, EthAddr
  <2> QED
    BY <2>2, <2>3, <2>4, <2>5, <2>6
<1>3. CASE p.dst # BCast /\ ~Resolves(n, p.dst)
  <2> DEFINE b == ArpMessage(n, "request", NextHop(p.dst))
  <2>1. f.at \in Machines /\ f.body = b
    BY <1>3, SendFact DEF ArpOut
  <2>2. b.type = "arp" /\ b.sip = n /\ b.seth = EthAddr(n)
    BY DEF ArpMessage
  <2> QED
    BY <2>1, <2>2, EthNow DEF ArpInductive
<1> QED
  BY <1>1, <1>2, <1>3
\* The bytes of both halves are what their sequence numbers say, when memcpy copies
\* upwards.
LEMMA HalvesWhole ==
  ASSUME NEW dst, NEW seq \in Nat, NEW len \in Nat, NEW order, order # "down"
  PROVE  LET p == TcpSegment(dst, seq, Bytes(seq, len))
         IN /\ p.type = "ip" /\ p.dst = dst /\ Whole(p)
            /\ \A i \in 1 .. 2 : /\ Halves(p, order)[i].type = "ip"
                                 /\ Halves(p, order)[i].dst = dst
                                 /\ Whole(Halves(p, order)[i])
<1> DEFINE data == Bytes(seq, len)
           p == TcpSegment(dst, seq, data)
           half == len \div 2
           one == SubSeq(data, 1, half)
           two == SubSeq(data, half + 1, len)
<1>1. half \in Nat /\ half <= len
  OBVIOUS
<1>2. data \in Seq(Nat) /\ Len(data) = len /\ \A i \in 1 .. len : data[i] = seq + i
  BY DEF Bytes
<1> HIDE DEF half, data
<1>3. /\ one \in Seq(Nat) /\ Len(one) = half
      /\ \A i \in 1 .. half : one[i] = seq + i
  <2>1. \A i \in 1 .. half : data[i] \in Nat
    BY <1>1, <1>2
  <2>2. /\ one \in Seq(Nat) /\ Len(one) = IF 1 <= half THEN half - 1 + 1 ELSE 0
        /\ \A i \in 1 .. half - 1 + 1 : one[i] = data[1 + i - 1]
    BY <1>1, <2>1, SubSeqProperties
  <2> QED
    BY <1>1, <1>2, <2>2
<1>4. /\ two \in Seq(Nat) /\ Len(two) = len - half
      /\ \A i \in 1 .. len - half : two[i] = seq + half + i
  <2>1. \A i \in half + 1 .. len : data[i] \in Nat
    BY <1>1, <1>2
  <2>2. /\ two \in Seq(Nat)
        /\ Len(two) = IF half + 1 <= len THEN len - (half + 1) + 1 ELSE 0
        /\ \A i \in 1 .. len - (half + 1) + 1 : two[i] = data[half + 1 + i - 1]
    BY <1>1, <2>1, SubSeqProperties
  <2> QED
    BY <1>1, <1>2, <2>2
<1> HIDE DEF one, two
<1>5. /\ Halves(p, order)[1] = TcpSegment(dst, seq, one)
      /\ Halves(p, order)[2] = TcpSegment(dst, seq + half, two)
  BY <1>2 DEF Halves, TcpSegment, Moved, half, one, two
<1>6. Whole(TcpSegment(dst, seq, one)) /\ Whole(TcpSegment(dst, seq + half, two))
  BY <1>1, <1>3, <1>4 DEF Whole, TcpSegment
<1>7. Whole(p) /\ p.type = "ip" /\ p.dst = dst
  BY <1>2 DEF Whole, TcpSegment
<1>8. \A i \in 1 .. 2 : i = 1 \/ i = 2
  OBVIOUS
<1> QED
  BY <1>5, <1>6, <1>7, <1>8 DEF data, TcpSegment

\* What is sent for a segment
LEMMA SplitOutputRight ==
  ASSUME ArpInductive, NEW n \in Machines, NEW dst, NEW seq \in Nat, NEW len \in Nat, NEW order,
         NEW f \in SplitOutput(n, TcpSegment(dst, seq, Bytes(seq, len)), order)
  PROVE  /\ f.at \in Machines
         /\ f.body.type = "arp" => f.body.sip \in Machines /\ EthOf(f.body.sip, f.body.seth)
         /\ f.body.type = "ip" /\ f.dest # BCast =>
              NextHop(f.body.dst) \in Machines /\ EthOf(NextHop(f.body.dst), f.dest)
         /\ f.body.type = "ip" /\ order # "down" => Whole(f.body)
<1> DEFINE p == TcpSegment(dst, seq, Bytes(seq, len))
           parts == Halves(p, order)
<1>1. PICK s : f \in ArpOut(n, s) /\ s \in {p, parts[1], parts[2], Junk}
  BY DEF SplitOutput
<1>2. p.type = "ip" /\ parts[1].type = "ip" /\ parts[2].type = "ip" /\ Junk.type = "junk"
  BY DEF Halves, TcpSegment, Junk
<1>3. ASSUME order # "down"
      PROVE  Whole(p) /\ Whole(parts[1]) /\ Whole(parts[2])
  <2>1. 1 \in 1 .. 2 /\ 2 \in 1 .. 2
    OBVIOUS
  <2> QED
    BY <1>3, <2>1, HalvesWhole
<1> HIDE DEF p, parts
<1>4. s.type # "arp" /\ (order # "down" /\ s.type = "ip" => Whole(s))
  BY <1>1, <1>2, <1>3
<1> QED
  BY <1>1, <1>4, ArpOutRight

\* Frames that are taken from the Ethernet, and others put on it.
LEMMA WireStep ==
  ASSUME ArpInductive, ArpTypeOK', TableRight', UNCHANGED macs,
         \A f \in wire' \ wire :
           /\ f.body.type = "arp" => f.body.sip \in Machines /\ EthOf(f.body.sip, f.body.seth)
           /\ f.body.type = "ip" /\ f.dest # BCast =>
                NextHop(f.body.dst) \in Machines /\ EthOf(NextHop(f.body.dst), f.dest)
  PROVE  ArpInductive'
<1>1. \A m, eth : EthOf(m, eth)' <=> EthOf(m, eth)
  BY DEF EthOf
<1>2. MessagesRight'
  BY <1>1 DEF ArpInductive, MessagesRight
<1>3. PacketsRight'
  BY <1>1 DEF ArpInductive, PacketsRight
<1> QED
  BY <1>2, <1>3 DEF ArpInductive

\* Whatever comes from the sender of a message is learned rightly.
LEMMA LearnRight ==
  ASSUME ArpInductive, NEW n \in Machines, NEW b, b.sip \in Machines, EthOf(b.sip, b.seth),
         Learn(n, b), UNCHANGED <<macs, arptime, asked>>, \A f \in wire' : f.at \in Machines
  PROVE  ArpTypeOK' /\ TableRight'
<1> DEFINE j == SlotFor(arptable[n], b.sip, arptime[n])
           e == [ip |-> b.sip, eth |-> b.seth, time |-> arptime[n]]
           E == [ip : Machines \cup {Zero}, eth : Eths \cup {NoEth}, time : Nat]
<1>1. e \in E /\ b.sip # Zero
  BY ArpAssumption DEF ArpInductive, ArpTypeOK, EthOf
<1>2. arptable' = [arptable EXCEPT ![n] = [@ EXCEPT ![j] = e]]
  BY DEF Learn, Updated
<1> HIDE DEF j, e
<1>3. arptable' \in [Machines -> [Slots -> E]]
  BY <1>1, <1>2 DEF ArpInductive, ArpTypeOK
<1>4. \A m \in Machines : \A i \in Slots :
        arptable'[m][i] = arptable[m][i] \/ arptable'[m][i] = e
  BY <1>2 DEF ArpInductive, ArpTypeOK
<1>5. TableRight'
  BY <1>1, <1>4 DEF ArpInductive, TableRight, EthOf, e
<1> QED
  BY <1>3, <1>5 DEF ArpInductive, ArpTypeOK
LEMMA ArpInductiveInit == ArpInit => ArpInductive /\ AllWhole
<1> SUFFICES ASSUME ArpInit
             PROVE  ArpInductive /\ AllWhole
  OBVIOUS
<1>1. ArpTypeOK
  BY DEF ArpInit, ArpTypeOK
<1>2. TableRight
  BY DEF ArpInit, TableRight
<1> QED
  BY <1>1, <1>2 DEF ArpInit, ArpInductive, MessagesRight, PacketsRight, AllWhole

LEMMA ArpInductiveNext == ArpInductive /\ [ArpNext]_arpvars => ArpInductive'
<1> SUFFICES ASSUME ArpInductive, [ArpNext]_arpvars
             PROVE  ArpInductive'
  OBVIOUS
<1>0. ArpTypeOK /\ TableRight /\ MessagesRight
  BY DEF ArpInductive
<1>1. ASSUME UNCHANGED <<arptable, arptime, macs, asked>>, wire' \subseteq wire
      PROVE  ArpInductive'
  <2>1. ArpTypeOK' /\ TableRight'
    BY <1>0, <1>1 DEF ArpTypeOK, TableRight, EthOf
  <2> QED
    BY <1>1, <2>1, WireStep
<1>2. ASSUME NEW n \in Senders, SendSegment(n)
      PROVE  ArpInductive'
  <2>1. n \in Machines /\ asked \in Nat /\ UNCHANGED <<arptable, arptime, macs>>
    BY <1>0, <1>2, ArpAssumption DEF ArpTypeOK, SendSegment
  <2>2. PICK dst \in (Machines \ {n}) \cup {Away, BCast}, len \in Segments, order \in CopyOrders :
          wire' = wire \cup SplitOutput(n, TcpSegment(dst, asked, Bytes(asked, len)), order)
    BY <1>2, Zenon DEF SendSegment
  <2>a. len \in Nat
    BY ArpAssumption
  <2>3. \A f \in wire' \ wire :
          /\ f.at \in Machines
          /\ f.body.type = "arp" => f.body.sip \in Machines /\ EthOf(f.body.sip, f.body.seth)
          /\ f.body.type = "ip" /\ f.dest # BCast =>
               NextHop(f.body.dst) \in Machines /\ EthOf(NextHop(f.body.dst), f.dest)
    BY <2>1, <2>2, <2>a, SplitOutputRight
  <2>4. ArpTypeOK' /\ TableRight'
    BY <1>0, <1>2, <2>1, <2>3 DEF ArpTypeOK, TableRight, EthOf, SendSegment
  <2> QED
    BY <2>1, <2>3, <2>4, WireStep
<1>3. ASSUME NEW n \in Senders, ArpTimer(n)
      PROVE  ArpInductive'
  <2> DEFINE ticks == (arptime[n] + 1) % TimeMod
  <2>1. n \in Machines /\ ticks \in Nat
    BY <1>0, ArpAssumption DEF ArpTypeOK
  <2>2. /\ arptime' = [arptime EXCEPT ![n] = ticks]
        /\ arptable' = [arptable EXCEPT ![n] = Forgotten(@, ticks)]
        /\ UNCHANGED <<macs, wire, taken, asked>>
    BY <1>3 DEF ArpTimer
  <2> HIDE DEF ticks
  <2>3. Forgotten(arptable[n], ticks) = arptable[n]
    BY <1>0, <2>1 DEF ArpTypeOK, Forgotten
  <2>4. arptable' = arptable
    BY <1>0, <2>1, <2>2, <2>3 DEF ArpTypeOK
  <2>5. ArpTypeOK' /\ TableRight'
    BY <1>0, <2>1, <2>2, <2>4 DEF ArpTypeOK, TableRight, EthOf
  <2> QED
    BY <2>2, <2>5, WireStep
<1>4. ASSUME NEW n \in Machines, Exchange(n)
      PROVE  ArpInductive'
  <2>1. /\ macs' \in [Machines -> Nat]
        /\ \A m \in Machines : macs'[m] \in Nat /\ macs'[m] >= macs[m]
    BY <1>0, <1>4 DEF ArpTypeOK, Exchange
  <2>2. \A eth : \A m \in Machines : EthOf(m, eth) => EthOf(m, eth)'
    BY <1>0, <2>1, EthKept
  <2>3. /\ wire' \subseteq wire /\ asked' = asked
        /\ arptable' = [arptable EXCEPT ![n] =
             [i \in Slots |-> [ip |-> Zero, eth |-> NoEth, time |-> 0]]]
        /\ arptime' = [arptime EXCEPT ![n] = 0]
    BY <1>4 DEF Exchange
  <2>4. ArpTypeOK'
    BY <1>0, <2>1, <2>3 DEF ArpTypeOK
  <2>5. TableRight'
    BY <1>0, <2>2, <2>3 DEF ArpTypeOK, TableRight
  <2>6. MessagesRight' /\ PacketsRight'
    BY <2>2, <2>3 DEF ArpInductive, MessagesRight, PacketsRight
  <2> QED
    BY <2>4, <2>5, <2>6 DEF ArpInductive
<1>5. ASSUME NEW f \in wire, ArpRequestIn(f) \/ ArpReplyIn(f)
      PROVE  ArpInductive'
  <2> DEFINE n == f.at
             b == f.body
  <2>1. /\ n \in Machines /\ b.sip \in Machines /\ EthOf(b.sip, b.seth)
        /\ Learn(n, b) /\ UNCHANGED <<arptime, macs, asked>>
    BY <1>0, <1>5 DEF ArpTypeOK, MessagesRight, ArpRequestIn, ArpReplyIn
  <2>2. wire' \subseteq (wire \ {f}) \cup Send(n, b.seth, ArpMessage(n, "reply", b.sip))
    BY <1>5 DEF ArpRequestIn, ArpReplyIn
  <2> HIDE DEF n, b
  <2>3. \A g \in wire' \ wire : g.at \in Machines /\ g.body = ArpMessage(n, "reply", b.sip)
    BY <2>2, SendFact
  <2>4. ArpTypeOK' /\ TableRight'
    BY <1>0, <2>1, <2>3, LearnRight DEF ArpTypeOK
  <2>5. EthOf(n, EthAddr(n))
    BY <1>0, <2>1, EthNow
  <2> QED
    BY <2>1, <2>3, <2>4, <2>5, WireStep DEF ArpMessage
<1>6. ASSUME NEW f \in wire, SegmentIn(f) \/ DropFrame(f)
      PROVE  ArpInductive'
  BY <1>1, <1>6 DEF SegmentIn, DropFrame
<1>7. CASE UNCHANGED arpvars
  BY <1>1, <1>7 DEF arpvars
<1> QED
  BY <1>2, <1>3, <1>4, <1>5, <1>6, <1>7 DEF ArpNext

\* A packet goes to an Ethernet address that its next hop has or had, for any number of
\* machines, any sizes of tables and segments and any order and loss of frames
\* (uip_arp_update, uip_arp_out).
THEOREM ArpRightAlways == ArpSpec => []ArpRight
<1>1. ArpInductive => ArpRight
  BY DEF ArpInductive, PacketsRight, ArpRight, EthOf
<1> QED
  BY <1>1, ArpInductiveInit, ArpInductiveNext, PTL DEF ArpSpec

LEMMA AllWholeNext ==
  ASSUME "down" \notin CopyOrders
  PROVE  ArpInductive /\ AllWhole /\ [ArpNext]_arpvars => AllWhole'
<1> SUFFICES ASSUME ArpInductive, AllWhole, [ArpNext]_arpvars
             PROVE  AllWhole'
  OBVIOUS
<1>1. ASSUME \A f \in wire' \ wire : f.body.type # "ip", taken' = taken
      PROVE  AllWhole'
  BY <1>1 DEF AllWhole
<1>2. ASSUME NEW n \in Senders, SendSegment(n)
      PROVE  AllWhole'
  <2>1. n \in Machines /\ asked \in Nat
    BY ArpAssumption DEF ArpInductive, ArpTypeOK
  <2>2. PICK dst \in (Machines \ {n}) \cup {Away, BCast}, len \in Segments, order \in CopyOrders :
          wire' = wire \cup SplitOutput(n, TcpSegment(dst, asked, Bytes(asked, len)), order)
    BY <1>2, Zenon DEF SendSegment
  <2>a. len \in Nat /\ order # "down"
    BY ArpAssumption
  <2>3. \A f \in wire' \ wire : f.body.type = "ip" => Whole(f.body)
    BY <2>1, <2>2, <2>a, SplitOutputRight
  <2> QED
    BY <1>2, <2>3 DEF AllWhole, SendSegment
<1>3. ASSUME NEW f \in wire, ArpRequestIn(f) \/ ArpReplyIn(f)
      PROVE  AllWhole'
  BY <1>1, <1>3, SendFact DEF ArpRequestIn, ArpReplyIn, ArpMessage
<1>4. ASSUME NEW f \in wire, SegmentIn(f)
      PROVE  AllWhole'
  BY <1>4 DEF SegmentIn, AllWhole
<1>5. ASSUME NEW f \in wire, DropFrame(f)
      PROVE  AllWhole'
  BY <1>1, <1>5 DEF DropFrame
<1>6. ASSUME NEW n, ArpTimer(n) \/ Exchange(n)
      PROVE  AllWhole'
  BY <1>1, <1>6 DEF ArpTimer, Exchange
<1> QED
  BY <1>1, <1>2, <1>3, <1>4, <1>5, <1>6 DEF ArpNext, arpvars

\* Each byte that TCP gets is the one that its sequence number says, whatever lengths
\* are split, when memcpy copies upwards (uip_split_output).
THEOREM SplitWholeAlways ==
  ASSUME "down" \notin CopyOrders
  PROVE  ArpSpec => []SplitWhole
<1>1. AllWhole => SplitWhole
  BY DEF AllWhole, Whole, SplitWhole
<1>2. ArpInductive /\ AllWhole /\ [ArpNext]_arpvars => AllWhole'
  BY AllWholeNext
<1> QED
  BY <1>1, <1>2, ArpInductiveInit, ArpInductiveNext, PTL DEF ArpSpec
-----------------------------------------------------------------------------
(***************************************************************************)
(* The event timers: TimersOnTime for any number of timers and any clock   *)
(* that is long enough for an interval and three delays                    *)
(***************************************************************************)

TimerFields == [active : BOOLEAN, start : 0 .. ClockMod - 1, interval : Intervals \cup {0}]

EtimerTypeOK ==
  /\ clock \in 0 .. ClockMod - 1
  /\ timerlist \in Seq(Timers)
  /\ et \in [Timers -> TimerFields]
  /\ wake \in [left : Nat, fired : BOOLEAN]
  /\ poller \in [pc : {"out", "poll", "update", "set"}, at : Nat \ {0}, now : 0 .. ClockMod - 1]
  /\ late \in [last : 0 .. 3 * MaxLate, waits : 0 .. MaxLate]
  /\ missed \subseteq Timers

\* How long ago a timer was set; no timer is on the list for so long that this wraps,
\* but for those that were missed.
Age(e) == Minus(clock, e.start)
Kept == Elements(timerlist) \ missed

\* The timers of a list run.
Running(ts, es) == \A t \in Elements(ts) : es[t].active /\ es[t].interval \in Intervals

\* None is later than etimer_timer was set late and has fired since, or than a poll was
\* begun late too and has gone on since.
LatestBy == IF poller.pc = "poll" THEN late.waits + 2 * MaxLate ELSE late.waits + MaxLate
NoneTooLate == \A t \in Kept : Age(et[t]) <= et[t].interval + LatestBy

\* Those that the loop has passed had not run out then.
PassedInTime ==
  poller.pc = "poll" =>
    \A i \in 1 .. Len(timerlist) :
      i < poller.at /\ timerlist[i] \notin missed =>
        Age(et[timerlist[i]]) <= et[timerlist[i]].interval + late.waits

\* update_time has read the clock a while ago, but no timer was set since.
ReadBefore ==
  poller.pc = "set" =>
    /\ Minus(clock, poller.now) <= late.waits
    /\ \A t \in Kept : Minus(clock, poller.now) <= Age(et[t])

\* While etimer_timer has not fired, it runs and fires for the first timer, if it was set late
\* as late as that.
WakesInTime ==
  poller.pc = "out" /\ ~wake.fired =>
    \A t \in Kept : wake.left >= 1 /\ Age(et[t]) + wake.left <= et[t].interval + MaxLate

EtimerInductive ==
  /\ EtimerTypeOK
  /\ poller.pc # "poll" => poller.at = 1
  /\ Running(timerlist, et)
  /\ NoneTooLate
  /\ PassedInTime
  /\ ReadBefore
  /\ WakesInTime

-----------------------------------------------------------------------------
(* The clock *)

LEMMA WrapFacts ==
  ASSUME NEW k \in Nat, k < 2 * ClockMod
  PROVE  /\ Wrap(k) \in 0 .. ClockMod - 1
         /\ Wrap(k) = IF k < ClockMod THEN k ELSE k - ClockMod
BY EtimerAssumption DEF Wrap

LEMMA MinusFacts ==
  ASSUME NEW i \in 0 .. ClockMod - 1, NEW j \in 0 .. ClockMod - 1
  PROVE  /\ Minus(i, j) \in 0 .. ClockMod - 1
         /\ Minus(i, j) = IF j <= i THEN i - j ELSE i + ClockMod - j
<1>1. i + ClockMod - j \in Nat /\ i + ClockMod - j < 2 * ClockMod
  BY EtimerAssumption
<1> QED
  BY <1>1, WrapFacts, EtimerAssumption DEF Wrap, Minus

LEMMA IntervalFacts ==
  ASSUME NEW k \in Intervals
  PROVE  k \in Nat /\ k >= 1 /\ k + 3 * MaxLate < ClockMod /\ MaxLate \in Nat
BY EtimerAssumption

\* timer_expired, and how late that is
LEMMA AgeFacts ==
  ASSUME NEW e \in TimerFields, e.interval \in Intervals, clock \in 0 .. ClockMod - 1
  PROVE  /\ Age(e) \in 0 .. ClockMod - 1
         /\ TimerExpired(e) <=> e.interval <= Age(e)
         /\ Wrap(e.start + e.interval) \in 0 .. ClockMod - 1
         /\ e.interval <= Age(e) =>
              Minus(clock, Wrap(e.start + e.interval)) = Age(e) - e.interval
<1> DEFINE s == e.start
           k == e.interval
           end == Wrap(s + k)
<1>1. s \in 0 .. ClockMod - 1 /\ k \in 0 .. ClockMod - 1
  <2>1. s \in 0 .. ClockMod - 1
    BY DEF TimerFields
  <2>2. k \in Nat /\ k + 3 * MaxLate < ClockMod /\ MaxLate \in Nat
    BY IntervalFacts
  <2> QED
    BY <2>1, <2>2, EtimerAssumption
<1>2. Age(e) \in 0 .. ClockMod - 1 /\ Age(e) = IF s <= clock THEN clock - s ELSE clock + ClockMod - s
  BY <1>1, MinusFacts DEF Age
<1>3. end \in 0 .. ClockMod - 1 /\ end = IF s + k < ClockMod THEN s + k ELSE s + k - ClockMod
  <2> HIDE DEF s, k
  <2>1. s + k \in Nat /\ s + k < 2 * ClockMod
    BY <1>1, EtimerAssumption
  <2> QED
    BY <1>1, <2>1, WrapFacts, EtimerAssumption DEF end
<1>4. Minus(clock, end) = IF end <= clock THEN clock - end ELSE clock + ClockMod - end
  BY <1>3, MinusFacts
<1>5. TimerExpired(e) <=> k <= Age(e)
  <2>1. TimerExpired(e) <=> k < Age(e) + 1
    BY DEF TimerExpired, Age
  <2> QED
    BY <1>1, <1>2, <2>1
<1> HIDE DEF end, s, k
<1>6. k <= Age(e) => Minus(clock, end) = Age(e) - k
  BY <1>1, <1>2, <1>3, <1>4, EtimerAssumption
<1> QED
  BY <1>2, <1>3, <1>5, <1>6 DEF end, s, k

\* The distance to the end of a timer, at a time that was a while ago but when it was set
LEMMA DistanceFacts ==
  ASSUME NEW e \in TimerFields, e.interval \in Intervals, clock \in 0 .. ClockMod - 1,
         NEW n \in 0 .. ClockMod - 1
  PROVE  /\ TimerRemaining(e, n) \in Nat
         /\ Minus(n, e.start) <= e.interval =>
              TimerRemaining(e, n) = e.interval - Minus(n, e.start)
         /\ Minus(clock, n) <= Age(e) => Minus(n, e.start) = Age(e) - Minus(clock, n)
<1> DEFINE s == e.start
           k == e.interval
           end == Wrap(s + k)
<1>1. s \in 0 .. ClockMod - 1 /\ k \in 0 .. ClockMod - 1
  <2>1. s \in 0 .. ClockMod - 1
    BY DEF TimerFields
  <2>2. k \in Nat /\ k + 3 * MaxLate < ClockMod /\ MaxLate \in Nat
    BY IntervalFacts
  <2> QED
    BY <2>1, <2>2, EtimerAssumption
<1>2. end \in 0 .. ClockMod - 1 /\ end = IF s + k < ClockMod THEN s + k ELSE s + k - ClockMod
  <2> HIDE DEF s, k
  <2>1. s + k \in Nat /\ s + k < 2 * ClockMod
    BY <1>1, EtimerAssumption
  <2> QED
    BY <1>1, <2>1, WrapFacts, EtimerAssumption DEF end
<1>3. /\ Minus(n, s) \in 0 .. ClockMod - 1
      /\ Minus(n, s) = IF s <= n THEN n - s ELSE n + ClockMod - s
  BY <1>1, MinusFacts
<1>4. /\ Minus(end, n) \in 0 .. ClockMod - 1
      /\ Minus(end, n) = IF n <= end THEN end - n ELSE end + ClockMod - n
  BY <1>2, MinusFacts
<1>5. /\ Minus(clock, n) = IF n <= clock THEN clock - n ELSE clock + ClockMod - n
      /\ Minus(clock, s) = IF s <= clock THEN clock - s ELSE clock + ClockMod - s
  BY <1>1, MinusFacts
<1> HIDE DEF end, s, k
<1>6. Minus(n, s) <= k => Minus(end, n) = k - Minus(n, s)
  BY <1>1, <1>2, <1>3, <1>4, EtimerAssumption
<1>7. Minus(clock, n) <= Minus(clock, s) => Minus(n, s) = Minus(clock, s) - Minus(clock, n)
  BY <1>1, <1>3, <1>5, EtimerAssumption
<1>8. Minus(end, n) \in Nat
  BY <1>4
<1> QED
  BY <1>6, <1>7, <1>8 DEF TimerRemaining, Age, end, s, k

\* A tick makes a difference to the clock one larger, unless that wraps.
LEMMA MinusTick ==
  ASSUME NEW j \in 0 .. ClockMod - 1, clock \in 0 .. ClockMod - 1, clock' = Wrap(clock + 1)
  PROVE  /\ clock' \in 0 .. ClockMod - 1
         /\ Minus(clock', j) = IF Minus(clock, j) + 1 = ClockMod THEN 0 ELSE Minus(clock, j) + 1
<1>1. /\ clock' \in 0 .. ClockMod - 1
      /\ clock' = IF clock + 1 < ClockMod THEN clock + 1 ELSE clock + 1 - ClockMod
  BY WrapFacts, EtimerAssumption
<1>2. Minus(clock, j) = IF j <= clock THEN clock - j ELSE clock + ClockMod - j
  BY MinusFacts
<1>3. Minus(clock', j) = IF j <= clock' THEN clock' - j ELSE clock' + ClockMod - j
  BY <1>1, MinusFacts
<1> QED
  BY <1>1, <1>2, <1>3, EtimerAssumption

\* A timer that is set now is as old as nothing.
LEMMA AgeNew ==
  ASSUME clock \in 0 .. ClockMod - 1, NEW k \in Intervals
  PROVE  /\ TimerSet(k) \in TimerFields /\ Age(TimerSet(k)) = 0 /\ TimerSet(k).active
         /\ TimerSet(k).interval = k
<1>1. Age(TimerSet(k)) = Minus(clock, clock)
  BY DEF Age, TimerSet
<1>2. Minus(clock, clock) = 0
  BY MinusFacts
<1> QED
  BY <1>1, <1>2 DEF TimerSet, TimerFields

\* A timer that has run out and is reset is as old as it was late.
LEMMA AgeReset ==
  ASSUME clock \in 0 .. ClockMod - 1, NEW e \in TimerFields, e.interval \in Intervals,
         e.interval <= Age(e)
  PROVE  /\ TimerReset(e) \in TimerFields /\ TimerReset(e).active
         /\ TimerReset(e).interval = e.interval
         /\ Age(TimerReset(e)) = Age(e) - e.interval
<1>1. /\ TimerReset(e) = [e EXCEPT !.active = TRUE, !.start = Wrap(e.start + e.interval)]
      /\ Wrap(e.start + e.interval) \in 0 .. ClockMod - 1
  BY AgeFacts DEF TimerReset, TimerFields
<1>2. /\ TimerReset(e) \in TimerFields /\ TimerReset(e).active
      /\ TimerReset(e).interval = e.interval
      /\ TimerReset(e).start = Wrap(e.start + e.interval)
  BY <1>1 DEF TimerFields
<1> QED
  BY <1>2, AgeFacts DEF Age

-----------------------------------------------------------------------------
(* The list *)

LEMMA ListedFacts ==
  ASSUME NEW ts \in Seq(Timers), NEW t \in Timers
  PROVE  Listed(ts, t) \in Seq(Timers) /\ Elements(Listed(ts, t)) = Elements(ts) \cup {t}
<1>1. CASE t \in Elements(ts)
  BY <1>1 DEF Listed
<1>2. CASE t \notin Elements(ts)
  BY <1>2, ConsFacts DEF Listed
<1> QED
  BY <1>1, <1>2

\* A timer of the list, with what the invariant says of it
LEMMA OnListFacts ==
  ASSUME EtimerInductive, NEW t \in Elements(timerlist)
  PROVE  /\ t \in Timers /\ et[t] \in TimerFields /\ et[t].active
         /\ et[t].interval \in Intervals /\ et[t].interval \in Nat /\ et[t].interval >= 1
         /\ et[t].interval + 3 * MaxLate < ClockMod
         /\ et[t].start \in 0 .. ClockMod - 1
         /\ Age(et[t]) \in 0 .. ClockMod - 1
         /\ MaxLate \in Nat /\ late.waits \in 0 .. MaxLate
<1>1. t \in Timers /\ et[t] \in TimerFields /\ clock \in 0 .. ClockMod - 1
      /\ late.waits \in 0 .. MaxLate
  BY DEF EtimerInductive, EtimerTypeOK, Elements
<1>2. et[t].active /\ et[t].interval \in Intervals
  BY DEF EtimerInductive, Running
<1> QED
  BY <1>1, <1>2, IntervalFacts, AgeFacts DEF TimerFields

-----------------------------------------------------------------------------
(* The steps *)

LEMMA EtimerInductiveInit == EtimerInit => EtimerInductive
<1> SUFFICES ASSUME EtimerInit
             PROVE  EtimerInductive
  OBVIOUS
<1>1. 0 \in 0 .. ClockMod - 1 /\ 0 \in 0 .. MaxLate /\ 0 \in 0 .. 3 * MaxLate
  BY EtimerAssumption
<1>2. et \in [Timers -> TimerFields]
  BY <1>1 DEF EtimerInit, TimerFields
<1>3. /\ wake \in [left : Nat, fired : BOOLEAN]
      /\ late \in [last : 0 .. 3 * MaxLate, waits : 0 .. MaxLate]
  BY <1>1 DEF EtimerInit
<1>4. poller \in [pc : {"out", "poll", "update", "set"}, at : Nat \ {0}, now : 0 .. ClockMod - 1]
  BY <1>1 DEF EtimerInit
<1>5. clock \in 0 .. ClockMod - 1 /\ timerlist \in Seq(Timers) /\ missed \subseteq Timers
  BY <1>1 DEF EtimerInit
<1>6. Elements(timerlist) = {} /\ poller.pc = "out" /\ poller.at = 1
  BY DEF EtimerInit, Elements
<1>7. EtimerTypeOK
  BY <1>2, <1>3, <1>4, <1>5 DEF EtimerTypeOK
<1> QED
  BY <1>6, <1>7 DEF EtimerInductive, Running, NoneTooLate, PassedInTime, ReadBefore, WakesInTime, Kept

\* The network thread goes into or on in etimer.c, and the clock does not: what is left to
\* show is that the timers of the list are of the right age for where the thread is then.
LEMMA ThreadStep ==
  ASSUME EtimerInductive, clock' = clock,
         poller'.pc # "out" \/ wake'.fired,
         EtimerTypeOK',
         poller'.pc # "poll" => poller'.at = 1,
         Running(timerlist, et)',
         NEW bound, LatestBy' = bound,
         \A t \in Kept' : Age(et'[t]) <= et'[t].interval + bound,
         PassedInTime', ReadBefore'
  PROVE  EtimerInductive'
<1>1. NoneTooLate'
  BY DEF NoneTooLate, Age, Minus
<1>2. WakesInTime'
  BY DEF WakesInTime
<1> QED
  BY <1>1, <1>2 DEF EtimerInductive

LEMMA SetTimerInductive ==
  ASSUME EtimerInductive, NEW t \in Timers, SetTimer(t)
  PROVE  EtimerInductive'
<1>1. /\ poller.pc = "out" /\ poller' = [poller EXCEPT !.pc = "update"]
      /\ missed' = missed \ {t} /\ UNCHANGED <<clock, wake, late>> /\ EtimerTypeOK
  BY DEF SetTimer, EtimerInductive
<1>2. /\ poller' \in [pc : {"out", "poll", "update", "set"}, at : Nat \ {0}, now : 0 .. ClockMod - 1]
      /\ poller'.pc = "update" /\ poller'.at = 1
  BY <1>1 DEF EtimerTypeOK, EtimerInductive
<1> DEFINE Same(u) == u # t /\ u \in Elements(timerlist) /\ et'[u] = et[u]
           New(u) == u = t /\ et'[u].active /\ et'[u].interval \in Intervals /\ Age(et'[u]) = 0
<1>3. /\ timerlist' \in Seq(Timers) /\ et' \in [Timers -> TimerFields]
      /\ \A u \in Elements(timerlist') : Same(u) \/ New(u)
  <2>1. ASSUME NEW k \in Intervals, AddTimer(t, TimerSet(k))
        PROVE  /\ timerlist' \in Seq(Timers) /\ et' \in [Timers -> TimerFields]
               /\ \A u \in Elements(timerlist') : Same(u) \/ New(u)
    <3> DEFINE e == TimerSet(k)
    <3>1. e \in TimerFields /\ Age(e) = 0 /\ e.active /\ e.interval = k
      BY <1>1, AgeNew DEF EtimerTypeOK
    <3>2. et' = [et EXCEPT ![t] = e] /\ timerlist' = Listed(timerlist, t)
      BY <2>1 DEF AddTimer
    <3> HIDE DEF e
    <3>3. timerlist' \in Seq(Timers) /\ Elements(timerlist') = Elements(timerlist) \cup {t}
      BY <1>1, <3>2, ListedFacts DEF EtimerTypeOK
    <3>4. /\ et' \in [Timers -> TimerFields] /\ et'[t] = e
          /\ \A u \in Timers : u # t => et'[u] = et[u]
      BY <1>1, <3>1, <3>2 DEF EtimerTypeOK
    <3>5. Elements(timerlist) \subseteq Timers
      BY <1>1 DEF EtimerTypeOK, Elements
    <3> QED
      BY <3>1, <3>3, <3>4, <3>5
  <2>2. CASE RemoveTimer(t)
    <3>1. et' = [et EXCEPT ![t].active = FALSE] /\ timerlist' = Without(timerlist, {t})
      BY <2>2 DEF RemoveTimer
    <3>2. timerlist' \in Seq(Timers) /\ Elements(timerlist') = Elements(timerlist) \ {t}
      BY <1>1, <3>1, WithoutFacts DEF EtimerTypeOK
    <3>3. /\ et' \in [Timers -> TimerFields]
          /\ \A u \in Timers : u # t => et'[u] = et[u]
      BY <1>1, <3>1 DEF EtimerTypeOK, TimerFields
    <3>4. Elements(timerlist) \subseteq Timers
      BY <1>1 DEF EtimerTypeOK, Elements
    <3> QED
      BY <3>2, <3>3, <3>4
  <2> QED
    BY <2>1, <2>2 DEF SetTimer
<1>4. EtimerTypeOK'
  BY <1>1, <1>2, <1>3 DEF EtimerTypeOK
<1>5. Running(timerlist, et)'
  BY <1>3, OnListFacts DEF Running
<1>6. LatestBy' = late.waits + MaxLate
  BY <1>1, <1>2 DEF LatestBy
<1>7. ASSUME NEW u \in Kept'
      PROVE  Age(et'[u]) <= et'[u].interval + (late.waits + MaxLate)
  <2>1. u \in Elements(timerlist') /\ u \notin missed'
    BY DEF Kept
  <2>2. CASE Same(u)
    <3>1. u \in Kept
      BY <1>1, <2>1, <2>2 DEF Kept
    <3> QED
      BY <1>1, <2>2, <3>1 DEF EtimerInductive, NoneTooLate, LatestBy
  <2>3. CASE New(u)
    BY <1>1, <2>3, IntervalFacts DEF EtimerTypeOK
  <2> QED
    BY <1>3, <2>1, <2>2, <2>3
<1>8. PassedInTime' /\ ReadBefore'
  BY <1>2 DEF PassedInTime, ReadBefore
<1> QED
  BY <1>1, <1>2, <1>4, <1>5, <1>6, <1>7, <1>8, ThreadStep

LEMMA PollBeginInductive == EtimerInductive /\ PollBegin => EtimerInductive'
<1> SUFFICES ASSUME EtimerInductive, PollBegin
             PROVE  EtimerInductive'
  OBVIOUS
<1>1. /\ poller.pc = "out" /\ poller' = [poller EXCEPT !.pc = "poll"]
      /\ wake' = [wake EXCEPT !.fired = FALSE] /\ late' = [late EXCEPT !.last = 0, !.waits = 0]
      /\ UNCHANGED <<clock, timerlist, et, missed>> /\ EtimerTypeOK
      /\ 0 \in 0 .. MaxLate /\ 0 \in 0 .. 3 * MaxLate /\ MaxLate \in Nat
  BY EtimerAssumption DEF PollBegin, EtimerInductive
<1>2. /\ poller' \in [pc : {"out", "poll", "update", "set"}, at : Nat \ {0}, now : 0 .. ClockMod - 1]
      /\ poller'.pc = "poll" /\ poller'.at = 1
  BY <1>1 DEF EtimerTypeOK, EtimerInductive
<1>3. late' \in [last : 0 .. 3 * MaxLate, waits : 0 .. MaxLate] /\ late'.waits = 0
  BY <1>1 DEF EtimerTypeOK
<1>4. wake' \in [left : Nat, fired : BOOLEAN]
  BY <1>1 DEF EtimerTypeOK
<1>5. EtimerTypeOK'
  BY <1>1, <1>2, <1>3, <1>4 DEF EtimerTypeOK
<1>6. Running(timerlist, et)'
  BY <1>1 DEF EtimerInductive, Running
<1>7. LatestBy' = 2 * MaxLate
  BY <1>1, <1>2, <1>3 DEF LatestBy
<1>8. ASSUME NEW t \in Kept'
      PROVE  Age(et'[t]) <= et'[t].interval + 2 * MaxLate
  <2>1. t \in Kept /\ t \in Elements(timerlist)
    BY <1>1 DEF Kept
  <2>2. Age(et[t]) <= et[t].interval + (late.waits + MaxLate)
    BY <1>1, <2>1 DEF EtimerInductive, NoneTooLate, LatestBy
  <2> QED
    BY <1>1, <2>1, <2>2, OnListFacts
<1>9. PassedInTime' /\ ReadBefore'
  <2>1. \A i \in 1 .. Len(timerlist') : ~(i < poller'.at)
    BY <1>1, <1>2 DEF EtimerTypeOK
  <2> QED
    BY <1>2, <2>1 DEF PassedInTime, ReadBefore
<1> QED
  BY <1>1, <1>2, <1>5, <1>6, <1>7, <1>8, <1>9, ThreadStep

LEMMA PollPassInductive == EtimerInductive /\ PollPass => EtimerInductive'
<1> SUFFICES ASSUME EtimerInductive, PollPass
             PROVE  EtimerInductive'
  OBVIOUS
<1>1. /\ poller.pc = "poll" /\ poller.at <= Len(timerlist)
      /\ ~TimerExpired(et[timerlist[poller.at]])
      /\ poller' = [poller EXCEPT !.at = @ + 1] /\ late' = [late EXCEPT !.last = 0]
      /\ UNCHANGED <<clock, timerlist, et, wake, missed>> /\ EtimerTypeOK
      /\ 0 \in 0 .. 3 * MaxLate /\ MaxLate \in Nat
  BY EtimerAssumption DEF PollPass, EtimerInductive
<1>2. /\ poller' \in [pc : {"out", "poll", "update", "set"}, at : Nat \ {0}, now : 0 .. ClockMod - 1]
      /\ poller'.pc = "poll" /\ poller'.at = poller.at + 1
  <2> DEFINE i == poller.at + 1
  <2>1. /\ poller \in [pc : {"out", "poll", "update", "set"}, at : Nat \ {0}, now : 0 .. ClockMod - 1]
        /\ poller' = [poller EXCEPT !.at = i] /\ i \in Nat \ {0}
    BY <1>1 DEF EtimerTypeOK
  <2> HIDE DEF i
  <2>2. /\ poller' \in [pc : {"out", "poll", "update", "set"}, at : Nat \ {0}, now : 0 .. ClockMod - 1]
        /\ poller'.pc = poller.pc /\ poller'.at = i
    BY <2>1
  <2> QED
    BY <1>1, <2>2 DEF i
<1>3. late' \in [last : 0 .. 3 * MaxLate, waits : 0 .. MaxLate] /\ late'.waits = late.waits
  BY <1>1 DEF EtimerTypeOK
<1>4. EtimerTypeOK'
  BY <1>1, <1>2, <1>3 DEF EtimerTypeOK
<1>5. Running(timerlist, et)'
  BY <1>1 DEF EtimerInductive, Running
<1>6. LatestBy' = late.waits + 2 * MaxLate
  BY <1>1, <1>2, <1>3 DEF LatestBy
<1>7. \A t \in Kept' : Age(et'[t]) <= et'[t].interval + (late.waits + 2 * MaxLate)
  BY <1>1 DEF EtimerInductive, NoneTooLate, LatestBy, Kept
<1>8. ASSUME NEW i \in 1 .. Len(timerlist), i < poller.at + 1, timerlist[i] \notin missed
      PROVE  Age(et[timerlist[i]]) <= et[timerlist[i]].interval + late.waits
  <2>1. CASE i < poller.at
    BY <1>1, <1>8, <2>1 DEF EtimerInductive, PassedInTime
  <2>2. CASE i = poller.at
    <3> DEFINE t == timerlist[i]
    <3>1. t \in Elements(timerlist) /\ ~TimerExpired(et[t])
      BY <1>1, <2>2 DEF EtimerTypeOK, Elements
    <3>2. ~(et[t].interval <= Age(et[t]))
      BY <1>1, <3>1, OnListFacts, AgeFacts DEF EtimerTypeOK
    <3> HIDE DEF t
    <3>3. Age(et[t]) <= et[t].interval + late.waits
      BY <3>1, <3>2, OnListFacts
    <3> QED
      BY <3>3 DEF t
  <2> QED
    BY <1>1, <1>8, <2>1, <2>2 DEF EtimerTypeOK
<1>9. PassedInTime'
  BY <1>1, <1>2, <1>3, <1>8 DEF PassedInTime, Age, Minus
<1>10. ReadBefore'
  BY <1>2 DEF ReadBefore
<1> QED
  BY <1>1, <1>2, <1>4, <1>5, <1>6, <1>7, <1>9, <1>10, ThreadStep

\* A timer that has run out is taken off the list and its callback called: no later
\* than the poll could get to it.
LEMMA CallbackInductive == EtimerInductive /\ Callback => EtimerInductive'
<1> SUFFICES ASSUME EtimerInductive, Callback
             PROVE  EtimerInductive'
  OBVIOUS
<1> DEFINE t == timerlist[poller.at]
           rest == Without(timerlist, {t})
           off == [et EXCEPT ![t].active = FALSE]
           lateness == Minus(clock, Wrap(et[t].start + et[t].interval))
           last == IF t \in missed THEN late.last ELSE lateness
           bound == late.waits + 2 * MaxLate
<1>1. /\ poller.pc = "poll" /\ poller.at <= Len(timerlist) /\ poller' = [poller EXCEPT !.at = 1]
      /\ UNCHANGED <<clock, wake>> /\ EtimerTypeOK /\ MaxLate \in Nat
      /\ TimerExpired(et[t])
  BY EtimerAssumption DEF Callback, EtimerInductive
<1>2. t \in Elements(timerlist) /\ Elements(timerlist) \subseteq Timers
  BY <1>1 DEF Elements, EtimerTypeOK
<1>3. /\ late' = [late EXCEPT !.last = last]
      /\ \/ et' = off /\ timerlist' = rest /\ missed' = missed \ {t}
         \/ /\ et' = [off EXCEPT ![t] = TimerReset(off[t])]
            /\ timerlist' = <<t>> \o rest /\ missed' = missed
         \/ \E u \in Timers, k \in Intervals :
              /\ et' = [off EXCEPT ![u] = TimerSet(k)] /\ timerlist' = Listed(rest, u)
              /\ missed' = missed \ {t, u}
         \/ \E u \in Elements(rest) :
              /\ et' = [off EXCEPT ![u].active = FALSE] /\ timerlist' = Without(rest, {u})
              /\ missed' = missed \ {t, u}
  BY DEF Callback
<1> HIDE DEF t
<1>4. /\ et[t].interval <= Age(et[t]) /\ lateness = Age(et[t]) - et[t].interval
      /\ t \notin missed => Age(et[t]) <= et[t].interval + bound
  <2>1. t \notin missed => Age(et[t]) <= et[t].interval + bound
    BY <1>1, <1>2 DEF EtimerInductive, NoneTooLate, LatestBy, Kept
  <2> QED
    BY <1>1, <1>2, <2>1, OnListFacts, AgeFacts DEF EtimerTypeOK
<1>5. late' \in [last : 0 .. 3 * MaxLate, waits : 0 .. MaxLate] /\ late'.waits = late.waits
  <2>1. last \in 0 .. 3 * MaxLate
    BY <1>1, <1>2, <1>4, OnListFacts DEF EtimerTypeOK
  <2> HIDE DEF last
  <2> QED
    BY <1>1, <1>3, <2>1 DEF EtimerTypeOK
<1>6. rest \in Seq(Timers) /\ Elements(rest) = Elements(timerlist) \ {t}
  BY <1>1, WithoutFacts DEF EtimerTypeOK
<1>7. /\ off \in [Timers -> TimerFields] /\ \A u \in Timers : u # t => off[u] = et[u]
      /\ off[t].interval = et[t].interval /\ off[t].start = et[t].start
  BY <1>1, <1>2 DEF EtimerTypeOK, TimerFields
<1> HIDE DEF rest, off, last, lateness
<1> DEFINE Same(u) == u # t /\ u \in Elements(timerlist) /\ et'[u] = et[u] /\ (u \in missed => u \in missed')
           Anew(u) == /\ et'[u].active /\ et'[u].interval \in Intervals
                      /\ u \notin missed' => Age(et'[u]) <= et'[u].interval + bound
<1>8. /\ timerlist' \in Seq(Timers) /\ et' \in [Timers -> TimerFields] /\ missed' \subseteq Timers
      /\ \A u \in Elements(timerlist') : Same(u) \/ Anew(u)
  <2>1. CASE et' = off /\ timerlist' = rest /\ missed' = missed \ {t}
    BY <1>1, <1>2, <1>6, <1>7, <2>1 DEF EtimerTypeOK
  <2>2. CASE /\ et' = [off EXCEPT ![t] = TimerReset(off[t])]
             /\ timerlist' = <<t>> \o rest /\ missed' = missed
    <3> DEFINE e == TimerReset(off[t])
    <3>1. off[t] \in TimerFields /\ Age(off[t]) = Age(et[t])
      BY <1>2, <1>7 DEF Age
    <3>2. e \in TimerFields /\ e.active /\ e.interval = et[t].interval
          /\ Age(e) = Age(et[t]) - et[t].interval
      BY <1>1, <1>2, <1>4, <1>7, <3>1, OnListFacts, AgeReset DEF EtimerTypeOK
    <3> HIDE DEF e
    <3>3. et' = [off EXCEPT ![t] = e]
      BY <2>2 DEF e
    <3>4. /\ et' \in [Timers -> TimerFields] /\ et'[t] = e
          /\ \A u \in Timers : u # t => et'[u] = off[u]
      BY <1>2, <1>7, <3>2, <3>3
    <3>5. timerlist' \in Seq(Timers) /\ Elements(timerlist') = Elements(rest) \cup {t}
      BY <1>2, <1>6, <2>2, ConsFacts
    <3>6. Anew(t)
      <4>1. t \notin missed => Age(e) <= e.interval + bound
        BY <1>1, <1>2, <1>4, <3>2, OnListFacts
      <4> QED
        BY <1>2, <2>2, <3>2, <3>4, <4>1, OnListFacts
    <3> QED
      BY <1>1, <1>2, <1>6, <1>7, <2>2, <3>4, <3>5, <3>6 DEF EtimerTypeOK
  <2>3. ASSUME NEW u \in Timers, NEW k \in Intervals,
               et' = [off EXCEPT ![u] = TimerSet(k)], timerlist' = Listed(rest, u),
               missed' = missed \ {t, u}
        PROVE  /\ timerlist' \in Seq(Timers) /\ et' \in [Timers -> TimerFields]
               /\ missed' \subseteq Timers
               /\ \A v \in Elements(timerlist') : Same(v) \/ Anew(v)
    <3> DEFINE e == TimerSet(k)
    <3>1. e \in TimerFields /\ e.active /\ e.interval = k /\ Age(e) = 0
      BY <1>1, AgeNew DEF EtimerTypeOK
    <3>2. et' = [off EXCEPT ![u] = e]
      BY <2>3
    <3> HIDE DEF e
    <3>3. /\ et' \in [Timers -> TimerFields] /\ et'[u] = e
          /\ \A v \in Timers : v # u => et'[v] = off[v]
      BY <1>7, <3>1, <3>2
    <3>4. timerlist' \in Seq(Timers) /\ Elements(timerlist') = Elements(rest) \cup {u}
      BY <1>6, <2>3, ListedFacts
    <3>5. Anew(u)
      <4>1. Age(e) <= e.interval + bound
        BY <1>1, <3>1, IntervalFacts DEF EtimerTypeOK
      <4> QED
        BY <3>1, <3>3, <4>1
    <3> QED
      BY <1>1, <1>2, <1>6, <1>7, <2>3, <3>3, <3>4, <3>5 DEF EtimerTypeOK
  <2>4. ASSUME NEW u \in Elements(rest),
               et' = [off EXCEPT ![u].active = FALSE], timerlist' = Without(rest, {u}),
               missed' = missed \ {t, u}
        PROVE  /\ timerlist' \in Seq(Timers) /\ et' \in [Timers -> TimerFields]
               /\ missed' \subseteq Timers
               /\ \A v \in Elements(timerlist') : Same(v) \/ Anew(v)
    <3>1. /\ et' \in [Timers -> TimerFields]
          /\ \A v \in Timers : v # u => et'[v] = off[v]
      BY <1>2, <1>6, <1>7, <2>4 DEF TimerFields
    <3>2. timerlist' \in Seq(Timers) /\ Elements(timerlist') = Elements(rest) \ {u}
      BY <1>6, <2>4, WithoutFacts
    <3> QED
      BY <1>1, <1>2, <1>6, <1>7, <2>4, <3>1, <3>2 DEF EtimerTypeOK
  <2> QED
    BY <1>3, <2>1, <2>2, <2>3, <2>4
<1>9. /\ poller' \in [pc : {"out", "poll", "update", "set"}, at : Nat \ {0}, now : 0 .. ClockMod - 1]
      /\ poller'.pc = "poll" /\ poller'.at = 1
  BY <1>1 DEF EtimerTypeOK
<1>10. EtimerTypeOK'
  BY <1>1, <1>5, <1>8, <1>9 DEF EtimerTypeOK
<1>11. Running(timerlist, et)'
  BY <1>8, OnListFacts DEF Running
<1>12. LatestBy' = bound
  BY <1>1, <1>5, <1>9 DEF LatestBy
<1>13. ASSUME NEW u \in Kept'
       PROVE  Age(et'[u]) <= et'[u].interval + bound
  <2>1. u \in Elements(timerlist') /\ u \notin missed'
    BY DEF Kept
  <2>2. CASE Same(u)
    <3>1. u \in Kept
      BY <2>1, <2>2 DEF Kept
    <3> QED
      BY <1>1, <2>2, <3>1 DEF EtimerInductive, NoneTooLate, LatestBy
  <2>3. CASE Anew(u)
    BY <2>1, <2>3
  <2> QED
    BY <1>8, <2>1, <2>2, <2>3
<1>14. PassedInTime' /\ ReadBefore'
  <2>1. \A i \in 1 .. Len(timerlist') : ~(i < poller'.at)
    BY <1>9, <1>8
  <2> QED
    BY <1>9, <2>1 DEF PassedInTime, ReadBefore
<1> HIDE DEF bound
<1> QED
  BY <1>1, <1>9, <1>10, <1>11, <1>12, <1>13, <1>14, ThreadStep

\* All timers of the list were passed when a poll ends.
LEMMA UpdateTimeInductive == EtimerInductive /\ UpdateTime => EtimerInductive'
<1> SUFFICES ASSUME EtimerInductive, UpdateTime
             PROVE  EtimerInductive'
  OBVIOUS
<1>1. /\ poller.pc = "update" \/ (poller.pc = "poll" /\ poller.at > Len(timerlist))
      /\ poller' = [pc |-> "set", at |-> 1, now |-> clock] /\ late' = [late EXCEPT !.last = 0]
      /\ UNCHANGED <<clock, timerlist, et, wake, missed>> /\ EtimerTypeOK
      /\ 0 \in 0 .. 3 * MaxLate /\ MaxLate \in Nat
  BY EtimerAssumption DEF UpdateTime, EtimerInductive
<1>2. /\ poller' \in [pc : {"out", "poll", "update", "set"}, at : Nat \ {0}, now : 0 .. ClockMod - 1]
      /\ poller'.pc = "set" /\ poller'.at = 1 /\ poller'.now = clock
  BY <1>1 DEF EtimerTypeOK
<1>3. late' \in [last : 0 .. 3 * MaxLate, waits : 0 .. MaxLate] /\ late'.waits = late.waits
  BY <1>1 DEF EtimerTypeOK
<1>4. EtimerTypeOK'
  BY <1>1, <1>2, <1>3 DEF EtimerTypeOK
<1>5. Running(timerlist, et)'
  BY <1>1 DEF EtimerInductive, Running
<1>6. LatestBy' = late.waits + MaxLate
  BY <1>1, <1>2, <1>3 DEF LatestBy
<1>7. ASSUME NEW t \in Kept'
      PROVE  Age(et'[t]) <= et'[t].interval + (late.waits + MaxLate)
  <2>1. t \in Kept /\ t \in Elements(timerlist) /\ t \notin missed
    BY <1>1 DEF Kept
  <2>2. CASE poller.pc = "update"
    BY <1>1, <2>1, <2>2 DEF EtimerInductive, NoneTooLate, LatestBy
  <2>3. CASE poller.pc = "poll" /\ poller.at > Len(timerlist)
    <3>1. PICK i \in 1 .. Len(timerlist) : t = timerlist[i]
      BY <1>1, <2>1 DEF Elements, EtimerTypeOK
    <3>2. i < poller.at
      BY <1>1, <2>3 DEF EtimerTypeOK
    <3>3. Age(et[t]) <= et[t].interval + late.waits
      BY <2>1, <2>3, <3>1, <3>2 DEF EtimerInductive, PassedInTime
    <3> QED
      BY <1>1, <2>1, <3>3, OnListFacts
  <2> QED
    BY <1>1, <2>2, <2>3
<1>8. Minus(clock, clock) = 0
  BY <1>1, MinusFacts DEF EtimerTypeOK
<1>9. ReadBefore'
  <2>1. ASSUME NEW t \in Kept'
        PROVE  0 <= Age(et[t])
    <3>1. t \in Elements(timerlist)
      BY <1>1 DEF Kept
    <3> QED
      BY <3>1, OnListFacts
  <2>2. 0 <= late'.waits
    BY <1>3
  <2> QED
    BY <1>1, <1>2, <1>8, <2>1, <2>2 DEF ReadBefore, Age, Minus
<1>10. PassedInTime'
  BY <1>2 DEF PassedInTime
<1> QED
  BY <1>1, <1>2, <1>4, <1>5, <1>6, <1>7, <1>9, <1>10, ThreadStep

\* What etimer_timer is set to is no further than the end of each timer that was not over.
LEMMA NextFacts ==
  ASSUME EtimerInductive, poller.pc = "set", timerlist # <<>>
  PROVE  /\ NextDistance \in Nat
         /\ \A t \in Elements(timerlist) : NextDistance <= TimerRemaining(et[t], poller.now)
<1>1. \A t \in Elements(timerlist) : TimerRemaining(et[t], poller.now) \in Nat
  BY OnListFacts, DistanceFacts DEF EtimerInductive, EtimerTypeOK
<1>2. Distances \subseteq Nat /\ Distances # {}
  <2>1. timerlist[1] \in Elements(timerlist)
    BY DEF EtimerInductive, EtimerTypeOK, Elements
  <2> QED
    BY <1>1, <2>1 DEF Distances
<1>3. \E d \in Distances : \A k \in Distances : d <= k
  BY <1>2, LeastNatural
<1>4. NextDistance \in Distances /\ \A k \in Distances : NextDistance <= k
  BY <1>3 DEF NextDistance
<1> QED
  BY <1>2, <1>4 DEF Distances

\* When update_time sets etimer_timer, it fires in time for each timer, but for those that
\* were over, and as much later as the clock was read before.
LEMMA SetWakeInductive == EtimerInductive /\ SetWake => EtimerInductive'
<1> SUFFICES ASSUME EtimerInductive, SetWake
             PROVE  EtimerInductive'
  OBVIOUS
<1> DEFINE waits == IF wake'.fired THEN late.waits ELSE 0
<1>1. /\ poller.pc = "set" /\ poller' = [poller EXCEPT !.pc = "out", !.now = 0]
      /\ wake' = WakeNext /\ late' = [late EXCEPT !.waits = waits]
      /\ missed' = IF wake'.fired THEN missed ELSE missed \cup Over
      /\ UNCHANGED <<clock, timerlist, et>> /\ EtimerTypeOK
      /\ 0 \in 0 .. ClockMod - 1 /\ 0 \in 0 .. MaxLate /\ MaxLate \in Nat
  BY EtimerAssumption DEF SetWake, EtimerInductive
<1>2. /\ poller' \in [pc : {"out", "poll", "update", "set"}, at : Nat \ {0}, now : 0 .. ClockMod - 1]
      /\ poller'.pc = "out" /\ poller'.at = 1
  BY <1>1 DEF EtimerTypeOK, EtimerInductive
<1>3. waits \in 0 .. MaxLate
  BY <1>1 DEF EtimerTypeOK
<1>4. waits = IF wake'.fired THEN late.waits ELSE 0
  OBVIOUS
<1> HIDE DEF waits
<1>5. late' \in [last : 0 .. 3 * MaxLate, waits : 0 .. MaxLate] /\ late'.waits = waits
  BY <1>1, <1>3 DEF EtimerTypeOK
<1>6. /\ wake' \in [left : Nat, fired : BOOLEAN]
      /\ timerlist # <<>> /\ ~wake'.fired =>
           ~wake.fired /\ wake'.left = NextDistance /\ NextDistance >= 1
  <2>1. CASE timerlist = <<>>
    BY <1>1, <2>1 DEF WakeNext, EtimerTypeOK
  <2>2. CASE timerlist # <<>>
    <3> DEFINE fires == wake.fired \/ NextDistance = 0
    <3>1. fires \in BOOLEAN /\ (~fires => ~wake.fired /\ NextDistance # 0)
      OBVIOUS
    <3>2. NextDistance \in Nat
      BY <1>1, <2>2, NextFacts
    <3>3. wake' = [left |-> NextDistance, fired |-> fires]
      BY <1>1, <2>2 DEF WakeNext
    <3> HIDE DEF fires
    <3>4. wake' \in [left : Nat, fired : BOOLEAN] /\ wake'.left = NextDistance /\ wake'.fired = fires
      BY <3>1, <3>2, <3>3
    <3> QED
      BY <3>1, <3>2, <3>4
  <2> QED
    BY <2>1, <2>2
<1>7. missed' \subseteq Timers /\ missed \subseteq missed' /\ (wake'.fired => missed' = missed)
  BY <1>1 DEF Over, EtimerTypeOK, Elements
<1>8. EtimerTypeOK'
  BY <1>1, <1>2, <1>5, <1>6, <1>7 DEF EtimerTypeOK
<1>9. ASSUME NEW t \in Kept', ~wake'.fired
      PROVE  wake'.left >= 1 /\ Age(et[t]) + wake'.left <= et[t].interval + MaxLate
  <2>1. t \in Elements(timerlist) /\ t \in Kept /\ t \notin Over /\ timerlist # <<>>
    BY <1>1, <1>7, <1>9 DEF Kept, Elements
  <2> DEFINE before == Minus(poller.now, et[t].start)
             since == Minus(clock, poller.now)
  <2>2. since <= late.waits /\ since <= Age(et[t])
    BY <1>1, <2>1 DEF EtimerInductive, ReadBefore
  <2>3. since \in 0 .. ClockMod - 1 /\ before \in 0 .. ClockMod - 1
    BY <1>1, <2>1, MinusFacts, OnListFacts DEF EtimerTypeOK
  <2>4. before <= et[t].interval
    BY <2>1, <2>3, OnListFacts DEF Over
  <2>5. TimerRemaining(et[t], poller.now) = et[t].interval - before /\ before = Age(et[t]) - since
    BY <1>1, <2>1, <2>2, <2>4, OnListFacts, DistanceFacts DEF EtimerTypeOK
  <2>6. NextDistance \in Nat /\ NextDistance <= et[t].interval - before
    BY <1>1, <2>1, <2>5, NextFacts
  <2>7. wake'.left = NextDistance /\ NextDistance >= 1
    BY <1>6, <1>9, <2>1
  <2> HIDE DEF before, since
  <2> QED
    BY <1>1, <2>1, <2>2, <2>3, <2>5, <2>6, <2>7, OnListFacts
<1>10. NoneTooLate'
  <2>1. ASSUME NEW t \in Kept'
        PROVE  Age(et[t]) <= et[t].interval + (waits + MaxLate)
    <3>1. t \in Kept /\ t \in Elements(timerlist)
      BY <1>1, <1>7 DEF Kept
    <3>2. CASE wake'.fired
      BY <1>1, <1>4, <3>1, <3>2 DEF EtimerInductive, NoneTooLate, LatestBy
    <3>3. CASE ~wake'.fired
      <4>1. wake'.left \in Nat /\ waits = 0
        BY <1>4, <1>6, <3>3
      <4> QED
        BY <1>9, <3>1, <3>3, <4>1, OnListFacts
    <3> QED
      BY <3>2, <3>3
  <2>2. LatestBy' = waits + MaxLate
    BY <1>2, <1>5 DEF LatestBy
  <2> QED
    BY <1>1, <2>1, <2>2 DEF NoneTooLate, Age, Minus
<1>11. WakesInTime'
  BY <1>1, <1>9 DEF WakesInTime, Age, Minus
<1>12. Running(timerlist, et)'
  BY <1>1 DEF EtimerInductive, Running
<1> QED
  BY <1>2, <1>8, <1>10, <1>11, <1>12 DEF EtimerInductive, PassedInTime, ReadBefore

\* Time passes while etimer_timer runs, for MaxLate after it has fired, and for as long while
\* the thread is in etimer.c.
LEMMA TickInductiveTimers == EtimerInductive /\ ClockTick => EtimerInductive'
<1> SUFFICES ASSUME EtimerInductive, ClockTick
             PROVE  EtimerInductive'
  OBVIOUS
<1> DEFINE busy == wake.fired \/ poller.pc # "out"
           remains == IF wake.left = 0 THEN 0 ELSE wake.left - 1
           fires == wake.fired \/ wake.left = 1
           waits == IF busy THEN late.waits + 1 ELSE 0
<1>1. /\ (busy => late.waits < MaxLate) /\ clock' = Wrap(clock + 1)
      /\ wake' = [left |-> remains, fired |-> fires] /\ late' = [late EXCEPT !.waits = waits]
      /\ UNCHANGED <<timerlist, et, poller, missed>>
      /\ EtimerTypeOK /\ MaxLate \in Nat
  BY EtimerAssumption DEF ClockTick, EtimerInductive
<1>2. /\ remains \in Nat /\ fires \in BOOLEAN /\ waits \in 0 .. MaxLate
      /\ (~fires => ~wake.fired /\ wake.left # 1)
      /\ ~busy => poller.pc = "out" /\ ~wake.fired
      /\ poller.pc # "out" => busy
  BY <1>1 DEF EtimerTypeOK
<1>3. /\ waits = IF busy THEN late.waits + 1 ELSE 0
      /\ remains = IF wake.left = 0 THEN 0 ELSE wake.left - 1
      /\ fires <=> wake.fired \/ wake.left = 1
      /\ busy \in BOOLEAN
  OBVIOUS
<1> HIDE DEF remains, fires, waits, busy
<1>5. /\ wake' \in [left : Nat, fired : BOOLEAN] /\ wake'.left = remains /\ wake'.fired = fires
      /\ late' \in [last : 0 .. 3 * MaxLate, waits : 0 .. MaxLate] /\ late'.waits = waits
  <2>1. wake' \in [left : Nat, fired : BOOLEAN] /\ wake'.left = remains /\ wake'.fired = fires
    BY <1>1, <1>2
  <2>2. late' \in [last : 0 .. 3 * MaxLate, waits : 0 .. MaxLate] /\ late'.waits = waits
    BY <1>1, <1>2 DEF EtimerTypeOK
  <2> QED
    BY <2>1, <2>2
<1>6. clock' \in 0 .. ClockMod - 1
  BY <1>1, WrapFacts, EtimerAssumption DEF EtimerTypeOK
<1>7. EtimerTypeOK'
  BY <1>1, <1>5, <1>6 DEF EtimerTypeOK
<1>8. ASSUME NEW t \in Kept
      PROVE  /\ t \in Elements(timerlist)
             /\ Age(et[t]) <= et[t].interval + LatestBy
             /\ poller.pc = "out" /\ ~wake.fired =>
                  wake.left >= 1 /\ Age(et[t]) + wake.left <= et[t].interval + MaxLate
             /\ Age(et[t])' = Age(et[t]) + 1
  <2>1. /\ t \in Elements(timerlist)
        /\ Age(et[t]) <= et[t].interval + LatestBy
        /\ poller.pc = "out" /\ ~wake.fired =>
             wake.left >= 1 /\ Age(et[t]) + wake.left <= et[t].interval + MaxLate
    BY DEF EtimerInductive, NoneTooLate, WakesInTime, Kept
  <2>2. Age(et[t]) + 1 < ClockMod
    <3>1. LatestBy = IF poller.pc = "poll" THEN late.waits + 2 * MaxLate ELSE late.waits + MaxLate
      BY DEF LatestBy
    <3>2. wake.left \in Nat
      BY <1>1 DEF EtimerTypeOK
    <3>3. /\ et[t].interval \in Nat /\ Age(et[t]) \in Nat /\ MaxLate \in Nat
          /\ et[t].interval + 3 * MaxLate < ClockMod /\ late.waits \in Nat
      BY <1>1, <2>1, OnListFacts
    <3> DEFINE age == Age(et[t])
               k == et[t].interval
    <3> HIDE DEF age, k
    <3>4. age \in Nat /\ k \in Nat /\ k + 3 * MaxLate < ClockMod
      BY <3>3 DEF age, k
    <3>5. CASE busy
      <4>1. age <= k + LatestBy /\ late.waits < MaxLate
        BY <1>1, <2>1, <3>5 DEF age, k
      <4> QED
        BY <3>1, <3>3, <3>4, <4>1, EtimerAssumption DEF age
    <3>6. CASE ~busy
      <4>1. age + wake.left <= k + MaxLate /\ wake.left >= 1
        BY <1>2, <2>1, <3>6 DEF age, k
      <4> QED
        BY <3>2, <3>3, <3>4, <4>1, EtimerAssumption DEF age
    <3> QED
      BY <3>5, <3>6
  <2>3. Age(et[t])' = Minus(clock', et[t].start)
    BY <1>1 DEF Age, Minus
  <2>4. Minus(clock', et[t].start) = IF Age(et[t]) + 1 = ClockMod THEN 0 ELSE Age(et[t]) + 1
    BY <1>1, <2>1, OnListFacts, MinusTick DEF EtimerTypeOK, Age
  <2>5. Age(et[t]) \in Nat
    BY <2>1, OnListFacts
  <2> QED
    BY <2>1, <2>2, <2>3, <2>4, <2>5
<1>9. NoneTooLate'
  <2>1. ASSUME NEW t \in Kept
        PROVE  Age(et[t])' <= et[t].interval + LatestBy'
    <3>1. wake.left \in Nat
      BY <1>1 DEF EtimerTypeOK
    <3>2. /\ LatestBy = IF poller.pc = "poll" THEN late.waits + 2 * MaxLate ELSE late.waits + MaxLate
          /\ LatestBy' = IF poller.pc = "poll" THEN waits + 2 * MaxLate ELSE waits + MaxLate
      BY <1>1, <1>5 DEF LatestBy
    <3>3. CASE busy
      BY <1>3, <1>8, <3>2, <3>3, OnListFacts
    <3>4. CASE ~busy
      BY <1>2, <1>3, <1>8, <3>1, <3>2, <3>4, OnListFacts
    <3> QED
      BY <3>3, <3>4
  <2>2. Kept' = Kept
    BY <1>1 DEF Kept
  <2> QED
    BY <1>1, <2>1, <2>2 DEF NoneTooLate
<1>10. PassedInTime'
  <2>1. ASSUME NEW i \in 1 .. Len(timerlist), i < poller.at, timerlist[i] \notin missed,
               poller.pc = "poll"
        PROVE  Age(et[timerlist[i]])' <= et[timerlist[i]].interval + waits
    <3>1. PICK t \in Kept : t = timerlist[i]
      BY <1>1, <2>1 DEF Kept, Elements, EtimerTypeOK
    <3>2. Age(et[t]) <= et[t].interval + late.waits /\ waits = late.waits + 1
      BY <1>2, <1>3, <2>1, <3>1 DEF EtimerInductive, PassedInTime
    <3>3. Age(et[t])' = Age(et[t]) + 1 /\ t \in Elements(timerlist)
      BY <1>8, <3>1
    <3>4. Age(et[t]) \in Nat /\ et[t].interval \in Nat /\ late.waits \in Nat
      BY <3>3, OnListFacts
    <3>5. Age(et[t])' <= et[t].interval + waits
      BY <3>2, <3>3, <3>4
    <3> QED
      BY <1>1, <3>1, <3>5 DEF Age, Minus
  <2> QED
    BY <1>1, <1>5, <2>1 DEF PassedInTime
<1>11. ReadBefore'
  <2> SUFFICES ASSUME poller.pc = "set"
               PROVE  /\ Minus(clock', poller.now) <= waits
                      /\ \A t \in Kept : Minus(clock', poller.now) <= Age(et[t])'
    BY <1>1, <1>5 DEF ReadBefore, Kept, Minus
  <2> DEFINE since == Minus(clock, poller.now)
  <2>1. /\ since \in 0 .. ClockMod - 1
        /\ Minus(clock', poller.now) = IF since + 1 = ClockMod THEN 0 ELSE since + 1
    BY <1>1, MinusFacts, MinusTick DEF EtimerTypeOK
  <2>2. since <= late.waits /\ \A t \in Kept : since <= Age(et[t])
    BY DEF EtimerInductive, ReadBefore
  <2>3. waits = late.waits + 1 /\ late.waits \in Nat
    BY <1>1, <1>2, <1>3 DEF EtimerTypeOK
  <2> HIDE DEF since
  <2>4. ASSUME NEW t \in Kept
        PROVE  Minus(clock', poller.now) <= Age(et[t])'
    <3>1. Age(et[t]) \in Nat /\ Age(et[t])' = Age(et[t]) + 1 /\ since <= Age(et[t])
      BY <1>8, <2>2, OnListFacts
    <3> QED
      BY <2>1, <3>1
  <2>5. Minus(clock', poller.now) <= waits
    BY <2>1, <2>2, <2>3
  <2> QED
    BY <2>4, <2>5
<1>12. WakesInTime'
  <2>1. ASSUME poller.pc = "out", ~fires, NEW t \in Kept
        PROVE  remains >= 1 /\ Age(et[t])' + remains <= et[t].interval + MaxLate
    <3>1. wake.left \in Nat
      BY <1>1 DEF EtimerTypeOK
    <3> QED
      BY <1>2, <1>3, <1>8, <2>1, <3>1, OnListFacts
  <2> QED
    BY <1>1, <1>5, <2>1 DEF WakesInTime, Kept
<1>13. Running(timerlist, et)' /\ (poller'.pc # "poll" => poller'.at = 1)
  BY <1>1 DEF EtimerInductive, Running
<1> QED
  BY <1>7, <1>9, <1>10, <1>11, <1>12, <1>13 DEF EtimerInductive

LEMMA EtimerInductiveNext == EtimerInductive /\ [EtimerNext]_etvars => EtimerInductive'
<1>1. EtimerInductive /\ UNCHANGED etvars => EtimerInductive'
  BY DEF etvars, EtimerInductive, EtimerTypeOK, Running, NoneTooLate, LatestBy, PassedInTime,
         ReadBefore, WakesInTime, Kept, Age, Minus
<1> QED
  BY <1>1, SetTimerInductive, PollBeginInductive, PollPassInductive, CallbackInductive,
     UpdateTimeInductive, SetWakeInductive, TickInductiveTimers DEF EtimerNext

\* No callback is early, or later than three delays of the network poller, and none is lost but
\* those that had run out when update_time set etimer_timer for others, for any number of
\* timers, any modulus of the clock, and any intervals and delays that it can tell apart
\* (etimer_request_poll, update_time).
THEOREM TimersOnTimeAlways == EtimerSpec => []TimersOnTime
<1>1. EtimerInductive => TimersOnTime
  <2> SUFFICES ASSUME EtimerInductive
               PROVE  TimersOnTime
    OBVIOUS
  <2>1. late.last <= 3 * MaxLate
    BY DEF EtimerInductive, EtimerTypeOK
  <2>2. ASSUME NEW t \in Elements(timerlist)
        PROVE  et[t].active
    BY DEF EtimerInductive, Running
  <2>3. ASSUME NEW t \in Elements(timerlist), poller.pc = "out", TimerExpired(et[t]), t \notin missed
        PROVE  Awaited
    <3>1. CASE wake.fired
      BY <3>1 DEF Awaited
    <3>2. CASE ~wake.fired
      <4>1. wake.left \in Nat /\ wake.left >= 1 /\ Age(et[t]) + wake.left <= et[t].interval + MaxLate
        BY <2>3, <3>2 DEF EtimerInductive, WakesInTime, Kept, EtimerTypeOK
      <4>2. et[t].interval <= Age(et[t])
        BY <2>3, OnListFacts, AgeFacts DEF EtimerInductive, EtimerTypeOK
      <4> QED
        BY <4>1, <4>2, OnListFacts DEF Awaited
    <3> QED
      BY <3>1, <3>2
  <2> QED
    BY <2>1, <2>2, <2>3 DEF TimersOnTime
<1> QED
  BY <1>1, EtimerInductiveInit, EtimerInductiveNext, PTL DEF EtimerSpec
-----------------------------------------------------------------------------
(* Emac: one descriptor at a time *)

\* The fields of the records
EmacShape ==
  /\ DOMAIN rx = {"own", "stat", "buf", "idx", "at", "half", "came"}
  /\ DOMAIN tx = {"own", "buf", "idx", "at", "out", "sent"}
  /\ DOMAIN thread = {"pc", "got"}
  /\ rx.own \in [Descriptors -> BOOLEAN] /\ DOMAIN rx.stat = Descriptors
  /\ rx.buf \in Nat \X Nat /\ rx.idx \in Descriptors /\ rx.at \in Descriptors
  /\ rx.half \in BOOLEAN /\ rx.came \in Nat
  /\ tx.own \in [Descriptors -> BOOLEAN] /\ tx.buf \in Nat \X Nat
  /\ tx.idx \in Descriptors /\ tx.at \in Descriptors /\ tx.out \in Nat /\ tx.sent \in Nat
  /\ irq \in BOOLEAN /\ giant \in Nat /\ thread.got \in Nat \X Nat
  /\ above \in Seq(Nat \X Nat) /\ line \in Seq(Nat \X Nat)

\* The DMA has the descriptor that the thread waits for, or none, and then it is at the next.
OneReceives ==
  /\ \A i \in Descriptors : i # rx.idx => ~rx.own[i]
  /\ IF rx.own[rx.idx] THEN rx.at = rx.idx ELSE rx.at = After(rx.idx) /\ ~rx.half

\* A frame that came lies whole in the buffer until the thread gives the next descriptor,
\* and is younger than all that were given to the stack.
BufferRight ==
  /\ rx.half => rx.buf[1] = rx.came
  /\ ~rx.own[rx.idx] => rx.buf[1] = rx.buf[2] /\ rx.buf[1] <= rx.came
  /\ \A i \in 1 .. Len(above) :
       above[i][1] <= rx.came /\ (~rx.own[rx.idx] \/ rx.half => above[i][1] < rx.buf[1])

\* Where the thread is, it copies this frame; and something will wake it for this frame.
ThreadRight ==
  /\ thread.pc \in {"copy", "give"} => ~rx.own[rx.idx] /\ thread.got[1] = rx.buf[1]
  /\ thread.pc = "give" => thread.got[2] = rx.buf[2]
  /\ thread.pc \in {"wait", "send"} /\ giant = 0 /\ ~irq => rx.own[rx.idx]

\* The frames that went up
AboveRight ==
  /\ \A i \in 1 .. Len(above) : above[i][1] = above[i][2]
  /\ \A i \in 1 .. Len(above) : i > 1 => above[i - 1][1] < above[i][1]

\* The DMA sends at most one buffer, which stays as it is until then.
OneSends ==
  /\ \A i \in Descriptors : i # tx.idx => ~tx.own[i]
  /\ IF tx.own[tx.idx]
       THEN /\ tx.at = tx.idx /\ tx.buf = <<tx.sent, tx.sent>> /\ tx.out \in {0, tx.sent}
            /\ tx.sent > 0 /\ tx.sent = Len(line) + 1
       ELSE tx.at = After(tx.idx) /\ tx.out = 0 /\ tx.sent = Len(line)
  /\ thread.pc = "send" => ~tx.own[tx.idx] /\ tx.buf[1] = tx.sent + 1
  /\ \A i \in 1 .. Len(line) : line[i] = <<i, i>>

ReceiveRight == OneReceives /\ BufferRight /\ ThreadRight /\ AboveRight

EmacInductive == EmacShape /\ ReceiveRight /\ OneSends

\* The next descriptor is a descriptor; behind the last comes the first.
LEMMA AfterFacts ==
  /\ \A i \in Descriptors : After(i) \in Descriptors
  /\ 0 \in Descriptors /\ NumDescriptors - 1 \in Descriptors /\ After(NumDescriptors - 1) = 0
BY EmacAssumption DEF After, Descriptors

\* Writing half of a buffer
LEMMA HalfWritten ==
  ASSUME NEW b \in Nat \X Nat, NEW v \in Nat
  PROVE  [b EXCEPT ![1] = v] = <<v, b[2]>> /\ [b EXCEPT ![2] = v] = <<b[1], v>>
OBVIOUS

\* A list of frames with one more
LEMMA Appended ==
  ASSUME NEW s \in Seq(Nat \X Nat), NEW e \in Nat \X Nat
  PROVE  LET t == Append(s, e)
         IN /\ t \in Seq(Nat \X Nat) /\ Len(t) = Len(s) + 1 /\ t[Len(s) + 1] = e
            /\ \A i \in 1 .. Len(s) : t[i] = s[i]
OBVIOUS

LEMMA EmacInductiveInit ==
  EmacInit => EmacInductive
<1> SUFFICES ASSUME EmacInit PROVE EmacInductive
  OBVIOUS
<1>1. above = <<>> /\ line = <<>> /\ Len(above) = 0 /\ Len(line) = 0
  BY DEF EmacInit
<1>2. Empty \in Nat \X Nat
  BY DEF Empty
<1>3. /\ rx.own = [i \in Descriptors |-> i = 0] /\ rx.idx = 0 /\ rx.at = 0 /\ ~rx.half
      /\ rx.came = 0 /\ rx.buf = Empty
  BY DEF EmacInit
<1>4. /\ tx.own = [i \in Descriptors |-> FALSE] /\ tx.idx = NumDescriptors - 1 /\ tx.at = 0
      /\ tx.out = 0 /\ tx.sent = 0 /\ tx.buf = Empty
  BY DEF EmacInit
<1>5. thread.pc = "wait" /\ thread.got = Empty
  BY DEF EmacInit
<1>6. EmacShape
  <2>1. DOMAIN rx = {"own", "stat", "buf", "idx", "at", "half", "came"} /\ DOMAIN rx.stat = Descriptors
    BY DEF EmacInit
  <2>2. DOMAIN tx = {"own", "buf", "idx", "at", "out", "sent"} /\ DOMAIN thread = {"pc", "got"}
    BY DEF EmacInit
  <2>3. rx.own \in [Descriptors -> BOOLEAN] /\ tx.own \in [Descriptors -> BOOLEAN]
    BY <1>3, <1>4
  <2>4. irq \in BOOLEAN /\ giant \in Nat /\ rx.half \in BOOLEAN
    BY <1>3 DEF EmacInit
  <2> QED
    BY <1>1, <1>2, <1>3, <1>4, <1>5, <2>1, <2>2, <2>3, <2>4, AfterFacts DEF EmacShape
<1>7. rx.own[rx.idx] /\ \A i \in Descriptors : i # rx.idx => ~rx.own[i]
  BY <1>3, AfterFacts
<1>8. ReceiveRight
  BY <1>1, <1>3, <1>5, <1>7 DEF ReceiveRight, OneReceives, BufferRight, ThreadRight, AboveRight
<1>9. \A i \in Descriptors : ~tx.own[i]
  BY <1>4
<1>10. OneSends
  BY <1>1, <1>4, <1>5, <1>9, AfterFacts DEF OneSends
<1> QED
  BY <1>6, <1>8, <1>10 DEF EmacInductive

\* The chip puts a frame into the buffer, or loses it.
LEMMA ReceiveByDma ==
  ASSUME EmacInductive, FrameComes \/ FrameCame
  PROVE  EmacInductive'
<1>1. UNCHANGED <<tx, giant, thread, above, line>>
  BY DEF FrameComes, FrameCame
<1>2. OneSends'
  BY <1>1 DEF EmacInductive, OneSends
<1>0. /\ \A i \in 1 .. Len(above) : above[i][1] \in Nat
      /\ rx.buf[1] \in Nat /\ rx.buf[2] \in Nat /\ rx.came \in Nat
  BY DEF EmacInductive, EmacShape
<1>3. CASE FrameComes /\ ~rx.own[rx.at]
  <2>1. rx' = [rx EXCEPT !.came = @ + 1] /\ irq' = irq
    BY <1>3 DEF FrameComes
  <2>2. /\ DOMAIN rx' = DOMAIN rx /\ rx'.own = rx.own /\ rx'.stat = rx.stat /\ rx'.buf = rx.buf
        /\ rx'.idx = rx.idx /\ rx'.at = rx.at /\ rx'.half = rx.half /\ rx'.came = rx.came + 1
    BY <2>1 DEF EmacInductive, EmacShape
  <2>3. EmacShape'
    BY <1>1, <2>1, <2>2 DEF EmacInductive, EmacShape
  <2>4. ~rx.half
    BY <1>3 DEF FrameComes
  <2>5. OneReceives' /\ ThreadRight' /\ AboveRight'
    BY <1>1, <2>1, <2>2 DEF EmacInductive, ReceiveRight, OneReceives, ThreadRight, AboveRight
  <2>6. BufferRight'
    BY <1>0, <1>1, <2>2, <2>4 DEF EmacInductive, ReceiveRight, BufferRight
  <2> QED
    BY <1>2, <2>3, <2>5, <2>6 DEF EmacInductive, ReceiveRight
<1>4. CASE FrameComes /\ rx.own[rx.at]
  <2>1. rx' = [rx EXCEPT !.came = @ + 1, !.half = TRUE, !.buf[1] = rx.came + 1] /\ irq' = irq
    BY <1>4 DEF FrameComes
  <2>2. /\ DOMAIN rx' = DOMAIN rx /\ rx'.own = rx.own /\ rx'.stat = rx.stat
        /\ rx'.buf = [rx.buf EXCEPT ![1] = rx.came + 1]
        /\ rx'.idx = rx.idx /\ rx'.at = rx.at /\ rx'.half = TRUE /\ rx'.came = rx.came + 1
    BY <2>1 DEF EmacInductive, EmacShape
  <2>3. rx'.buf = <<rx.came + 1, rx.buf[2]>> /\ rx'.buf \in Nat \X Nat /\ rx'.buf[1] = rx.came + 1
    BY <2>2, HalfWritten DEF EmacInductive, EmacShape
  <2>4. EmacShape'
    BY <1>1, <2>1, <2>2, <2>3 DEF EmacInductive, EmacShape
  <2>5. rx.own[rx.idx] /\ rx.at = rx.idx
    BY <1>4 DEF EmacInductive, EmacShape, ReceiveRight, OneReceives
  <2>6. OneReceives' /\ ThreadRight' /\ AboveRight'
    BY <1>1, <2>1, <2>2, <2>5 DEF EmacInductive, ReceiveRight, OneReceives, ThreadRight, AboveRight
  <2>7. BufferRight'
    BY <1>0, <1>1, <2>2, <2>3, <2>5 DEF EmacInductive, ReceiveRight, BufferRight
  <2> QED
    BY <1>2, <2>4, <2>6, <2>7 DEF EmacInductive, ReceiveRight
<1>5. CASE FrameCame
  <2>1. PICK stat :
          rx' = [rx EXCEPT !.half = FALSE, !.buf[2] = rx.came, !.own[rx.at] = FALSE,
                           !.stat[rx.at] = stat, !.at = After(@)]
    BY <1>5 DEF FrameCame
  <2>2. /\ DOMAIN rx' = DOMAIN rx /\ rx'.own = [rx.own EXCEPT ![rx.at] = FALSE]
        /\ rx'.stat = [rx.stat EXCEPT ![rx.at] = stat] /\ rx'.buf = [rx.buf EXCEPT ![2] = rx.came]
        /\ rx'.idx = rx.idx /\ rx'.at = After(rx.at) /\ ~rx'.half /\ rx'.half \in BOOLEAN
        /\ rx'.came = rx.came
    BY <2>1 DEF EmacInductive, EmacShape
  <2>3. rx'.buf = <<rx.buf[1], rx.came>> /\ rx'.buf \in Nat \X Nat
    BY <2>2, HalfWritten DEF EmacInductive, EmacShape
  <2>4. rx.half /\ irq' = TRUE
    BY <1>5 DEF FrameCame
  <2>5. rx.own[rx.idx] /\ rx.at = rx.idx
    BY <2>4 DEF EmacInductive, ReceiveRight, OneReceives
  <2>6. EmacShape'
    BY <1>1, <2>2, <2>3, <2>4, AfterFacts DEF EmacInductive, EmacShape
  <2>7. ~rx'.own[rx.idx] /\ \A i \in Descriptors : i # rx.idx => ~rx'.own[i]
    BY <2>2, <2>5 DEF EmacInductive, EmacShape, ReceiveRight, OneReceives
  <2>8. OneReceives' /\ AboveRight'
    BY <1>1, <2>2, <2>5, <2>7 DEF EmacInductive, ReceiveRight, OneReceives, AboveRight
  <2>9. rx'.buf[1] = rx.buf[1] /\ rx'.buf[2] = rx.came /\ rx.buf[1] = rx.came
    BY <2>3, <2>4 DEF EmacInductive, ReceiveRight, BufferRight
  <2>10. BufferRight'
    BY <1>0, <1>1, <2>2, <2>4, <2>9 DEF EmacInductive, ReceiveRight, BufferRight
  <2>11. ThreadRight'
    BY <1>1, <2>4, <2>5 DEF EmacInductive, ReceiveRight, ThreadRight
  <2> QED
    BY <1>2, <2>6, <2>8, <2>10, <2>11 DEF EmacInductive, ReceiveRight
<1> QED
  BY <1>3, <1>4, <1>5

\* A descriptor that is given to the DMA is its only one, and the buffer is free.
LEMMA GivenRight ==
  ASSUME EmacInductive, ~rx.own[rx.idx], rx' = Given
  PROVE  /\ DOMAIN rx' = DOMAIN rx /\ rx'.own \in [Descriptors -> BOOLEAN]
         /\ DOMAIN rx'.stat = Descriptors /\ rx'.buf = rx.buf
         /\ rx'.idx \in Descriptors /\ rx'.at = rx.at /\ ~rx'.half /\ rx'.half \in BOOLEAN
         /\ rx'.came = rx.came /\ rx'.own[rx'.idx] /\ OneReceives'
<1>1. /\ DOMAIN rx' = DOMAIN rx /\ rx'.own = [rx.own EXCEPT ![After(rx.idx)] = TRUE]
      /\ rx'.stat = [rx.stat EXCEPT ![After(rx.idx)] = "none"] /\ rx'.buf = rx.buf
      /\ rx'.idx = After(rx.idx) /\ rx'.at = rx.at /\ rx'.half = rx.half /\ rx'.came = rx.came
  BY DEF Given, EmacInductive, EmacShape
<1>2. After(rx.idx) \in Descriptors
  BY AfterFacts DEF EmacInductive, EmacShape
<1>3. \A i \in Descriptors : ~rx.own[i]
  BY DEF EmacInductive, ReceiveRight, OneReceives
<1>4. /\ rx'.own \in [Descriptors -> BOOLEAN] /\ rx'.own[rx'.idx]
      /\ \A i \in Descriptors : i # rx'.idx => ~rx'.own[i]
  BY <1>1, <1>2, <1>3 DEF EmacInductive, EmacShape
<1>5. rx.at = After(rx.idx) /\ ~rx.half /\ rx.half \in BOOLEAN
  BY DEF EmacInductive, EmacShape, ReceiveRight, OneReceives
<1>6. OneReceives'
  BY <1>1, <1>4, <1>5 DEF OneReceives
<1>7. DOMAIN rx'.stat = Descriptors
  BY <1>1 DEF EmacInductive, EmacShape
<1> QED
  BY <1>1, <1>2, <1>4, <1>5, <1>6, <1>7

\* The thread takes what came.
LEMMA ReceiveByThread ==
  ASSUME EmacInductive, ENET_Handler \/ Wake \/ Poll \/ Copied \/ Give
  PROVE  EmacInductive'
<1>0. /\ \A i \in 1 .. Len(above) : above[i][1] \in Nat
      /\ rx.buf[1] \in Nat /\ rx.buf[2] \in Nat /\ rx.came \in Nat
      /\ <<rx.buf[1], 0>> \in Nat \X Nat /\ giant \in Nat
  BY DEF EmacInductive, EmacShape
<1>1. tx' = tx /\ line' = line
  BY DEF ENET_Handler, Wake, Poll, Copied, Give
<1>2. thread'.pc # "send" \/ thread' = thread
  <2>1. \A pc, got : [thread EXCEPT !.pc = pc, !.got[2] = got].pc = pc
                   /\ [thread EXCEPT !.pc = pc].pc = pc
    BY DEF EmacInductive, EmacShape
  <2>2. CASE ENET_Handler \/ Wake \/ Copied \/ Give
    BY <2>1, <2>2 DEF ENET_Handler, Wake, Copied, Give
  <2>3. CASE Poll
    <3>1. CASE thread' = [pc |-> "copy", got |-> <<rx.buf[1], 0>>]
      <4>1. thread'.pc = "copy"
        BY <3>1
      <4> QED
        BY <4>1
    <3>2. CASE thread' = [thread EXCEPT !.pc = "wait"]
      <4>1. thread'.pc = "wait"
        BY <2>1, <3>2
      <4> QED
        BY <4>1
    <3> QED
      BY <2>3, <3>1, <3>2 DEF Poll
  <2> QED
    BY <2>2, <2>3
<1>3. OneSends'
  BY <1>1, <1>2 DEF EmacInductive, OneSends
<1>4. CASE ENET_Handler
  <2>1. /\ irq' = FALSE /\ giant' = giant + 1 /\ giant' \in Nat /\ giant' # 0
        /\ UNCHANGED <<rx, thread, above>>
    BY <1>0, <1>4 DEF ENET_Handler
  <2>2. EmacShape'
    BY <1>1, <2>1 DEF EmacInductive, EmacShape
  <2>3. ReceiveRight'
    BY <2>1 DEF EmacInductive, ReceiveRight, OneReceives, BufferRight, ThreadRight, AboveRight
  <2> QED
    BY <1>3, <2>2, <2>3 DEF EmacInductive
<1>5. CASE Wake
  <2>1. /\ giant' \in Nat /\ UNCHANGED <<rx, irq, above>>
    BY <1>0, <1>5 DEF Wake
  <2>2. DOMAIN thread' = DOMAIN thread /\ thread'.pc = "poll" /\ thread'.got = thread.got
    BY <1>5 DEF Wake, EmacInductive, EmacShape
  <2>3. EmacShape'
    BY <1>1, <2>1, <2>2 DEF EmacInductive, EmacShape
  <2>4. ReceiveRight'
    BY <2>1, <2>2 DEF EmacInductive, ReceiveRight, OneReceives, BufferRight, ThreadRight, AboveRight
  <2> QED
    BY <1>3, <2>3, <2>4 DEF EmacInductive
<1>6. CASE Poll /\ rx.own[rx.idx]
  <2>1. UNCHANGED <<rx, irq, giant, above>> /\ thread' = [thread EXCEPT !.pc = "wait"]
    BY <1>6 DEF Poll
  <2>2. DOMAIN thread' = DOMAIN thread /\ thread'.pc = "wait" /\ thread'.got = thread.got
    BY <2>1 DEF EmacInductive, EmacShape
  <2>3. EmacShape'
    BY <1>1, <2>1, <2>2 DEF EmacInductive, EmacShape
  <2>4. ReceiveRight'
    BY <1>6, <2>1, <2>2
    DEF EmacInductive, ReceiveRight, OneReceives, BufferRight, ThreadRight, AboveRight
  <2> QED
    BY <1>3, <2>3, <2>4 DEF EmacInductive
<1>7. CASE Poll /\ ~rx.own[rx.idx] /\ rx.stat[rx.idx] = "good"
  <2>1. UNCHANGED <<rx, irq, giant, above>> /\ thread' = [pc |-> "copy", got |-> <<rx.buf[1], 0>>]
    BY <1>7 DEF Poll
  <2>2. /\ DOMAIN thread' = {"pc", "got"} /\ thread'.pc = "copy" /\ thread'.got \in Nat \X Nat
        /\ thread'.got[1] = rx.buf[1]
    BY <1>0, <2>1
  <2>3. EmacShape'
    BY <1>1, <2>1, <2>2 DEF EmacInductive, EmacShape
  <2>4. ReceiveRight'
    BY <1>7, <2>1, <2>2
    DEF EmacInductive, ReceiveRight, OneReceives, BufferRight, ThreadRight, AboveRight
  <2> QED
    BY <1>3, <2>3, <2>4 DEF EmacInductive
<1>8. CASE Poll /\ ~rx.own[rx.idx] /\ rx.stat[rx.idx] # "good"
  <2>1. /\ UNCHANGED <<irq, giant, above>> /\ thread' = [thread EXCEPT !.pc = "wait"]
        /\ rx' = Given
    BY <1>8 DEF Poll
  <2>2. DOMAIN thread' = DOMAIN thread /\ thread'.pc = "wait" /\ thread'.got = thread.got
    BY <2>1 DEF EmacInductive, EmacShape
  <2>3. /\ DOMAIN rx' = DOMAIN rx /\ rx'.own \in [Descriptors -> BOOLEAN]
        /\ DOMAIN rx'.stat = Descriptors /\ rx'.buf = rx.buf
        /\ rx'.idx \in Descriptors /\ rx'.at = rx.at /\ ~rx'.half /\ rx'.half \in BOOLEAN
        /\ rx'.came = rx.came /\ rx'.own[rx'.idx] /\ OneReceives'
    BY <1>8, <2>1, GivenRight
  <2>4. EmacShape'
    BY <1>1, <2>1, <2>2, <2>3 DEF EmacInductive, EmacShape
  <2>5. BufferRight' /\ ThreadRight' /\ AboveRight'
    BY <2>1, <2>2, <2>3 DEF EmacInductive, ReceiveRight, BufferRight, ThreadRight, AboveRight
  <2> QED
    BY <1>3, <2>3, <2>4, <2>5 DEF EmacInductive, ReceiveRight
<1>9. CASE Copied
  <2>1. /\ UNCHANGED <<rx, irq, giant, above>>
        /\ thread' = [thread EXCEPT !.pc = "give", !.got[2] = rx.buf[2]]
    BY <1>9 DEF Copied
  <2>2. /\ DOMAIN thread' = DOMAIN thread /\ thread'.pc = "give"
        /\ thread'.got = [thread.got EXCEPT ![2] = rx.buf[2]]
    BY <2>1 DEF EmacInductive, EmacShape
  <2>3. thread'.got = <<thread.got[1], rx.buf[2]>> /\ thread'.got \in Nat \X Nat
    BY <1>0, <2>2, HalfWritten DEF EmacInductive, EmacShape
  <2>4. EmacShape'
    BY <1>1, <2>1, <2>2, <2>3 DEF EmacInductive, EmacShape
  <2>5. thread'.got[1] = rx.buf[1] /\ thread'.got[2] = rx.buf[2] /\ ~rx.own[rx.idx]
    BY <1>9, <2>3 DEF Copied, EmacInductive, ReceiveRight, ThreadRight
  <2>6. ReceiveRight'
    BY <2>1, <2>2, <2>5 DEF EmacInductive, ReceiveRight, OneReceives, BufferRight, ThreadRight, AboveRight
  <2> QED
    BY <1>3, <2>4, <2>6 DEF EmacInductive
<1>10. CASE Give
  <2>1. /\ UNCHANGED <<irq, giant>> /\ thread' = [thread EXCEPT !.pc = "wait"]
        /\ rx' = Given /\ above' = Append(above, thread.got) /\ thread.pc = "give"
    BY <1>10 DEF Give
  <2>2. DOMAIN thread' = DOMAIN thread /\ thread'.pc = "wait" /\ thread'.got = thread.got
    BY <2>1 DEF EmacInductive, EmacShape
  <2>3. /\ ~rx.own[rx.idx] /\ thread.got[1] = rx.buf[1] /\ thread.got[2] = rx.buf[2]
        /\ rx.buf[1] = rx.buf[2] /\ rx.buf[1] <= rx.came
    BY <2>1 DEF EmacInductive, ReceiveRight, ThreadRight, BufferRight
  <2>4. /\ DOMAIN rx' = DOMAIN rx /\ rx'.own \in [Descriptors -> BOOLEAN]
        /\ DOMAIN rx'.stat = Descriptors /\ rx'.buf = rx.buf
        /\ rx'.idx \in Descriptors /\ rx'.at = rx.at /\ ~rx'.half /\ rx'.half \in BOOLEAN
        /\ rx'.came = rx.came /\ rx'.own[rx'.idx] /\ OneReceives'
    BY <2>1, <2>3, GivenRight
  <2>5. /\ above' \in Seq(Nat \X Nat) /\ Len(above) \in Nat /\ Len(above') = Len(above) + 1
        /\ above'[Len(above) + 1] = thread.got /\ \A i \in 1 .. Len(above) : above'[i] = above[i]
    BY <2>1, Appended DEF EmacInductive, EmacShape
  <2>6. EmacShape'
    BY <1>1, <2>1, <2>2, <2>4, <2>5 DEF EmacInductive, EmacShape
  <2>7. \A i \in 1 .. Len(above) : above[i][1] <= rx.came /\ above[i][1] < rx.buf[1]
    BY <2>3 DEF EmacInductive, ReceiveRight, BufferRight
  <2>8. \A i \in 1 .. Len(above') : i \in 1 .. Len(above) \/ i = Len(above) + 1
    BY <2>5
  <2>9. BufferRight'
    BY <2>3, <2>4, <2>5, <2>7, <2>8 DEF BufferRight
  <2>10. AboveRight'
    <3>1. \A i \in 1 .. Len(above') : above'[i][1] = above'[i][2]
      BY <2>3, <2>5, <2>8 DEF EmacInductive, ReceiveRight, AboveRight
    <3>2. ASSUME NEW i \in 1 .. Len(above'), i > 1 PROVE above'[i - 1][1] < above'[i][1]
      <4>1. CASE i \in 1 .. Len(above)
        <5>1. i - 1 \in 1 .. Len(above)
          BY <2>5, <3>2, <4>1
        <5>2. above[i - 1][1] < above[i][1]
          BY <3>2, <4>1 DEF EmacInductive, ReceiveRight, AboveRight
        <5> QED
          BY <2>5, <4>1, <5>1, <5>2
      <4>2. CASE i = Len(above) + 1
        <5>1. i - 1 \in 1 .. Len(above)
          BY <2>5, <3>2, <4>2
        <5> QED
          BY <2>3, <2>5, <2>7, <4>2, <5>1
      <4> QED
        BY <2>8, <4>1, <4>2
    <3> QED
      BY <3>1, <3>2 DEF AboveRight
  <2>11. ThreadRight'
    BY <2>2, <2>4 DEF ThreadRight
  <2> QED
    BY <1>3, <2>4, <2>6, <2>9, <2>10, <2>11 DEF EmacInductive, ReceiveRight
<1> QED
  BY <1>4, <1>5, <1>6, <1>7, <1>8, <1>9, <1>10

\* A packet is written, and the DMA sends it.
LEMMA SendStep ==
  ASSUME EmacInductive, SendBegin \/ SendEnd \/ FrameGoes
  PROVE  EmacInductive'
<1>0. /\ UNCHANGED <<rx, irq, giant, above>>
      /\ tx.sent \in Nat /\ tx.out \in Nat /\ tx.buf[2] \in Nat /\ tx.buf[1] \in Nat
      /\ Len(line) \in Nat
  BY DEF EmacInductive, EmacShape, SendBegin, SendEnd, FrameGoes
<1>1. CASE SendBegin
  <2>1. /\ tx' = [tx EXCEPT !.buf[1] = tx.sent + 1] /\ thread' = [thread EXCEPT !.pc = "send"]
        /\ thread.pc = "wait" /\ ~tx.own[tx.idx] /\ line' = line
    BY <1>1 DEF SendBegin
  <2>2. /\ DOMAIN tx' = DOMAIN tx /\ tx'.own = tx.own /\ tx'.idx = tx.idx /\ tx'.at = tx.at
        /\ tx'.out = tx.out /\ tx'.sent = tx.sent /\ tx'.buf = [tx.buf EXCEPT ![1] = tx.sent + 1]
        /\ DOMAIN thread' = DOMAIN thread /\ thread'.pc = "send" /\ thread'.got = thread.got
    BY <2>1 DEF EmacInductive, EmacShape
  <2>3. tx'.buf = <<tx.sent + 1, tx.buf[2]>> /\ tx'.buf \in Nat \X Nat /\ tx'.buf[1] = tx.sent + 1
    BY <1>0, <2>2, HalfWritten DEF EmacInductive, EmacShape
  <2>4. EmacShape'
    BY <1>0, <2>1, <2>2, <2>3 DEF EmacInductive, EmacShape
  <2>5. ReceiveRight'
    BY <1>0, <2>1, <2>2 DEF EmacInductive, ReceiveRight, OneReceives, BufferRight, ThreadRight, AboveRight
  <2>6. OneSends'
    BY <2>1, <2>2, <2>3 DEF EmacInductive, OneSends
  <2> QED
    BY <2>4, <2>5, <2>6 DEF EmacInductive
<1>2. CASE SendEnd
  <2>1. /\ tx' = [tx EXCEPT !.buf[2] = tx.sent + 1, !.idx = After(@), !.own[After(tx.idx)] = TRUE,
                            !.sent = @ + 1]
        /\ thread' = [thread EXCEPT !.pc = "wait"] /\ thread.pc = "send" /\ line' = line
    BY <1>2 DEF SendEnd
  <2>2. /\ DOMAIN tx' = DOMAIN tx /\ tx'.own = [tx.own EXCEPT ![After(tx.idx)] = TRUE]
        /\ tx'.idx = After(tx.idx) /\ tx'.at = tx.at /\ tx'.out = tx.out /\ tx'.sent = tx.sent + 1
        /\ tx'.buf = [tx.buf EXCEPT ![2] = tx.sent + 1]
        /\ DOMAIN thread' = DOMAIN thread /\ thread'.pc = "wait" /\ thread'.got = thread.got
    BY <2>1 DEF EmacInductive, EmacShape
  <2>3. /\ ~tx.own[tx.idx] /\ tx.buf[1] = tx.sent + 1 /\ tx.at = After(tx.idx) /\ tx.out = 0
        /\ tx.sent = Len(line) /\ \A i \in Descriptors : ~tx.own[i]
    BY <2>1 DEF EmacInductive, OneSends
  <2>4. tx'.buf = <<tx.sent + 1, tx.sent + 1>> /\ tx'.buf \in Nat \X Nat
    BY <1>0, <2>2, <2>3, HalfWritten DEF EmacInductive, EmacShape
  <2>5. After(tx.idx) \in Descriptors
    BY AfterFacts DEF EmacInductive, EmacShape
  <2>6. EmacShape'
    BY <1>0, <2>1, <2>2, <2>4, <2>5 DEF EmacInductive, EmacShape
  <2>7. ReceiveRight'
    BY <1>0, <2>1, <2>2 DEF EmacInductive, ReceiveRight, OneReceives, BufferRight, ThreadRight, AboveRight
  <2>8. tx'.own[tx'.idx] /\ \A i \in Descriptors : i # tx'.idx => ~tx'.own[i]
    BY <2>2, <2>3, <2>5 DEF EmacInductive, EmacShape
  <2>9. OneSends'
    BY <1>0, <2>1, <2>2, <2>3, <2>4, <2>8 DEF EmacInductive, OneSends
  <2> QED
    BY <2>6, <2>7, <2>9 DEF EmacInductive
<1>3. CASE FrameGoes
  <2>1. thread' = thread /\ tx.own[tx.at]
    BY <1>3 DEF FrameGoes
  <2>2. /\ tx.own[tx.idx] /\ tx.at = tx.idx /\ tx.buf = <<tx.sent, tx.sent>> /\ tx.sent > 0
        /\ tx.out \in {0, tx.sent} /\ tx.sent = Len(line) + 1 /\ thread.pc # "send"
    BY <2>1 DEF EmacInductive, EmacShape, OneSends
  <2>3. ReceiveRight'
    BY <1>0, <2>1 DEF EmacInductive, ReceiveRight, OneReceives, BufferRight, ThreadRight, AboveRight
  <2>4. CASE tx.out = 0
    <3>1. tx' = [tx EXCEPT !.out = tx.buf[1]] /\ line' = line
      BY <1>3, <2>4 DEF FrameGoes
    <3>2. /\ DOMAIN tx' = DOMAIN tx /\ tx'.own = tx.own /\ tx'.idx = tx.idx /\ tx'.at = tx.at
          /\ tx'.out = tx.sent /\ tx'.sent = tx.sent /\ tx'.buf = tx.buf
      BY <2>2, <3>1 DEF EmacInductive, EmacShape
    <3>3. EmacShape'
      BY <1>0, <2>1, <3>1, <3>2 DEF EmacInductive, EmacShape
    <3>4. OneSends'
      BY <2>1, <2>2, <3>1, <3>2 DEF EmacInductive, OneSends
    <3> QED
      BY <2>3, <3>3, <3>4 DEF EmacInductive
  <2>5. CASE tx.out # 0
    <3>1. /\ tx' = [tx EXCEPT !.out = 0, !.own[tx.at] = FALSE, !.at = After(@)]
          /\ line' = Append(line, <<tx.out, tx.buf[2]>>)
      BY <1>3, <2>5 DEF FrameGoes
    <3>2. /\ DOMAIN tx' = DOMAIN tx /\ tx'.own = [tx.own EXCEPT ![tx.at] = FALSE]
          /\ tx'.idx = tx.idx /\ tx'.at = After(tx.at)
          /\ tx'.out = 0 /\ tx'.sent = tx.sent /\ tx'.buf = tx.buf
      BY <3>1 DEF EmacInductive, EmacShape
    <3>3. <<tx.out, tx.buf[2]>> = <<tx.sent, tx.sent>> /\ <<tx.sent, tx.sent>> \in Nat \X Nat
      BY <1>0, <2>2, <2>5
    <3>4. /\ line' \in Seq(Nat \X Nat) /\ Len(line') = Len(line) + 1
          /\ line'[Len(line) + 1] = <<tx.sent, tx.sent>> /\ \A i \in 1 .. Len(line) : line'[i] = line[i]
      BY <3>1, <3>3, Appended DEF EmacInductive, EmacShape
    <3>5. After(tx.at) \in Descriptors
      BY AfterFacts DEF EmacInductive, EmacShape
    <3>6. EmacShape'
      BY <1>0, <2>1, <3>2, <3>4, <3>5 DEF EmacInductive, EmacShape
    <3>7. ~tx'.own[tx'.idx] /\ \A i \in Descriptors : i # tx'.idx => ~tx'.own[i]
      BY <2>2, <3>2 DEF EmacInductive, EmacShape, OneSends
    <3>8. \A i \in 1 .. Len(line') : line'[i] = <<i, i>>
      <4>1. \A i \in 1 .. Len(line) : line[i] = <<i, i>>
        BY DEF EmacInductive, OneSends
      <4>2. \A i \in 1 .. Len(line') : i \in 1 .. Len(line) \/ i = tx.sent
        BY <1>0, <2>2, <3>4
      <4>3. line'[tx.sent] = <<tx.sent, tx.sent>>
        BY <2>2, <3>4
      <4> QED
        BY <3>4, <4>1, <4>2, <4>3
    <3>9. OneSends'
      BY <2>1, <2>2, <3>2, <3>4, <3>7, <3>8 DEF OneSends
    <3> QED
      BY <2>3, <3>6, <3>9 DEF EmacInductive
  <2> QED
    BY <2>4, <2>5
<1> QED
  BY <1>1, <1>2, <1>3

LEMMA EmacInductiveNext ==
  EmacInductive /\ [EmacNext]_emacvars => EmacInductive'
<1> SUFFICES ASSUME EmacInductive, [EmacNext]_emacvars PROVE EmacInductive'
  OBVIOUS
<1>1. CASE EmacNext
  BY <1>1, ReceiveByDma, ReceiveByThread, SendStep DEF EmacNext
<1>2. CASE UNCHANGED emacvars
  BY <1>2 DEF emacvars, EmacInductive, EmacShape, ReceiveRight, OneReceives, BufferRight,
              ThreadRight, AboveRight, OneSends
<1> QED
  BY <1>1, <1>2

\* Frames go up and out in one piece, in their order and once, for any number of descriptors
\* that share one buffer, and the thread does not sleep while a frame lies in it.
THEOREM EmacIntactAlways ==
  EmacSpec => []EmacIntact
<1>1. EmacInductive => EmacIntact
  <2> SUFFICES ASSUME EmacInductive PROVE EmacIntact
    OBVIOUS
  <2>1. DOMAIN above = 1 .. Len(above) /\ DOMAIN line = 1 .. Len(line)
    BY DEF EmacInductive, EmacShape
  <2> QED
    BY <2>1 DEF EmacInductive, ReceiveRight, AboveRight, ThreadRight, OneSends, EmacIntact
<1> QED
  BY <1>1, EmacInductiveInit, EmacInductiveNext, PTL DEF EmacSpec

-----------------------------------------------------------------------------
(* Enc28j60: the ring of the chip.  As ERXRDPT stays where enc28j60_Init   *)
(* puts it, the chip never writes beyond the end of its ring, and what it  *)
(* wrote lies there until the next reset.                                  *)

KeptFrames == [at : Nat, frame : Nat, len : Nat]

\* Frames as they came
WholeFrames == {[data |-> [k \in 1 .. e.len |-> e.frame], was |-> e] : e \in KeptFrames}

FrameTail(e) == e.at + e.len + 2

EncShape ==
  /\ ring \in [0 .. RxSize - 1 -> Nat]
  /\ DOMAIN chip = {"wr", "rdpt", "rdlo", "count", "error", "needs"}
  /\ chip.wr \in 0 .. RxSize - 1 /\ chip.rdpt = 0 /\ chip.count \in Nat /\ chip.error \in BOOLEAN
  /\ DOMAIN recv = {"pc", "at"}
  /\ arrived \in Nat /\ kept \in Seq(KeptFrames)
  /\ stack \in Seq(WholeFrames)

\* A frame in the ring: where the next one is, its length, and its data
InRing(r, wr, e) ==
  /\ FrameTail(e) <= wr
  /\ r[e.at] = FrameTail(e) /\ r[e.at + 1] = e.len
  /\ \A k \in 1 .. e.len : r[e.at + 1 + k] = e.frame

\* The frames that are kept lie in the ring one behind the other.
KeptInRing ==
  \A j \in 1 .. Len(kept) :
    /\ InRing(ring, chip.wr, kept[j])
    /\ FrameTail(kept[j]) = IF j = Len(kept) THEN chip.wr ELSE kept[j + 1].at

\* The thread is at the oldest of them.
ReadsOldest ==
  /\ chip.count = Len(kept)
  /\ recv.pc \in {"out", "data", "free"}
  /\ recv.pc = "out" => nextPkt = IF Len(kept) = 0 THEN chip.wr ELSE kept[1].at
  /\ recv.pc # "out" => Len(kept) > 0 /\ recv.at = kept[1].at /\ nextPkt = FrameTail(kept[1])

EncInductive == EncShape /\ KeptInRing /\ ReadsOldest

\* Places before the end of the ring
LEMMA PlaceFacts ==
  ASSUME NEW k \in Nat, k < 2 * RxSize
  PROVE  k % RxSize = IF k < RxSize THEN k ELSE k - RxSize
BY EncAssumption

LEMMA EncInductiveInit ==
  EncInit => EncInductive
<1> SUFFICES ASSUME EncInit PROVE EncInductive
  OBVIOUS
<1>1. /\ chip.wr = 0 /\ chip.rdpt = 0 /\ chip.count = 0 /\ chip.error \in BOOLEAN
      /\ DOMAIN chip = {"wr", "rdpt", "rdlo", "count", "error", "needs"}
  BY DEF EncInit, ChipInit
<1>2. ring \in [0 .. RxSize - 1 -> Nat] /\ arrived \in Nat /\ nextPkt = 0
  BY DEF EncInit
<1>3. recv.pc = "out" /\ DOMAIN recv = {"pc", "at"}
  BY DEF EncInit
<1>4. kept = <<>> /\ stack = <<>> /\ Len(kept) = 0
  BY DEF EncInit
<1>5. EncShape
  BY <1>1, <1>2, <1>3, <1>4, EncAssumption DEF EncShape
<1>6. KeptInRing /\ ReadsOldest
  BY <1>1, <1>2, <1>3, <1>4 DEF KeptInRing, ReadsOldest
<1> QED
  BY <1>5, <1>6 DEF EncInductive

\* A frame that finds room lies behind all others.
LEMMA WrittenFrame ==
  ASSUME EncInductive, NEW len \in 1 .. MaxLen, ~(len + 2 > Room)
  PROVE  LET r == Written(len)
         IN /\ chip.wr + len + 2 <= RxSize - 1 /\ Place(chip.wr, len + 2) = chip.wr + len + 2
            /\ r \in [0 .. RxSize - 1 -> Nat]
            /\ \A a \in 0 .. chip.wr - 1 : r[a] = ring[a]
            /\ r[chip.wr] = chip.wr + len + 2 /\ r[chip.wr + 1] = len
            /\ \A k \in 1 .. len : r[chip.wr + 1 + k] = arrived
<1> DEFINE wr == chip.wr
           r == Written(len)
           k(a) == (a + RxSize - wr) % RxSize
<1>1. wr \in 0 .. RxSize - 1 /\ RxSize \in Nat /\ len \in Nat /\ len > 0 /\ arrived \in Nat
      /\ ring \in [0 .. RxSize - 1 -> Nat] /\ chip.rdpt = 0
  BY EncAssumption DEF EncInductive, EncShape
<1>2. Room = RxSize - wr - 1
  <2> DEFINE x == RxSize - wr - 1
  <2>1. x \in Nat /\ x < RxSize /\ x < 2 * RxSize
    BY <1>1
  <2>2. chip.rdpt + RxSize - chip.wr - 1 = x
    BY <1>1
  <2>3. Room = x % RxSize
    BY <2>2 DEF Room
  <2> HIDE DEF x
  <2>4. Room = x
    BY <2>1, <2>3, PlaceFacts
  <2> QED
    BY <2>4 DEF x
<1>3. wr + len + 2 \in Nat /\ wr + len + 2 <= RxSize - 1
  <2>1. wr \in Nat /\ wr + len + 2 \in Nat
    BY <1>1
  <2>2. len + 2 <= RxSize - wr - 1
    BY <1>1, <1>2
  <2> HIDE DEF wr
  <2> QED
    BY <1>1, <2>1, <2>2
<1>4. Place(wr, len + 2) = wr + len + 2
  <2> DEFINE x == wr + (len + 2)
  <2>1. x = wr + len + 2
    BY <1>1
  <2>0. x \in Nat /\ x < RxSize /\ x < 2 * RxSize
    BY <1>1, <1>3, <2>1
  <2>2. Place(wr, len + 2) = x % RxSize
    BY DEF Place
  <2> HIDE DEF x
  <2>3. x % RxSize = x
    BY <2>0, PlaceFacts
  <2> QED
    BY <2>1, <2>2, <2>3
<1>5. ASSUME NEW a \in 0 .. RxSize - 1 PROVE k(a) = IF wr <= a THEN a - wr ELSE a + RxSize - wr
  <2> DEFINE x == a + RxSize - wr
  <2>1. /\ x \in Nat /\ x < 2 * RxSize /\ (x < RxSize <=> ~(wr <= a))
        /\ x = a + RxSize - wr /\ x - RxSize = a - wr
    BY <1>1
  <2>2. k(a) = x % RxSize
    OBVIOUS
  <2> HIDE DEF x
  <2>3. x % RxSize = IF x < RxSize THEN x ELSE x - RxSize
    BY <2>1, PlaceFacts
  <2> HIDE DEF k
  <2> QED
    BY <2>1, <2>2, <2>3
<1>6. r = [a \in 0 .. RxSize - 1 |-> IF k(a) = 0 THEN Place(wr, len + 2)
                                     ELSE IF k(a) = 1 THEN len
                                     ELSE IF k(a) <= len + 1 THEN arrived ELSE ring[a]]
  BY <1>1 DEF Written
<1> HIDE DEF wr, r, k
<1>7. r \in [0 .. RxSize - 1 -> Nat]
  BY <1>1, <1>3, <1>4, <1>6
<1>8. \A a \in 0 .. wr - 1 : r[a] = ring[a]
  <2> TAKE a \in 0 .. wr - 1
  <2>1. a \in 0 .. RxSize - 1 /\ ~(wr <= a) /\ a + RxSize - wr > len + 1
    BY <1>1, <1>3
  <2>2. k(a) = a + RxSize - wr
    BY <1>5, <2>1
  <2>3. k(a) # 0 /\ k(a) # 1 /\ ~(k(a) <= len + 1)
    BY <1>1, <2>1, <2>2
  <2> QED
    BY <1>6, <2>1, <2>3
<1>9. r[wr] = wr + len + 2
  <2>1. wr \in 0 .. RxSize - 1 /\ k(wr) = 0
    BY <1>1, <1>5
  <2> QED
    BY <1>4, <1>6, <2>1
<1>10. r[wr + 1] = len
  <2> DEFINE a == wr + 1
  <2>1. a \in 0 .. RxSize - 1 /\ wr <= a /\ a - wr = 1
    BY <1>1, <1>3
  <2> HIDE DEF a
  <2>2. k(a) = 1
    BY <1>5, <2>1
  <2>3. r[a] = len
    BY <1>6, <2>1, <2>2
  <2> QED
    BY <2>3 DEF a
<1>11. \A j \in 1 .. len : r[wr + 1 + j] = arrived
  <2> TAKE j \in 1 .. len
  <2> DEFINE a == wr + 1 + j
  <2>1. /\ a \in 0 .. RxSize - 1 /\ wr <= a /\ a - wr = 1 + j
        /\ 1 + j # 0 /\ 1 + j # 1 /\ 1 + j <= len + 1
    BY <1>1, <1>3
  <2> HIDE DEF a
  <2>2. k(a) = 1 + j
    BY <1>5, <2>1
  <2>3. r[a] = arrived
    BY <1>6, <2>1, <2>2
  <2> QED
    BY <2>3 DEF a
<1> QED
  BY <1>3, <1>4, <1>7, <1>8, <1>9, <1>10, <1>11 DEF wr, r

\* A frame comes.
LEMMA FrameInKeeps ==
  ASSUME EncInductive, FrameIn
  PROVE  EncInductive'
<1> USE DEF EncInductive
<1>1. PICK len \in 1 .. MaxLen :
        IF len + 2 > Room
          THEN /\ chip' = [chip EXCEPT !.error = TRUE, !.needs = Unread + len + 2]
               /\ UNCHANGED <<ring, kept>>
          ELSE /\ chip' = [chip EXCEPT !.wr = Place(@, len + 2), !.count = @ + 1]
               /\ ring' = Written(len)
               /\ kept' = Append(kept, [at |-> chip.wr, frame |-> arrived, len |-> len])
  BY DEF FrameIn
<1>2. /\ arrived' = arrived + 1 /\ arrived' \in Nat
      /\ nextPkt' = nextPkt /\ recv' = recv /\ stack' = stack
  BY DEF FrameIn, EncShape
<1>3. CASE len + 2 > Room
  <2>1. /\ chip' = [chip EXCEPT !.error = TRUE, !.needs = Unread + len + 2]
        /\ ring' = ring /\ kept' = kept
    BY <1>1, <1>3
  <2>2. /\ DOMAIN chip' = DOMAIN chip /\ chip'.wr = chip.wr /\ chip'.rdpt = chip.rdpt
        /\ chip'.count = chip.count /\ chip'.error = TRUE
    BY <2>1 DEF EncShape
  <2>3. EncShape'
    BY <1>2, <2>1, <2>2 DEF EncShape
  <2>4. KeptInRing'
    BY <2>1, <2>2 DEF KeptInRing, InRing, FrameTail
  <2>5. ReadsOldest'
    BY <1>2, <2>1, <2>2 DEF ReadsOldest, FrameTail
  <2> QED
    BY <2>3, <2>4, <2>5
<1>4. CASE ~(len + 2 > Room)
  <2> DEFINE wr == chip.wr
             new == [at |-> chip.wr, frame |-> arrived, len |-> len]
  <2>1. /\ chip' = [chip EXCEPT !.wr = Place(@, len + 2), !.count = @ + 1]
        /\ ring' = Written(len) /\ kept' = Append(kept, new)
    BY <1>1, <1>4
  <2>2. /\ wr + len + 2 <= RxSize - 1 /\ Place(wr, len + 2) = wr + len + 2
        /\ ring' \in [0 .. RxSize - 1 -> Nat]
        /\ \A a \in 0 .. wr - 1 : ring'[a] = ring[a]
        /\ ring'[wr] = wr + len + 2 /\ ring'[wr + 1] = len
        /\ \A k \in 1 .. len : ring'[wr + 1 + k] = arrived
    BY <1>4, <2>1, WrittenFrame
  <2>3. /\ wr \in Nat /\ len \in Nat /\ wr < RxSize /\ RxSize \in Nat
        /\ kept \in Seq(KeptFrames) /\ arrived \in Nat
    BY EncAssumption DEF EncShape
  <2>4. new \in KeptFrames /\ new.at = wr /\ new.len = len /\ new.frame = arrived
    BY <2>3 DEF KeptFrames
  <2>5. /\ DOMAIN chip' = DOMAIN chip /\ chip'.wr = wr + len + 2 /\ chip'.rdpt = chip.rdpt
        /\ chip'.count = chip.count + 1 /\ chip'.error = chip.error
    BY <2>1, <2>2 DEF EncShape
  <2> HIDE DEF wr, new
  <2>6. /\ kept' \in Seq(KeptFrames) /\ Len(kept') = Len(kept) + 1 /\ Len(kept) \in Nat
        /\ kept'[Len(kept) + 1] = new
        /\ \A j \in 1 .. Len(kept) : kept'[j] = kept[j] /\ kept[j] \in KeptFrames
    BY <2>1, <2>3, <2>4
  <2>7. wr + len + 2 \in 0 .. RxSize - 1
    BY <2>2, <2>3
  <2>8. EncShape'
    <3>1. chip.count + 1 \in Nat /\ chip.error \in BOOLEAN /\ chip.rdpt = 0
          /\ DOMAIN chip = {"wr", "rdpt", "rdlo", "count", "error", "needs"}
          /\ DOMAIN recv = {"pc", "at"} /\ stack \in Seq(WholeFrames)
      BY DEF EncShape
    <3> QED
      BY <1>2, <2>2, <2>5, <2>6, <2>7, <3>1 DEF EncShape
  <2>9. KeptInRing'
    <3>1. FrameTail(new) = wr + len + 2
      BY <2>4 DEF FrameTail
    <3>2. InRing(ring', chip'.wr, new)
      <4>1. ring'[new.at] = FrameTail(new) /\ ring'[new.at + 1] = new.len
        BY <2>2, <2>4, <3>1
      <4>2. \A k \in 1 .. new.len : ring'[new.at + 1 + k] = new.frame
        BY <2>2, <2>4
      <4>3. FrameTail(new) <= chip'.wr
        BY <2>3, <2>5, <3>1
      <4> QED
        BY <4>1, <4>2, <4>3 DEF InRing
    <3>3. ASSUME NEW j \in 1 .. Len(kept)
          PROVE  InRing(ring', chip'.wr, kept[j]) /\ kept'[j] = kept[j]
      <4>1. kept[j].at \in Nat /\ kept[j].len \in Nat
        BY <2>6 DEF KeptFrames
      <4>2. InRing(ring, wr, kept[j])
        BY DEF KeptInRing, wr
      <4> DEFINE e == kept[j]
                 at == e.at
                 tail == at + e.len + 2
      <4>3. tail <= wr /\ tail \in Nat /\ at \in Nat /\ e.len \in Nat
        BY <4>1, <4>2 DEF InRing, FrameTail
      <4>4. /\ ring[at] = tail /\ ring[at + 1] = e.len
            /\ \A k \in 1 .. e.len : ring[at + 1 + k] = e.frame
        BY <4>2 DEF InRing, FrameTail
      <4>5. kept'[j] = e
        BY <2>6
      <4>6. FrameTail(e) = tail
        BY DEF FrameTail
      <4> HIDE DEF e, at, tail
      <4>7. ASSUME NEW a \in Nat, a < tail PROVE ring'[a] = ring[a]
        <5>1. a \in 0 .. wr - 1
          BY <2>3, <4>3, <4>7
        <5> QED
          BY <2>2, <5>1
      <4>8. at < tail /\ at + 1 \in Nat /\ at + 1 < tail
        BY <4>3 DEF tail
      <4>9. ring'[at] = tail /\ ring'[at + 1] = e.len
        BY <4>3, <4>4, <4>7, <4>8
      <4>10. ASSUME NEW k \in 1 .. e.len PROVE ring'[at + 1 + k] = e.frame
        <5>1. at + 1 + k \in Nat /\ at + 1 + k < tail
          BY <4>3 DEF tail
        <5> QED
          BY <4>4, <4>7, <5>1
      <4>11. tail <= chip'.wr
        BY <2>3, <2>5, <4>3
      <4>12. InRing(ring', chip'.wr, e)
        BY <4>6, <4>9, <4>10, <4>11 DEF InRing, at
      <4> QED
        BY <4>5, <4>12 DEF e
    <3>4. ASSUME NEW j \in 1 .. Len(kept')
          PROVE  /\ InRing(ring', chip'.wr, kept'[j])
                 /\ FrameTail(kept'[j]) = IF j = Len(kept') THEN chip'.wr ELSE kept'[j + 1].at
      <4>1. CASE j = Len(kept) + 1
        BY <2>5, <2>6, <3>1, <3>2, <4>1
      <4>2. CASE j # Len(kept) + 1
        <5>1. j \in 1 .. Len(kept) /\ j # Len(kept')
          BY <2>6, <4>2
        <5>2. FrameTail(kept[j]) = IF j = Len(kept) THEN wr ELSE kept[j + 1].at
          BY <5>1 DEF KeptInRing, wr
        <5>3. j # Len(kept) => j + 1 \in 1 .. Len(kept)
          BY <2>6, <5>1
        <5>4. kept'[j + 1].at = IF j = Len(kept) THEN wr ELSE kept[j + 1].at
          BY <2>4, <2>6, <5>1, <5>3
        <5> QED
          BY <3>3, <5>1, <5>2, <5>4
      <4> QED
        BY <4>1, <4>2
    <3> QED
      BY <3>4 DEF KeptInRing, FrameTail
  <2>10. ReadsOldest'
    <3>1. /\ chip'.count = Len(kept') /\ recv.pc \in {"out", "data", "free"}
          /\ Len(kept') # 0 /\ Len(kept') > 0
      BY <2>5, <2>6 DEF ReadsOldest
    <3>2. CASE Len(kept) = 0
      <4>1. recv.pc = "out" /\ nextPkt = wr /\ kept'[1] = new
        BY <2>6, <3>2 DEF ReadsOldest, wr
      <4> QED
        BY <1>2, <2>4, <3>1, <4>1 DEF ReadsOldest
    <3>3. CASE Len(kept) # 0
      <4>1. kept'[1] = kept[1]
        BY <2>6, <3>3
      <4> QED
        BY <1>2, <3>1, <3>3, <4>1 DEF ReadsOldest, FrameTail
    <3> QED
      BY <3>2, <3>3
  <2> QED
    BY <2>8, <2>9, <2>10
<1> QED
  BY <1>3, <1>4

\* The thread begins to read the oldest frame.
LEMMA RecvHeaderKeeps ==
  ASSUME EncInductive, RecvHeader
  PROVE  EncInductive'
<1> USE DEF EncInductive
<1>1. /\ recv.pc = "out" /\ chip.count > 0
      /\ recv' = [pc |-> "data", at |-> nextPkt] /\ nextPkt' = ring[nextPkt]
      /\ ring' = ring /\ chip' = chip /\ arrived' = arrived /\ kept' = kept /\ stack' = stack
  BY DEF RecvHeader
<1>2. recv'.pc = "data" /\ recv'.at = nextPkt /\ DOMAIN recv' = {"pc", "at"}
  BY <1>1
<1>3. EncShape'
  BY <1>1, <1>2 DEF EncShape
<1>4. KeptInRing'
  BY <1>1 DEF KeptInRing, InRing, FrameTail
<1>5. Len(kept) \in Nat /\ Len(kept) > 0 /\ nextPkt = kept[1].at
  BY <1>1 DEF ReadsOldest, EncShape
<1>6. ring[nextPkt] = FrameTail(kept[1])
  BY <1>5 DEF KeptInRing, InRing
<1>7. ReadsOldest'
  BY <1>1, <1>2, <1>5, <1>6 DEF ReadsOldest, FrameTail
<1> QED
  BY <1>3, <1>4, <1>7

\* The thread gives that frame to the stack, as it came.
LEMMA RecvDataKeeps ==
  ASSUME EncInductive, RecvData
  PROVE  EncInductive'
<1> USE DEF EncInductive
<1> DEFINE e == kept[1]
           len == ring[Place(recv.at, 1)]
           data == [k \in 1 .. len |-> ring[Place(recv.at, k + 1)]]
<1>1. /\ recv.pc = "data" /\ recv' = [recv EXCEPT !.pc = "free"]
      /\ stack' = Append(stack, [data |-> data, was |-> e])
      /\ ring' = ring /\ chip' = chip /\ nextPkt' = nextPkt
      /\ arrived' = arrived /\ kept' = kept
  BY DEF RecvData
<1>2. Len(kept) \in Nat /\ Len(kept) > 0 /\ recv.at = e.at /\ nextPkt = FrameTail(e)
  BY <1>1 DEF ReadsOldest, EncShape
<1>3. e \in KeptFrames /\ e.at \in Nat /\ e.len \in Nat
  <2>1. e \in KeptFrames
    BY <1>2 DEF EncShape
  <2> QED
    BY <2>1 DEF KeptFrames
<1>4. InRing(ring, chip.wr, e)
  BY <1>2 DEF KeptInRing
<1>5. RxSize \in Nat /\ chip.wr \in 0 .. RxSize - 1 /\ e.at + e.len + 2 <= chip.wr
  BY <1>4, EncAssumption DEF EncShape, InRing, FrameTail
<1>6. \A k \in 1 .. e.len + 1 : Place(recv.at, k) = e.at + k
  <2> TAKE k \in 1 .. e.len + 1
  <2> DEFINE x == e.at + k
  <2>1. x \in Nat /\ x < RxSize /\ x < 2 * RxSize
    BY <1>3, <1>5
  <2>2. Place(recv.at, k) = x % RxSize
    BY <1>2 DEF Place
  <2> HIDE DEF x
  <2>3. Place(recv.at, k) = x
    BY <2>1, <2>2, PlaceFacts
  <2> QED
    BY <2>3 DEF x
<1>7. len = e.len
  <2>1. 1 \in 1 .. e.len + 1
    BY <1>3
  <2>2. Place(recv.at, 1) = e.at + 1
    BY <1>6, <2>1
  <2> QED
    BY <1>4, <2>2 DEF InRing
<1>8. \A k \in 1 .. e.len : ring[Place(recv.at, k + 1)] = e.frame
  <2> TAKE k \in 1 .. e.len
  <2>1. k + 1 \in 1 .. e.len + 1 /\ e.at + (k + 1) = e.at + 1 + k
    BY <1>3
  <2>2. Place(recv.at, k + 1) = e.at + 1 + k
    BY <1>6, <2>1
  <2> QED
    BY <1>4, <2>2 DEF InRing
<1> HIDE DEF len, e
<1>9. data = [k \in 1 .. e.len |-> e.frame]
  BY <1>7, <1>8
<1> HIDE DEF data
<1>10. stack' \in Seq(WholeFrames)
  <2>1. [data |-> data, was |-> e] \in WholeFrames
    BY <1>3, <1>9 DEF WholeFrames
  <2> QED
    BY <1>1, <2>1 DEF EncShape
<1>11. recv'.pc = "free" /\ recv'.at = recv.at /\ DOMAIN recv' = {"pc", "at"}
  BY <1>1 DEF EncShape
<1>12. EncShape'
  BY <1>1, <1>10, <1>11 DEF EncShape
<1>13. KeptInRing'
  BY <1>1 DEF KeptInRing, InRing, FrameTail
<1>14. ReadsOldest'
  BY <1>1, <1>2, <1>11 DEF ReadsOldest, FrameTail, e
<1> QED
  BY <1>12, <1>13, <1>14

\* The thread frees it: the next frame is the oldest.
LEMMA RecvFreeKeeps ==
  ASSUME EncInductive, RecvFree
  PROVE  EncInductive'
<1> USE DEF EncInductive
<1>1. /\ recv.pc = "free" /\ recv' = [recv EXCEPT !.pc = "out"] /\ kept' = Tail(kept)
      /\ chip' = [WriteLow(WriteLow(chip, Lo(nextPkt)), Hi(nextPkt)) EXCEPT !.count = @ - 1]
      /\ ring' = ring /\ nextPkt' = nextPkt /\ arrived' = arrived /\ stack' = stack
  BY DEF RecvFree
<1>2. /\ Len(kept) \in Nat /\ Len(kept) > 0 /\ nextPkt = FrameTail(kept[1])
      /\ chip.count = Len(kept) /\ kept \in Seq(KeptFrames) /\ kept # <<>>
  BY <1>1 DEF ReadsOldest, EncShape
<1>3. /\ kept' \in Seq(KeptFrames) /\ Len(kept') = Len(kept) - 1
      /\ \A j \in 1 .. Len(kept') : kept'[j] = kept[j + 1]
  BY <1>1, <1>2, HeadTailProperties
<1>4. /\ DOMAIN chip' = DOMAIN chip /\ chip'.wr = chip.wr /\ chip'.rdpt = chip.rdpt
      /\ chip'.count = chip.count - 1 /\ chip'.error = chip.error
  BY <1>1 DEF EncShape, WriteLow
<1>5. recv'.pc = "out" /\ DOMAIN recv' = {"pc", "at"}
  BY <1>1 DEF EncShape
<1>6. EncShape'
  <2>1. chip.count - 1 \in Nat
    BY <1>2
  <2> QED
    BY <1>1, <1>3, <1>4, <1>5, <2>1 DEF EncShape
<1>7. KeptInRing'
  <2>1. ASSUME NEW j \in 1 .. Len(kept')
        PROVE  /\ InRing(ring', chip'.wr, kept'[j])
               /\ FrameTail(kept'[j]) = IF j = Len(kept') THEN chip'.wr ELSE kept'[j + 1].at
    <3>1. j + 1 \in 1 .. Len(kept) /\ (j + 1 = Len(kept) <=> j = Len(kept'))
      BY <1>2, <1>3
    <3>2. /\ InRing(ring, chip.wr, kept[j + 1])
          /\ FrameTail(kept[j + 1]) = IF j + 1 = Len(kept) THEN chip.wr ELSE kept[j + 1 + 1].at
      BY <3>1 DEF KeptInRing
    <3>3. j # Len(kept') => kept'[j + 1] = kept[j + 1 + 1]
      BY <1>2, <1>3
    <3> QED
      BY <1>1, <1>3, <1>4, <3>1, <3>2, <3>3
  <2> QED
    BY <2>1 DEF KeptInRing, FrameTail
<1>8. ReadsOldest'
  <2>1. FrameTail(kept[1]) = IF 1 = Len(kept) THEN chip.wr ELSE kept[2].at
    <3>1. 1 \in 1 .. Len(kept) /\ 1 + 1 = 2
      BY <1>2
    <3>2. FrameTail(kept[1]) = IF 1 = Len(kept) THEN chip.wr ELSE kept[1 + 1].at
      BY <3>1 DEF KeptInRing
    <3> QED
      BY <3>1, <3>2
  <2>2. nextPkt' = IF Len(kept') = 0 THEN chip'.wr ELSE kept'[1].at
    BY <1>1, <1>2, <1>3, <1>4, <2>1
  <2> QED
    BY <1>2, <1>3, <1>4, <1>5, <2>2 DEF ReadsOldest
<1> QED
  BY <1>6, <1>7, <1>8

LEMMA EncInductiveNext ==
  ASSUME EncInductive, [EncNext]_encvars
  PROVE  EncInductive'
<1>1. CASE FrameIn
  BY <1>1, FrameInKeeps
<1>2. CASE RecvReset
  <2> USE DEF EncInductive
  <2>1. /\ recv.pc = "out" /\ chip' = ChipInit /\ kept' = <<>> /\ nextPkt' = 0
        /\ ring' = ring /\ recv' = recv /\ arrived' = arrived /\ stack' = stack
    BY <1>2 DEF RecvReset, Reset
  <2>2. /\ chip'.wr = 0 /\ chip'.rdpt = 0 /\ chip'.count = 0 /\ chip'.error = FALSE
        /\ DOMAIN chip' = {"wr", "rdpt", "rdlo", "count", "error", "needs"}
    BY <2>1 DEF ChipInit
  <2>3. kept' = <<>> /\ Len(kept') = 0 /\ kept' \in Seq(KeptFrames)
    BY <2>1
  <2>4. EncShape'
    <3>1. 0 \in 0 .. RxSize - 1 /\ 0 \in Nat
      BY EncAssumption
    <3> QED
      BY <2>1, <2>2, <2>3, <3>1 DEF EncShape
  <2>5. KeptInRing' /\ ReadsOldest'
    BY <2>1, <2>2, <2>3 DEF KeptInRing, ReadsOldest
  <2> QED
    BY <2>4, <2>5
<1>3. CASE RecvHeader
  BY <1>3, RecvHeaderKeeps
<1>4. CASE RecvData
  BY <1>4, RecvDataKeeps
<1>5. CASE RecvFree
  BY <1>5, RecvFreeKeeps
<1>6. CASE UNCHANGED encvars
  <2>1. /\ ring' = ring /\ chip' = chip /\ nextPkt' = nextPkt /\ recv' = recv
        /\ arrived' = arrived /\ kept' = kept /\ stack' = stack
    BY <1>6 DEF encvars
  <2> QED
    BY <2>1 DEF EncInductive, EncShape, KeptInRing, ReadsOldest, InRing, FrameTail
<1> QED
  BY <1>1, <1>2, <1>3, <1>4, <1>5, <1>6 DEF EncNext

\* Each frame that is given to the stack is the oldest one in the ring, whole
\* (enc28j60_Frame_Recv, enc28j60_Init).
THEOREM EncIntactAlways == EncSpec => []EncIntact
<1>1. EncInductive => EncIntact
  <2> SUFFICES ASSUME EncInductive, NEW i \in DOMAIN stack
               PROVE  stack[i].data = [k \in 1 .. stack[i].was.len |-> stack[i].was.frame]
    BY DEF EncIntact
  <2>1. stack[i] \in WholeFrames
    BY DEF EncInductive, EncShape
  <2>2. PICK e \in KeptFrames : stack[i] = [data |-> [k \in 1 .. e.len |-> e.frame], was |-> e]
    BY <2>1 DEF WholeFrames
  <2> QED
    BY <2>2
<1> QED
  BY <1>1, EncInductiveInit, EncInductiveNext, PTL DEF EncSpec

-----------------------------------------------------------------------------
(* Hdlc: an FCS is over one body only, so that what has a good FCS is the  *)
(* body of a frame, and as each frame has one second octet of an FCS, these *)
(* tell which frame: they leave the line in the order of the frames.       *)

Bodies == {header \o data : header \in FrameHeaders, data \in FrameDatas}
PeerFrames == [header : FrameHeaders, data : FrameDatas]
Body(frame) == frame.header \o frame.data

\* Octets on the line and in the buffer
OctetValues == {"flag", "escape", "ethernet", "allstations", "ui", "none", "fcs1", "fcs2"}
                 \cup {o.v : o \in FrameOctets}
LineOctets == [v : OctetValues, of : Bodies \cup {<<>>}, x : BOOLEAN]
Marks(o) == o.v = "fcs2"
Unmarked == {o \in LineOctets : ~Marks(o)}

HdlcShape ==
  /\ serial \in Seq(LineOctets)
  /\ DOMAIN peer = {"frames", "lost"} /\ peer.frames \in Seq(PeerFrames)
  /\ DOMAIN inCtx = {"buf", "ptr", "mode"}
  /\ inCtx.buf \in [1 .. MaxIn -> LineOctets] /\ inCtx.ptr \in 0 .. MaxIn
  /\ DOMAIN packetIn = {"begin", "len"} /\ packetIn.begin \in Nat /\ packetIn.len \in Nat
  /\ polled \in Seq(FrameDatas)

\* The frame is for Ethernet, and this is its packet.
OfFrame(frame, data) == frame.data = data /\ frame.header[Len(frame.header)] = PPP_ETHERNET

\* The packets that were polled are of frames up to the p-th, in their order.
PolledUpTo(frames, s, p) ==
  \E f \in [DOMAIN s -> 1 .. p] :
    \A i \in DOMAIN s : OfFrame(frames[f[i]], s[i]) /\ (i > 1 => f[i - 1] < f[i])

\* The packet that waits is of a frame after the p-th and up to the k-th.
WaitingUpTo(frames, ctx, waiting, p, k) ==
  waiting.len > 0 =>
    /\ ctx.ptr = 0
    /\ \E j \in p + 1 .. k :
         OfFrame(frames[j], SubSeq(ctx.buf, waiting.begin + 1, waiting.begin + waiting.len))

\* What is in the buffer is of frames after the k-th and up to the m-th.
BufferUpTo(frames, ctx, k, m) ==
  \A i \in 1 .. ctx.ptr :
    Marks(ctx.buf[i]) => \E j \in k + 1 .. m : ctx.buf[i].of = Body(frames[j])

\* What is on the line is of the frames after the m-th, in their order.
LineAfter(frames, s, m) ==
  \E l \in [DOMAIN s -> m + 1 .. Len(frames) + 1] :
    \A i \in DOMAIN s :
      Marks(s[i]) =>
        /\ l[i] <= Len(frames) /\ s[i].of = Body(frames[l[i]])
        /\ \A j \in DOMAIN s : i < j /\ Marks(s[j]) => l[i] < l[j]

HdlcOrder ==
  \E p, k, m \in 0 .. Len(peer.frames) :
    /\ p <= k /\ k <= m
    /\ PolledUpTo(peer.frames, polled, p)
    /\ WaitingUpTo(peer.frames, inCtx, packetIn, p, k)
    /\ BufferUpTo(peer.frames, inCtx, k, m) /\ LineAfter(peer.frames, serial, m)

HdlcInductive == HdlcShape /\ HdlcOrder

LEMMA LineFacts ==
  /\ \A o \in LineOctets : Trans(o) \in LineOctets /\ Trans(o).v = o.v /\ Trans(o).of = o.of
  /\ \A c \in Bodies : /\ Fcs(1, c) \in Unmarked
                       /\ Fcs(2, c) \in LineOctets /\ Marks(Fcs(2, c)) /\ Fcs(2, c).of = c
  /\ FrameOctets \cup {PPP_FLAG, PPP_ESCAPE, PPP_ALLSTATIONS, PPP_UI, NoOctet} \subseteq Unmarked
<1>1. \A o \in LineOctets : Trans(o) \in LineOctets /\ Trans(o).v = o.v /\ Trans(o).of = o.of
  BY DEF LineOctets, Trans
<1>2. ASSUME NEW c \in Bodies
      PROVE  /\ Fcs(1, c) \in Unmarked
             /\ Fcs(2, c) \in LineOctets /\ Marks(Fcs(2, c)) /\ Fcs(2, c).of = c
  BY DEF Fcs, LineOctets, OctetValues, Unmarked, Marks
<1>3. ASSUME NEW o \in FrameOctets
      PROVE  o \in Unmarked
  <2>1. o = Octet(o.v) /\ o.v \in OctetValues /\ o.v # "fcs2"
    BY HdlcAssumption DEF OctetValues
  <2> DEFINE value == o.v
  <2> HIDE DEF value
  <2>2. Octet(value) \in LineOctets /\ Octet(value).v = value
    BY <2>1 DEF Octet, LineOctets, value
  <2> QED
    BY <2>1, <2>2 DEF Unmarked, Marks, value
<1>4. {PPP_FLAG, PPP_ESCAPE, PPP_ALLSTATIONS, PPP_UI, NoOctet} \subseteq Unmarked
  BY DEF Unmarked, Marks, LineOctets, OctetValues, PPP_FLAG, PPP_ESCAPE, PPP_ALLSTATIONS,
         PPP_UI, NoOctet, Octet
<1> QED
  BY <1>1, <1>2, <1>3, <1>4

LEMMA EscapedFacts ==
  ASSUME NEW o \in Unmarked, NEW odd \in BOOLEAN
  PROVE  /\ Escaped(o, odd) \in Seq(Unmarked) /\ Len(Escaped(o, odd)) \in {1, 2}
<1>1. Trans(o) \in Unmarked /\ PPP_ESCAPE \in Unmarked
  BY LineFacts DEF Unmarked, Marks
<1> QED
  BY <1>1 DEF Escaped

LEMMA EscapedAllFacts ==
  ASSUME NEW data \in FrameDatas
  PROVE  EscapedAll(data) \in Seq(Unmarked)
<1> DEFINE at(k) == Escaped(data[(k + 1) \div 2], FALSE)
           twice == [k \in 1 .. 2 * Len(data) |->
                       IF k % 2 = 0 THEN at(k)[Len(at(k))]
                       ELSE IF Len(at(k)) = 2 THEN PPP_ESCAPE ELSE NoOctet]
<1>1. data \in Seq(FrameOctets) /\ Len(data) \in Nat
  BY HdlcAssumption
<1>2. ASSUME NEW k \in 1 .. 2 * Len(data)
      PROVE  twice[k] \in Unmarked
  <2> DEFINE e == at(k)
  <2>1. (k + 1) \div 2 \in 1 .. Len(data)
    BY <1>1
  <2>2. data[(k + 1) \div 2] \in Unmarked
    BY <1>1, <2>1, LineFacts
  <2>3. e \in Seq(Unmarked) /\ Len(e) \in {1, 2}
    BY <2>2, EscapedFacts
  <2>4. twice[k] = IF k % 2 = 0 THEN e[Len(e)] ELSE IF Len(e) = 2 THEN PPP_ESCAPE ELSE NoOctet
    OBVIOUS
  <2> HIDE DEF e, twice
  <2>5. e[Len(e)] \in Unmarked
    BY <2>3
  <2> QED
    BY <2>4, <2>5, LineFacts
<1>3. twice \in Seq(Unmarked)
  <2>1. twice = [k \in 1 .. 2 * Len(data) |-> twice[k]] /\ 2 * Len(data) \in Nat
    BY <1>1
  <2> HIDE DEF twice
  <2> QED
    BY <1>2, <2>1
<1>4. EscapedAll(data) = Without(twice, {NoOctet})
  BY DEF EscapedAll
<1> HIDE DEF twice
<1> QED
  BY <1>3, <1>4, WithoutFacts

\* Only the octet before the last flag of a frame marks it.
LEMMA FramedFacts ==
  ASSUME NEW header \in FrameHeaders, NEW data \in FrameDatas,
         NEW odd1 \in BOOLEAN, NEW odd2 \in BOOLEAN
  PROVE  LET s == Framed(header, data, odd1, odd2)
         IN /\ s \in Seq(LineOctets)
            /\ \A i \in DOMAIN s :
                 Marks(s[i]) => i = Len(s) - 1 /\ s[i].of = header \o data
<1> DEFINE c == header \o data
           flag == <<PPP_FLAG>>
           one == Escaped(Fcs(1, c), odd1)
           two == Escaped(Fcs(2, c), odd2)
           before == flag \o header \o EscapedAll(data) \o one
           s == Framed(header, data, odd1, odd2)
<1>1. c \in Bodies
  BY DEF Bodies
<1>2. flag \in Seq(Unmarked) /\ flag \in Seq(LineOctets) /\ Len(flag) = 1 /\ ~Marks(flag[1])
  <2>1. PPP_FLAG \in Unmarked /\ PPP_FLAG \in LineOctets
    BY LineFacts DEF Unmarked
  <2> QED
    BY <2>1 DEF Unmarked
<1>3. header \in Seq(Unmarked)
  <2>1. header \in Seq(FrameOctets)
    BY HdlcAssumption
  <2> QED
    BY <2>1, LineFacts
<1>4. one \in Seq(Unmarked)
  BY <1>1, LineFacts, EscapedFacts
<1>5. before \in Seq(Unmarked)
  <2> DEFINE a == flag \o header
             b == EscapedAll(data)
  <2>1. a \in Seq(Unmarked)
    BY <1>2, <1>3, ConcatProperties
  <2>2. b \in Seq(Unmarked)
    BY EscapedAllFacts
  <2>3. before = (a \o b) \o one
    OBVIOUS
  <2> HIDE DEF a, b, one, before
  <2> QED
    BY <1>4, <2>1, <2>2, <2>3, ConcatProperties
<1>6. /\ two \in Seq(LineOctets) /\ Len(two) > 0
      /\ two[Len(two)].of = c /\ \A i \in 1 .. Len(two) : Marks(two[i]) => i = Len(two)
  <2> DEFINE o == Fcs(2, c)
  <2>1. o \in LineOctets /\ Trans(o) \in LineOctets /\ o.of = c /\ Trans(o).of = c
    BY <1>1, LineFacts
  <2>2. PPP_ESCAPE \in LineOctets /\ ~Marks(PPP_ESCAPE)
    BY LineFacts DEF Unmarked
  <2>3. two = <<PPP_ESCAPE, Trans(o)>> \/ two = <<o>>
    BY DEF Escaped
  <2> HIDE DEF o, two
  <2>4. CASE two = <<PPP_ESCAPE, Trans(o)>>
    <3>1. two[1] = PPP_ESCAPE /\ two[2] = Trans(o) /\ Len(two) = 2 /\ two \in Seq(LineOctets)
      BY <2>1, <2>2, <2>4
    <3> QED
      BY <2>1, <2>2, <3>1
  <2>5. CASE two = <<o>>
    BY <2>1, <2>5
  <2> QED
    BY <2>3, <2>4, <2>5
<1>7. s = (before \o two) \o flag
  BY DEF Framed
<1> HIDE DEF before, two, flag, s, c
<1>8. before \in Seq(LineOctets) /\ \A i \in 1 .. Len(before) : ~Marks(before[i])
  BY <1>5 DEF Unmarked
<1> DEFINE most == before \o two
<1>9. /\ most \in Seq(LineOctets) /\ Len(most) = Len(before) + Len(two)
      /\ \A i \in 1 .. Len(before) : most[i] = before[i]
      /\ \A i \in Len(before) + 1 .. Len(most) : most[i] = two[i - Len(before)]
  BY <1>6, <1>8, ConcatProperties
<1>10. \A i \in 1 .. Len(most) : Marks(most[i]) => i = Len(most) /\ most[i].of = c
  BY <1>6, <1>8, <1>9
<1>11. s = most \o flag
  BY <1>7
<1> HIDE DEF most
<1>12. /\ s \in Seq(LineOctets) /\ Len(s) = Len(most) + 1
       /\ \A i \in 1 .. Len(most) : s[i] = most[i]
       /\ s[Len(s)] = flag[1]
  <2>1. most \in Seq(LineOctets) /\ Len(most) \in Nat
    BY <1>9
  <2>2. /\ s \in Seq(LineOctets) /\ Len(s) = Len(most) + 1
        /\ \A i \in 1 .. Len(most) : s[i] = most[i]
        /\ \A i \in Len(most) + 1 .. Len(most) + 1 : s[i] = flag[i - Len(most)]
    <3> DEFINE n == Len(most)
               joined == most \o flag
    <3>1. /\ joined \in Seq(LineOctets) /\ Len(joined) = n + Len(flag)
          /\ \A i \in 1 .. n + Len(flag) :
               joined[i] = IF i <= n THEN most[i] ELSE flag[i - n]
      BY <1>2, <2>1, ConcatProperties
    <3>2. s = joined /\ n \in Nat /\ Len(flag) = 1
      BY <1>2, <1>11, <2>1
    <3> HIDE DEF n, joined
    <3>3. /\ s \in Seq(LineOctets) /\ Len(s) = n + 1
          /\ \A i \in 1 .. n : s[i] = most[i]
          /\ \A i \in n + 1 .. n + 1 : s[i] = flag[i - n]
      BY <3>1, <3>2
    <3> QED
      BY <3>3 DEF n
  <2>3. Len(s) \in Len(most) + 1 .. Len(most) + 1 /\ Len(s) - Len(most) = 1
    BY <2>1, <2>2
  <2> QED
    BY <2>2, <2>3
<1>13. \A i \in DOMAIN s : Marks(s[i]) => i = Len(s) - 1 /\ s[i].of = c
  BY <1>2, <1>9, <1>10, <1>12
<1> QED
  BY <1>12, <1>13 DEF s, c

\* A frame that ends with a good FCS is one of the frames that the FCS tells.
LEMMA GatheredFacts ==
  ASSUME HdlcShape, NEW frame \in PeerFrames, GoodFcs(Gathered),
         inCtx.buf[inCtx.ptr].of = Body(frame),
         NEW hlen, hlen = HeaderLen(Gathered), NEW len, len = Len(Gathered) - 2,
         len >= hlen, Gathered[hlen] = PPP_ETHERNET
  PROVE  /\ inCtx.ptr >= 2 /\ hlen \in Nat /\ len \in Nat
         /\ OfFrame(frame, SubSeq(inCtx.buf, hlen + 1, hlen + (len - hlen)))
<1> DEFINE buf == inCtx.buf
           ptr == inCtx.ptr
           s == Gathered
           header == frame.header
           data == frame.data
           body == SubSeq(s, 1, len)
<1>1. ptr \in Nat /\ ptr <= MaxIn /\ MaxIn \in Nat /\ buf \in Seq(LineOctets) /\ Len(buf) = MaxIn
  BY HdlcAssumption DEF HdlcShape
<1>2. /\ s \in Seq(LineOctets) /\ Len(s) = ptr /\ \A i \in 1 .. ptr : s[i] = buf[i]
  <2>1. s = SubSeq(buf, 1, ptr)
    BY DEF Gathered
  <2> HIDE DEF s, buf, ptr
  <2>2. 1 \in 1 .. Len(buf) + 1 /\ ptr \in 0 .. Len(buf)
    BY <1>1
  <2>3. /\ s \in Seq(LineOctets) /\ Len(s) = (IF 1 <= ptr THEN ptr - 1 + 1 ELSE 0)
        /\ \A i \in 1 .. ptr - 1 + 1 : s[i] = buf[1 + i - 1]
    BY <1>1, <2>1, <2>2, SubSeqProperties
  <2> QED
    BY <1>1, <2>3
<1>3. ptr >= 2 /\ len = ptr - 2 /\ len \in Nat
  BY <1>1, <1>2 DEF GoodFcs
<1>4. s[ptr] = Fcs(2, body)
  BY <1>2, <1>3 DEF GoodFcs
<1>5. body = header \o data
  <2>1. s[ptr].of = body
    BY <1>4 DEF Fcs
  <2>2. buf[ptr].of = header \o data
    BY DEF Body
  <2> HIDE DEF s, ptr, buf, body
  <2>3. s[ptr] = buf[ptr]
    BY <1>2, <1>3
  <2> QED
    BY <2>1, <2>2, <2>3
<1> HIDE DEF s, ptr, buf
<1>6. Len(body) = len /\ \A i \in 1 .. len : body[i] = s[i]
  <2>1. body \in Seq(LineOctets) /\ Len(body) = IF 1 <= len THEN len - 1 + 1 ELSE 0
    BY <1>2, <1>3, SubSeqProperties
  <2>2. \A i \in 1 .. len - 1 + 1 : body[i] = s[1 + i - 1]
    BY <1>2, <1>3, SubSeqProperties
  <2> HIDE DEF body
  <2>3. ASSUME NEW i \in 1 .. len PROVE body[i] = s[i]
    <3>1. i \in 1 .. len - 1 + 1 /\ 1 + i - 1 = i
      BY <1>3
    <3> QED
      BY <2>2, <3>1
  <2> QED
    BY <1>3, <2>1, <2>3
<1> HIDE DEF body
<1>7. header \in FrameHeaders /\ data \in FrameDatas
  BY DEF PeerFrames
<1>8. header \in Seq(FrameOctets) /\ data \in Seq(FrameOctets)
  BY <1>7, HdlcAssumption
<1> HIDE DEF header, data
<1>9. /\ len = Len(header) + Len(data) /\ Len(header) \in Nat /\ Len(data) \in Nat
      /\ \A i \in 1 .. Len(header) : s[i] = header[i]
      /\ \A i \in 1 .. Len(data) : s[Len(header) + i] = data[i]
  <2>1. /\ Len(body) = Len(header) + Len(data)
        /\ \A i \in 1 .. Len(header) : body[i] = header[i]
        /\ \A i \in 1 .. Len(data) : body[Len(header) + i] = data[i]
    BY <1>5, <1>8
  <2>2. Len(header) \in Nat /\ Len(data) \in Nat /\ len = Len(header) + Len(data)
    <3>1. Len(header) \in Nat /\ Len(data) \in Nat
      BY <1>8
    <3> QED
      BY <1>6, <2>1, <3>1
  <2>3. ASSUME NEW i \in 1 .. Len(header) PROVE s[i] = header[i]
    <3>1. i \in 1 .. len
      BY <2>2
    <3> QED
      BY <1>6, <2>1, <3>1
  <2>4. ASSUME NEW i \in 1 .. Len(data) PROVE s[Len(header) + i] = data[i]
    <3>1. Len(header) + i \in 1 .. len
      BY <2>2
    <3> QED
      BY <1>6, <2>1, <3>1
  <2> QED
    BY <2>2, <2>3, <2>4
<1>10. hlen = Len(header) /\ Len(header) > 0
  <2>1. PICK protocol \in FrameOctets \ {PPP_ALLSTATIONS} :
          header \in {<<protocol>>, <<PPP_ALLSTATIONS, PPP_UI, protocol>>}
    BY <1>7, HdlcAssumption
  <2>2. hlen = IF ptr >= 2 /\ s[1] = PPP_ALLSTATIONS /\ s[2] = PPP_UI THEN 3 ELSE 1
    BY <1>2 DEF HeaderLen, s
  <2>3. CASE header = <<protocol>>
    <3>1. Len(header) = 1 /\ header[1] = protocol /\ protocol # PPP_ALLSTATIONS
      BY <2>3
    <3> QED
      BY <1>9, <2>2, <3>1
  <2>4. CASE header = <<PPP_ALLSTATIONS, PPP_UI, protocol>>
    <3>1. Len(header) = 3 /\ header[1] = PPP_ALLSTATIONS /\ header[2] = PPP_UI
      BY <2>4
    <3> QED
      BY <1>3, <1>9, <2>2, <3>1
  <2> QED
    BY <2>1, <2>3, <2>4
<1>11. header[Len(header)] = PPP_ETHERNET
  BY <1>9, <1>10 DEF s
<1>12. SubSeq(buf, hlen + 1, hlen + (len - hlen)) = data
  <2> DEFINE t == SubSeq(buf, hlen + 1, len)
  <2>1. hlen + (len - hlen) = len /\ hlen \in Nat /\ hlen + 1 \in 1 .. Len(buf) + 1
        /\ len \in hlen .. Len(buf)
    BY <1>1, <1>3, <1>9, <1>10 DEF ptr, buf
  <2>2. /\ t \in Seq(LineOctets) /\ Len(t) = (IF hlen + 1 <= len THEN len - (hlen + 1) + 1 ELSE 0)
        /\ \A i \in 1 .. len - (hlen + 1) + 1 : t[i] = buf[hlen + 1 + i - 1]
    <3>1. hlen + 1 \in Int /\ len \in Int
      BY <2>1
    <3>2. \A i \in hlen + 1 .. len : buf[i] \in LineOctets
      BY <1>1, <2>1 DEF buf
    <3> HIDE DEF t
    <3>3. t = SubSeq(buf, hlen + 1, len)
      BY DEF t
    <3> QED
      BY <3>1, <3>2, <3>3, SubSeqProperties
  <2> HIDE DEF t
  <2>3. Len(t) = Len(data)
    BY <1>3, <1>9, <1>10, <2>1, <2>2
  <2>4. ASSUME NEW i \in 1 .. Len(data) PROVE t[i] = data[i]
    <3>0. i \in Nat /\ i >= 1 /\ i <= Len(data) /\ len = hlen + Len(data) /\ hlen = Len(header)
      BY <1>9, <1>10
    <3>1. /\ i \in 1 .. len - (hlen + 1) + 1 /\ hlen + 1 + i - 1 = Len(header) + i
          /\ Len(header) + i \in 1 .. ptr
      <4>1. hlen \in Nat /\ Len(data) \in Nat /\ ptr \in Nat /\ len = ptr - 2
        BY <1>3, <1>9, <2>1, <1>1 DEF ptr
      <4> DEFINE n == Len(data)
      <4> HIDE DEF n
      <4>2. i <= n /\ len = hlen + n /\ n \in Nat
        BY <3>0, <4>1 DEF n
      <4> QED
        BY <3>0, <4>1, <4>2
    <3>2. t[i] = buf[Len(header) + i]
      BY <2>2, <3>1
    <3>3. s[Len(header) + i] = buf[Len(header) + i]
      BY <1>2, <3>1 DEF s, buf, ptr
    <3> QED
      BY <1>9, <3>2, <3>3
  <2>5. t = data
    BY <1>8, <2>2, <2>3, <2>4
  <2> QED
    BY <2>1, <2>5 DEF t
<1> QED
  BY <1>1, <1>3, <1>9, <1>10, <1>11, <1>12 DEF OfFrame, header, data, buf, ptr

\* More frames do not change what is said of those before.
LEMMA FramesGrow ==
  ASSUME NEW frames \in Seq(PeerFrames), NEW new, NEW more, more = Append(frames, new),
         NEW p \in 0 .. Len(frames), NEW k \in 0 .. Len(frames), NEW m \in 0 .. Len(frames),
         NEW s, NEW ctx, NEW waiting
  PROVE  /\ Len(more) = Len(frames) + 1 /\ more[Len(more)] = new
         /\ \A j \in 1 .. Len(frames) : more[j] = frames[j]
         /\ PolledUpTo(frames, s, p) => PolledUpTo(more, s, p)
         /\ WaitingUpTo(frames, ctx, waiting, p, k) => WaitingUpTo(more, ctx, waiting, p, k)
         /\ BufferUpTo(frames, ctx, k, m) => BufferUpTo(more, ctx, k, m)
<1>1. /\ Len(more) = Len(frames) + 1 /\ more[Len(more)] = new /\ Len(frames) \in Nat
      /\ \A j \in 1 .. Len(frames) : more[j] = frames[j]
  OBVIOUS
<1>2. PolledUpTo(frames, s, p) => PolledUpTo(more, s, p)
  <2> SUFFICES ASSUME PolledUpTo(frames, s, p) PROVE PolledUpTo(more, s, p)
    OBVIOUS
  <2>1. PICK f \in [DOMAIN s -> 1 .. p] :
          \A i \in DOMAIN s : OfFrame(frames[f[i]], s[i]) /\ (i > 1 => f[i - 1] < f[i])
    BY DEF PolledUpTo
  <2>2. ASSUME NEW i \in DOMAIN s PROVE more[f[i]] = frames[f[i]]
    <3>1. f[i] \in 1 .. Len(frames)
      BY <1>1, <2>1
    <3> QED
      BY <1>1, <3>1
  <2> QED
    BY <2>1, <2>2 DEF PolledUpTo
<1>3. WaitingUpTo(frames, ctx, waiting, p, k) => WaitingUpTo(more, ctx, waiting, p, k)
  <2>1. \A j \in p + 1 .. k : more[j] = frames[j]
    BY <1>1
  <2> QED
    BY <2>1 DEF WaitingUpTo
<1>4. BufferUpTo(frames, ctx, k, m) => BufferUpTo(more, ctx, k, m)
  <2>1. \A j \in k + 1 .. m : more[j] = frames[j]
    BY <1>1
  <2> QED
    BY <2>1 DEF BufferUpTo
<1> QED
  BY <1>1, <1>2, <1>3, <1>4

\* A frame is put behind what is on the line.
LEMMA LineGrows ==
  ASSUME NEW frames \in Seq(PeerFrames), NEW new \in PeerFrames,
         NEW s \in Seq(LineOctets), NEW m \in 0 .. Len(frames), LineAfter(frames, s, m),
         NEW t \in Seq(LineOctets),
         \A i \in DOMAIN t : Marks(t[i]) => i = Len(t) - 1 /\ t[i].of = Body(new)
  PROVE  LineAfter(Append(frames, new), s \o t, m)
<1> DEFINE more == Append(frames, new)
           N == Len(frames)
           u == s \o t
<1>1. PICK l \in [DOMAIN s -> m + 1 .. N + 1] :
        \A i \in DOMAIN s :
          Marks(s[i]) =>
            /\ l[i] <= N /\ s[i].of = Body(frames[l[i]])
            /\ \A j \in DOMAIN s : i < j /\ Marks(s[j]) => l[i] < l[j]
  BY DEF LineAfter
<1>2. N \in Nat /\ Len(more) = N + 1 /\ more[N + 1] = new /\ \A j \in 1 .. N : more[j] = frames[j]
  OBVIOUS
<1>3. /\ u \in Seq(LineOctets) /\ DOMAIN u = 1 .. Len(s) + Len(t)
      /\ Len(s) \in Nat /\ Len(t) \in Nat /\ DOMAIN s = 1 .. Len(s) /\ DOMAIN t = 1 .. Len(t)
      /\ \A i \in 1 .. Len(s) : u[i] = s[i]
      /\ \A i \in 1 .. Len(t) : u[Len(s) + i] = t[i]
  OBVIOUS
<1> DEFINE n == [i \in DOMAIN u |-> IF i \in DOMAIN s THEN l[i] ELSE N + 1]
<1>4. n \in [DOMAIN u -> m + 1 .. Len(more) + 1]
  <2>1. \A i \in DOMAIN s : l[i] \in m + 1 .. N + 2
    BY <1>1, <1>2
  <2>2. N + 1 \in m + 1 .. N + 2 /\ Len(more) + 1 = N + 2
    BY <1>2
  <2> HIDE DEF u, more, N
  <2> QED
    BY <2>1, <2>2
<1>5. ASSUME NEW i \in DOMAIN u, Marks(u[i])
      PROVE  /\ n[i] <= Len(more) /\ u[i].of = Body(more[n[i]])
             /\ \A j \in DOMAIN u : i < j /\ Marks(u[j]) => n[i] < n[j]
  <2>0. /\ \A j \in DOMAIN u : n[j] = IF j \in DOMAIN s THEN l[j] ELSE N + 1
        /\ \A j \in DOMAIN u : j \in 1 .. Len(s) \/ (j > Len(s) /\ j - Len(s) \in 1 .. Len(t)
                                                   /\ u[j] = t[j - Len(s)])
    <3> HIDE DEF u, more, N
    <3>1. ASSUME NEW j \in DOMAIN u, j \notin 1 .. Len(s)
          PROVE  j > Len(s) /\ j - Len(s) \in 1 .. Len(t) /\ u[j] = t[j - Len(s)]
      <4>1. j \in Nat /\ j > Len(s) /\ j - Len(s) \in 1 .. Len(t) /\ Len(s) + (j - Len(s)) = j
        BY <1>3, <3>1
      <4> QED
        BY <1>3, <4>1
    <3> QED
      BY <3>1
  <2> HIDE DEF n, u, more, N
  <2>1. CASE i \in DOMAIN s
    <3>1. /\ n[i] = l[i] /\ u[i] = s[i] /\ l[i] \in 1 .. N /\ s[i].of = Body(frames[l[i]])
      BY <1>1, <1>2, <1>3, <1>5, <2>0, <2>1
    <3>2. ASSUME NEW j \in DOMAIN u, i < j, Marks(u[j])
          PROVE  n[i] < n[j]
      <4>1. CASE j \in DOMAIN s
        BY <1>1, <1>3, <1>5, <2>0, <2>1, <3>1, <3>2, <4>1
      <4>2. CASE j \notin DOMAIN s
        BY <1>2, <2>0, <3>1, <4>2
      <4> QED
        BY <4>1, <4>2
    <3> QED
      BY <1>2, <3>1, <3>2
  <2>2. CASE i \notin DOMAIN s
    <3>1. /\ n[i] = N + 1 /\ i > Len(s) /\ i - Len(s) \in 1 .. Len(t) /\ u[i] = t[i - Len(s)]
      BY <1>3, <2>0, <2>2
    <3>2. i - Len(s) = Len(t) - 1 /\ u[i].of = Body(new)
      BY <1>3, <1>5, <3>1
    <3>3. ASSUME NEW j \in DOMAIN u, i < j, Marks(u[j])
          PROVE  FALSE
      <4>1. j > Len(s) /\ j - Len(s) \in 1 .. Len(t) /\ u[j] = t[j - Len(s)]
        BY <1>3, <2>0, <3>1, <3>3
      <4>2. j - Len(s) = Len(t) - 1
        BY <1>3, <3>3, <4>1
      <4> QED
        BY <1>3, <3>2, <3>3, <4>1, <4>2
    <3> QED
      BY <1>2, <3>1, <3>2, <3>3
  <2> QED
    BY <2>1, <2>2
<1> HIDE DEF n
<1>6. LineAfter(more, u, m)
  <2> HIDE DEF u, more, N
  <2> QED
    BY <1>4, <1>5 DEF LineAfter
<1> QED
  BY <1>6

\* An octet leaves the line: if it marks a frame, then all others are of later ones.
LEMMA LineShrinks ==
  ASSUME NEW frames \in Seq(PeerFrames), NEW s \in Seq(LineOctets), s # <<>>,
         NEW m \in 0 .. Len(frames), LineAfter(frames, s, m)
  PROVE  /\ Tail(s) \in Seq(LineOctets) /\ Head(s) \in LineOctets
         /\ \E n \in m .. Len(frames) :
              /\ LineAfter(frames, Tail(s), n)
              /\ Marks(Head(s)) => \E j \in m + 1 .. n : Head(s).of = Body(frames[j])
<1> DEFINE N == Len(frames)
           t == Tail(s)
<1>1. PICK l \in [DOMAIN s -> m + 1 .. N + 1] :
        \A i \in DOMAIN s :
          Marks(s[i]) =>
            /\ l[i] <= N /\ s[i].of = Body(frames[l[i]])
            /\ \A j \in DOMAIN s : i < j /\ Marks(s[j]) => l[i] < l[j]
  BY DEF LineAfter
<1>2. /\ Len(s) \in Nat /\ Len(s) > 0 /\ DOMAIN s = 1 .. Len(s) /\ N \in Nat
      /\ Head(s) = s[1] /\ s[1] \in LineOctets /\ 1 \in DOMAIN s
  OBVIOUS
<1>3. /\ t \in Seq(LineOctets) /\ DOMAIN t = 1 .. Len(s) - 1
      /\ \A i \in DOMAIN t : t[i] = s[i + 1] /\ i + 1 \in DOMAIN s /\ i \in Nat
  <2>1. /\ t \in Seq(LineOctets) /\ Len(t) = Len(s) - 1
        /\ \A i \in 1 .. Len(t) : t[i] = s[i + 1]
    BY HeadTailProperties
  <2> HIDE DEF t
  <2> QED
    BY <1>2, <2>1
<1> DEFINE n == IF Marks(s[1]) THEN l[1] ELSE m
           first(i) == IF Marks(t[i]) THEN l[i + 1] ELSE N + 1
           r == [i \in DOMAIN t |-> first(i)]
<1> HIDE DEF t
<1>4. n \in m .. N /\ (Marks(s[1]) => n \in m + 1 .. n /\ s[1].of = Body(frames[n]))
  BY <1>1, <1>2
<1>5. \A i \in DOMAIN t : Marks(t[i]) => first(i) \in n + 1 .. N
  <2> SUFFICES ASSUME NEW i \in DOMAIN t, Marks(t[i]) PROVE first(i) \in n + 1 .. N
    OBVIOUS
  <2>1. i + 1 \in DOMAIN s /\ Marks(s[i + 1]) /\ 1 < i + 1 /\ first(i) = l[i + 1]
    <3>1. i \in DOMAIN t /\ i \in Nat /\ i >= 1
      BY <1>2, <1>3
    <3> QED
      BY <1>3, <3>1
  <2>2. l[i + 1] \in m + 1 .. N /\ (Marks(s[1]) => l[1] < l[i + 1] /\ l[1] \in m + 1 .. N)
    BY <1>1, <1>2, <2>1
  <2> QED
    BY <1>2, <2>1, <2>2
<1>6. r \in [DOMAIN t -> n + 1 .. N + 1]
  <2>1. \A i \in DOMAIN t : first(i) \in n + 1 .. N + 1
    <3>1. N + 1 \in n + 1 .. N + 1
      BY <1>2, <1>4
    <3> HIDE DEF n
    <3> QED
      BY <1>2, <1>4, <1>5, <3>1
  <2> HIDE DEF n, first
  <2> QED
    BY <2>1
<1>7. ASSUME NEW i \in DOMAIN t, Marks(t[i])
      PROVE  /\ r[i] <= N /\ t[i].of = Body(frames[r[i]])
             /\ \A j \in DOMAIN t : i < j /\ Marks(t[j]) => r[i] < r[j]
  <2>1. i + 1 \in DOMAIN s /\ t[i] = s[i + 1] /\ r[i] = l[i + 1] /\ i \in Nat
    BY <1>3, <1>7
  <2>2. l[i + 1] <= N /\ s[i + 1].of = Body(frames[l[i + 1]])
    BY <1>1, <1>7, <2>1
  <2>3. ASSUME NEW j \in DOMAIN t, i < j, Marks(t[j])
        PROVE  r[i] < r[j]
    <3>1. j + 1 \in DOMAIN s /\ t[j] = s[j + 1] /\ r[j] = l[j + 1] /\ i + 1 < j + 1
      BY <1>3, <2>1, <2>3
    <3> QED
      BY <1>1, <1>7, <2>1, <2>3, <3>1
  <2> QED
    BY <2>1, <2>2, <2>3
<1> HIDE DEF n, r, N
<1>8. LineAfter(frames, t, n)
  BY <1>6, <1>7 DEF LineAfter, N
<1> QED
  BY <1>2, <1>3, <1>4, <1>8 DEF t, N

LEMMA HdlcInductiveInit ==
  HdlcInit => HdlcInductive
<1> SUFFICES ASSUME HdlcInit PROVE HdlcInductive
  OBVIOUS
<1>1. /\ serial = <<>> /\ polled = <<>> /\ packetIn = [begin |-> 0, len |-> 0]
      /\ peer = [frames |-> <<>>, lost |-> 0]
      /\ inCtx = [buf |-> [i \in 1 .. MaxIn |-> PPP_FLAG], ptr |-> 0, mode |-> "hunt"]
  BY DEF HdlcInit
<1>2. HdlcShape
  <2>1. PPP_FLAG \in LineOctets /\ 0 \in 0 .. MaxIn
    BY LineFacts, HdlcAssumption DEF Unmarked
  <2> QED
    BY <1>1, <2>1 DEF HdlcShape
<1>3. peer.frames = <<>> /\ Len(peer.frames) = 0 /\ DOMAIN serial = {} /\ DOMAIN polled = {}
      /\ inCtx.ptr = 0 /\ packetIn.len = 0
  BY <1>1
<1>4. PolledUpTo(peer.frames, polled, 0)
  <2> DEFINE f == [i \in DOMAIN polled |-> 1]
  <2>1. f \in [DOMAIN polled -> 1 .. 0]
    BY <1>3
  <2> QED
    BY <1>3, <2>1 DEF PolledUpTo
<1>5. LineAfter(peer.frames, serial, 0)
  <2> DEFINE l == [i \in DOMAIN serial |-> 1]
  <2>1. l \in [DOMAIN serial -> 0 + 1 .. Len(peer.frames) + 1]
    BY <1>3
  <2> QED
    BY <1>3, <2>1 DEF LineAfter
<1>6. WaitingUpTo(peer.frames, inCtx, packetIn, 0, 0) /\ BufferUpTo(peer.frames, inCtx, 0, 0)
  BY <1>3 DEF WaitingUpTo, BufferUpTo
<1>7. 0 \in 0 .. Len(peer.frames)
  BY <1>3
<1> QED
  BY <1>2, <1>4, <1>5, <1>6, <1>7 DEF HdlcInductive, HdlcOrder

LEMMA PeerSendsKeeps ==
  ASSUME HdlcInductive, PeerSends
  PROVE  HdlcInductive'
<1> DEFINE frames == peer.frames
<1>1. PICK header \in FrameHeaders, data \in FrameDatas, odd1 \in BOOLEAN, odd2 \in BOOLEAN :
        /\ serial' = serial \o Framed(header, data, odd1, odd2)
        /\ peer' = [peer EXCEPT !.frames = Append(@, [header |-> header, data |-> data])]
  BY DEF PeerSends
<1>2. inCtx' = inCtx /\ packetIn' = packetIn /\ polled' = polled
  BY DEF PeerSends
<1> DEFINE new == [header |-> header, data |-> data]
           framed == Framed(header, data, odd1, odd2)
<1>3. /\ frames \in Seq(PeerFrames) /\ new \in PeerFrames /\ Body(new) = header \o data
      /\ frames' = Append(frames, new) /\ DOMAIN peer' = {"frames", "lost"}
      /\ serial \in Seq(LineOctets) /\ serial' = serial \o framed
  BY <1>1 DEF HdlcInductive, HdlcShape, PeerFrames, Body
<1>4. /\ framed \in Seq(LineOctets)
      /\ \A i \in DOMAIN framed :
           Marks(framed[i]) => i = Len(framed) - 1 /\ framed[i].of = Body(new)
  <2>1. LET s == framed
        IN /\ s \in Seq(LineOctets)
           /\ \A i \in DOMAIN s : Marks(s[i]) => i = Len(s) - 1 /\ s[i].of = header \o data
    BY FramedFacts
  <2> HIDE DEF framed, new
  <2> QED
    BY <1>3, <2>1
<1>5. PICK p \in 0 .. Len(frames), k \in 0 .. Len(frames), m \in 0 .. Len(frames) :
        /\ p <= k /\ k <= m
        /\ PolledUpTo(frames, polled, p)
        /\ WaitingUpTo(frames, inCtx, packetIn, p, k)
        /\ BufferUpTo(frames, inCtx, k, m) /\ LineAfter(frames, serial, m)
  BY DEF HdlcInductive, HdlcOrder
<1> DEFINE more == peer'.frames
<1>6. more = Append(frames, new)
  BY <1>3
<1> HIDE DEF new, framed, frames, more
<1>7. /\ Len(more) = Len(frames) + 1 /\ Len(frames) \in Nat /\ more \in Seq(PeerFrames)
      /\ PolledUpTo(more, polled, p) /\ WaitingUpTo(more, inCtx, packetIn, p, k)
      /\ BufferUpTo(more, inCtx, k, m)
  <2>1. Len(frames) \in Nat /\ more \in Seq(PeerFrames)
    BY <1>3, <1>6
  <2>2. /\ Len(more) = Len(frames) + 1
        /\ PolledUpTo(frames, polled, p) => PolledUpTo(more, polled, p)
        /\ WaitingUpTo(frames, inCtx, packetIn, p, k) => WaitingUpTo(more, inCtx, packetIn, p, k)
        /\ BufferUpTo(frames, inCtx, k, m) => BufferUpTo(more, inCtx, k, m)
    BY <1>3, <1>5, <1>6, FramesGrow
  <2> QED
    BY <1>5, <2>1, <2>2
<1>8. LineAfter(more, serial', m) /\ serial' \in Seq(LineOctets)
  <2>1. serial' \in Seq(LineOctets)
    BY <1>3, <1>4, ConcatProperties
  <2>2. LineAfter(Append(frames, new), serial \o framed, m)
    BY <1>3, <1>4, <1>5, LineGrows
  <2> QED
    BY <1>3, <1>6, <2>1, <2>2
<1>9. p \in 0 .. Len(more) /\ k \in 0 .. Len(more) /\ m \in 0 .. Len(more)
  BY <1>7
<1>10. HdlcOrder'
  BY <1>2, <1>5, <1>7, <1>8, <1>9 DEF HdlcOrder, more
<1>11. HdlcShape'
  BY <1>2, <1>3, <1>7, <1>8 DEF HdlcInductive, HdlcShape, more
<1> QED
  BY <1>10, <1>11 DEF HdlcInductive

LEMMA LineLosesKeeps ==
  ASSUME HdlcInductive, LineLoses
  PROVE  HdlcInductive'
<1> DEFINE frames == peer.frames
<1>1. /\ serial # <<>> /\ serial' = Tail(serial) /\ DOMAIN peer' = DOMAIN peer
      /\ peer'.frames = frames /\ inCtx' = inCtx /\ packetIn' = packetIn /\ polled' = polled
  BY DEF LineLoses, HdlcInductive, HdlcShape
<1>2. PICK p \in 0 .. Len(frames), k \in 0 .. Len(frames), m \in 0 .. Len(frames) :
        /\ p <= k /\ k <= m
        /\ PolledUpTo(frames, polled, p)
        /\ WaitingUpTo(frames, inCtx, packetIn, p, k)
        /\ BufferUpTo(frames, inCtx, k, m) /\ LineAfter(frames, serial, m)
  BY DEF HdlcInductive, HdlcOrder
<1>3. frames \in Seq(PeerFrames) /\ serial \in Seq(LineOctets) /\ Len(frames) \in Nat
  BY DEF HdlcInductive, HdlcShape
<1> HIDE DEF frames
<1>4. /\ Tail(serial) \in Seq(LineOctets)
      /\ \E n \in m .. Len(frames) : LineAfter(frames, Tail(serial), n)
  BY <1>1, <1>2, <1>3, LineShrinks
<1>5. PICK n \in m .. Len(frames) : LineAfter(frames, serial', n)
  BY <1>1, <1>4
<1>6. BufferUpTo(frames, inCtx, k, n)
  BY <1>2, <1>3, <1>5 DEF BufferUpTo
<1>7. n \in 0 .. Len(frames) /\ k <= n
  BY <1>2, <1>3, <1>5
<1>8. HdlcOrder'
  BY <1>1, <1>2, <1>5, <1>6, <1>7 DEF HdlcOrder
<1>9. HdlcShape'
  BY <1>1, <1>3, <1>4 DEF HdlcInductive, HdlcShape, frames
<1> QED
  BY <1>8, <1>9 DEF HdlcInductive

\* An octet that is not the flag is stored, or it is not.
LEMMA OctetInFacts ==
  ASSUME HdlcShape, NEW o \in LineOctets, OctetIn(o)
  PROVE  /\ DOMAIN inCtx' = {"buf", "ptr", "mode"} /\ inCtx'.ptr \in 0 .. MaxIn
         /\ inCtx'.buf \in [1 .. MaxIn -> LineOctets]
         /\ packetIn' = packetIn
         /\ \/ inCtx'.ptr = inCtx.ptr /\ inCtx'.buf = inCtx.buf
            \/ \E ch \in LineOctets :
                 /\ ch.v = o.v /\ ch.of = o.of
                 /\ inCtx.ptr + 1 \in 1 .. MaxIn /\ inCtx'.ptr = inCtx.ptr + 1
                 /\ inCtx'.buf = [inCtx.buf EXCEPT ![inCtx.ptr + 1] = ch]
<1> DEFINE Stored(ch) == IF inCtx.ptr >= MaxIn THEN [inCtx EXCEPT !.mode = "normal"]
                         ELSE [buf |-> [inCtx.buf EXCEPT ![inCtx.ptr + 1] = ch],
                               ptr |-> inCtx.ptr + 1, mode |-> "normal"]
<1>1. /\ inCtx.ptr \in 0 .. MaxIn /\ MaxIn \in Nat /\ DOMAIN inCtx = {"buf", "ptr", "mode"}
      /\ inCtx.buf \in [1 .. MaxIn -> LineOctets]
  BY HdlcAssumption DEF HdlcShape
<1>2. /\ inCtx' = inCtx \/ inCtx' = Stored(Trans(o)) \/ inCtx' = [inCtx EXCEPT !.mode = "esc"]
         \/ inCtx' = Stored(o)
      /\ packetIn' = packetIn
  BY DEF OctetIn
<1> HIDE DEF Stored
<1>3. CASE inCtx' = inCtx \/ inCtx' = [inCtx EXCEPT !.mode = "esc"]
  BY <1>1, <1>2, <1>3
<1>4. ASSUME NEW ch \in LineOctets, ch.v = o.v, ch.of = o.of, inCtx' = Stored(ch)
      PROVE  /\ DOMAIN inCtx' = {"buf", "ptr", "mode"} /\ inCtx'.ptr \in 0 .. MaxIn
             /\ inCtx'.buf \in [1 .. MaxIn -> LineOctets]
             /\ \/ inCtx'.ptr = inCtx.ptr /\ inCtx'.buf = inCtx.buf
                \/ /\ inCtx.ptr + 1 \in 1 .. MaxIn /\ inCtx'.ptr = inCtx.ptr + 1
                   /\ inCtx'.buf = [inCtx.buf EXCEPT ![inCtx.ptr + 1] = ch]
  <2>1. CASE inCtx.ptr >= MaxIn
    <3>1. inCtx' = [inCtx EXCEPT !.mode = "normal"]
      BY <1>4, <2>1 DEF Stored
    <3> QED
      BY <1>1, <3>1
  <2>2. CASE ~(inCtx.ptr >= MaxIn)
    <3> DEFINE stored == [inCtx.buf EXCEPT ![inCtx.ptr + 1] = ch]
    <3>1. inCtx' = [buf |-> stored, ptr |-> inCtx.ptr + 1, mode |-> "normal"]
      BY <1>4, <2>2 DEF Stored
    <3>2. inCtx.ptr + 1 \in 1 .. MaxIn /\ inCtx.ptr + 1 \in 0 .. MaxIn
      BY <1>1, <2>2
    <3>3. stored \in [1 .. MaxIn -> LineOctets]
      BY <1>1
    <3> QED
      BY <3>1, <3>2, <3>3
  <2> QED
    BY <2>1, <2>2
<1>5. Trans(o) \in LineOctets /\ Trans(o).v = o.v /\ Trans(o).of = o.of
  BY LineFacts
<1>6. CASE inCtx' = Stored(o)
  BY <1>2, <1>4, <1>6
<1>7. CASE inCtx' = Stored(Trans(o))
  BY <1>2, <1>4, <1>5, <1>7
<1> QED
  BY <1>2, <1>3, <1>6, <1>7

\* The bridge takes an octet: a frame that is whole waits for the thread.
LEMMA InterruptKeeps ==
  ASSUME HdlcInductive, USART3_IRQHandler
  PROVE  HdlcInductive'
<1> DEFINE frames == peer.frames
           o == Head(serial)
<1>1. /\ serial # <<>> /\ serial' = Tail(serial) /\ Received(o)
      /\ peer' = peer /\ polled' = polled
  BY DEF USART3_IRQHandler
<1>2. PICK p \in 0 .. Len(frames), k \in 0 .. Len(frames), m \in 0 .. Len(frames) :
        /\ p <= k /\ k <= m
        /\ PolledUpTo(frames, polled, p)
        /\ WaitingUpTo(frames, inCtx, packetIn, p, k)
        /\ BufferUpTo(frames, inCtx, k, m) /\ LineAfter(frames, serial, m)
  BY DEF HdlcInductive, HdlcOrder
<1>3. /\ HdlcShape /\ frames \in Seq(PeerFrames) /\ serial \in Seq(LineOctets) /\ Len(frames) \in Nat
      /\ packetIn.len \in Nat /\ packetIn.begin \in Nat /\ DOMAIN packetIn = {"begin", "len"}
      /\ inCtx.ptr \in 0 .. MaxIn /\ MaxIn \in Nat /\ DOMAIN inCtx = {"buf", "ptr", "mode"}
      /\ inCtx.buf \in [1 .. MaxIn -> LineOctets]
  BY HdlcAssumption DEF HdlcInductive, HdlcShape
<1> HIDE DEF frames, o
<1>4. /\ Tail(serial) \in Seq(LineOctets) /\ o \in LineOctets
      /\ \E n \in m .. Len(frames) :
           /\ LineAfter(frames, Tail(serial), n)
           /\ Marks(o) => \E j \in m + 1 .. n : o.of = Body(frames[j])
  BY <1>1, <1>2, <1>3, LineShrinks DEF o
<1>5. PICK n \in m .. Len(frames) :
        /\ LineAfter(frames, serial', n)
        /\ Marks(o) => \E j \in m + 1 .. n : o.of = Body(frames[j])
  BY <1>1, <1>4
<1>6. n \in 0 .. Len(frames) /\ k <= n /\ p <= n /\ m <= n
  BY <1>2, <1>3, <1>5
<1>7. frames' = frames /\ serial' \in Seq(LineOctets)
  BY <1>1, <1>4 DEF frames
<1>8. CASE packetIn.len # 0
  <2>1. inCtx' = inCtx /\ packetIn' = packetIn
    BY <1>1, <1>8 DEF Received
  <2>2. BufferUpTo(frames, inCtx, k, n)
    BY <1>2, <1>3, <1>6 DEF BufferUpTo
  <2>3. HdlcOrder'
    BY <1>1, <1>2, <1>5, <1>6, <1>7, <2>1, <2>2 DEF HdlcOrder, frames
  <2>4. HdlcShape'
    BY <1>1, <1>7, <2>1 DEF HdlcInductive, HdlcShape
  <2> QED
    BY <2>3, <2>4 DEF HdlcInductive
<1>9. CASE packetIn.len = 0 /\ o = PPP_FLAG
  <2> DEFINE hlen == HeaderLen(Gathered)
             len == Len(Gathered) - 2
             good == GoodFcs(Gathered) /\ len >= hlen /\ Gathered[hlen] = PPP_ETHERNET
  <2>1. inCtx' = InputReset /\ packetIn' = IF good THEN [begin |-> hlen, len |-> len - hlen]
                                                   ELSE packetIn
    BY <1>1, <1>9 DEF Received, FrameEnd
  <2>2. DOMAIN inCtx' = DOMAIN inCtx /\ inCtx'.ptr = 0 /\ inCtx'.buf = inCtx.buf
    BY <1>3, <2>1 DEF InputReset
  <2>3. BufferUpTo(frames, inCtx', n, n)
    BY <2>2 DEF BufferUpTo
  <2>4. CASE good
    <3>1. inCtx.ptr >= 1 /\ Marks(inCtx.buf[inCtx.ptr])
      <4>1. /\ Len(Gathered) = inCtx.ptr
            /\ inCtx.ptr >= 1 => Gathered[inCtx.ptr] = inCtx.buf[inCtx.ptr]
        BY <1>3 DEF Gathered
      <4> DEFINE s == Gathered
      <4>2. Len(s) >= 2 /\ s[Len(s)] = Fcs(2, SubSeq(s, 1, Len(s) - 2))
        BY <2>4 DEF GoodFcs
      <4>3. s[Len(s)].v = "fcs2"
        BY <4>2 DEF Fcs
      <4> HIDE DEF s
      <4> QED
        BY <1>3, <4>1, <4>2, <4>3 DEF Marks, s
    <3>2. PICK j \in k + 1 .. m : inCtx.buf[inCtx.ptr].of = Body(frames[j])
      <4>1. inCtx.ptr \in 1 .. inCtx.ptr
        BY <1>3, <3>1
      <4> QED
        BY <1>2, <3>1, <4>1 DEF BufferUpTo
    <3>3. j \in 1 .. Len(frames) /\ j \in p + 1 .. n /\ frames[j] \in PeerFrames
      BY <1>2, <1>3, <1>6
    <3>4. /\ hlen \in Nat /\ len \in Nat /\ len >= hlen
          /\ OfFrame(frames[j], SubSeq(inCtx.buf, hlen + 1, hlen + (len - hlen)))
      BY <1>3, <2>4, <3>2, <3>3, GatheredFacts
    <3> HIDE DEF hlen, len
    <3>5. /\ packetIn'.begin = hlen /\ packetIn'.len = len - hlen /\ len - hlen \in Nat
          /\ DOMAIN packetIn' = {"begin", "len"}
      BY <2>1, <2>4, <3>4
    <3>6. WaitingUpTo(frames, inCtx', packetIn', p, n)
      BY <2>2, <3>3, <3>4, <3>5 DEF WaitingUpTo
    <3>7. HdlcOrder'
      BY <1>1, <1>2, <1>5, <1>6, <1>7, <2>3, <3>6 DEF HdlcOrder, frames
    <3>8. HdlcShape'
      BY <1>1, <1>3, <1>7, <2>2, <3>4, <3>5 DEF HdlcShape
    <3> QED
      BY <3>7, <3>8 DEF HdlcInductive
  <2>5. CASE ~good
    <3>1. packetIn' = packetIn
      BY <2>1, <2>5
    <3> HIDE DEF good, hlen, len
    <3>2. WaitingUpTo(frames, inCtx', packetIn', p, n)
      BY <1>9, <3>1 DEF WaitingUpTo
    <3>3. HdlcOrder'
      BY <1>1, <1>2, <1>5, <1>6, <1>7, <2>3, <3>2 DEF HdlcOrder, frames
    <3>4. HdlcShape'
      BY <1>1, <1>3, <1>7, <2>2, <3>1 DEF HdlcShape
    <3> QED
      BY <3>3, <3>4 DEF HdlcInductive
  <2> QED
    BY <2>4, <2>5
<1>10. CASE packetIn.len = 0 /\ o # PPP_FLAG
  <2>1. OctetIn(o)
    BY <1>1, <1>10 DEF Received
  <2>2. /\ DOMAIN inCtx' = {"buf", "ptr", "mode"} /\ inCtx'.ptr \in 0 .. MaxIn
        /\ inCtx'.buf \in [1 .. MaxIn -> LineOctets]
        /\ packetIn' = packetIn
        /\ \/ inCtx'.ptr = inCtx.ptr /\ inCtx'.buf = inCtx.buf
           \/ \E ch \in LineOctets :
                /\ ch.v = o.v /\ ch.of = o.of
                /\ inCtx.ptr + 1 \in 1 .. MaxIn /\ inCtx'.ptr = inCtx.ptr + 1
                /\ inCtx'.buf = [inCtx.buf EXCEPT ![inCtx.ptr + 1] = ch]
    BY <1>3, <1>4, <2>1, OctetInFacts
  <2>3. BufferUpTo(frames, inCtx', k, n)
    <3>1. CASE inCtx'.ptr = inCtx.ptr /\ inCtx'.buf = inCtx.buf
      BY <1>2, <1>3, <1>6, <3>1 DEF BufferUpTo
    <3>2. ASSUME NEW ch \in LineOctets, ch.v = o.v, ch.of = o.of, inCtx.ptr + 1 \in 1 .. MaxIn,
                 inCtx'.ptr = inCtx.ptr + 1, inCtx'.buf = [inCtx.buf EXCEPT ![inCtx.ptr + 1] = ch]
          PROVE  BufferUpTo(frames, inCtx', k, n)
      <4> SUFFICES ASSUME NEW i \in 1 .. inCtx'.ptr, Marks(inCtx'.buf[i])
                   PROVE  \E j \in k + 1 .. n : inCtx'.buf[i].of = Body(frames[j])
        BY DEF BufferUpTo
      <4>1. CASE i = inCtx.ptr + 1
        <5>1. inCtx'.buf[i] = ch /\ Marks(o)
          BY <1>3, <3>2, <4>1 DEF Marks
        <5>2. PICK j \in m + 1 .. n : o.of = Body(frames[j])
          BY <1>5, <5>1
        <5>3. j \in k + 1 .. n
          BY <1>2, <1>6
        <5> QED
          BY <3>2, <5>1, <5>2, <5>3
      <4>2. CASE i # inCtx.ptr + 1
        <5>1. i \in 1 .. inCtx.ptr /\ inCtx'.buf[i] = inCtx.buf[i]
          BY <1>3, <3>2, <4>2
        <5>2. PICK j \in k + 1 .. m : inCtx.buf[i].of = Body(frames[j])
          BY <1>2, <5>1 DEF BufferUpTo
        <5>3. j \in k + 1 .. n
          BY <1>2, <1>6
        <5> QED
          BY <5>1, <5>2, <5>3
      <4> QED
        BY <4>1, <4>2
    <3> QED
      BY <2>2, <3>1, <3>2
  <2>4. WaitingUpTo(frames, inCtx', packetIn', p, k)
    BY <1>10, <2>2 DEF WaitingUpTo
  <2>5. HdlcOrder'
    BY <1>1, <1>2, <1>5, <1>6, <1>7, <2>3, <2>4 DEF HdlcOrder, frames
  <2>6. HdlcShape'
    BY <1>1, <1>3, <1>7, <2>2 DEF HdlcShape
  <2> QED
    BY <2>5, <2>6 DEF HdlcInductive
<1> QED
  BY <1>8, <1>9, <1>10

\* The thread takes the packet that waits.
LEMMA HdlcPollKeeps ==
  ASSUME HdlcInductive, HdlcPoll
  PROVE  HdlcInductive'
<1> DEFINE frames == peer.frames
           data == SubSeq(inCtx.buf, packetIn.begin + 1, packetIn.begin + packetIn.len)
<1>1. /\ packetIn.len > 0 /\ polled' = Append(polled, data)
      /\ packetIn' = [packetIn EXCEPT !.len = 0]
      /\ serial' = serial /\ peer' = peer /\ inCtx' = inCtx
  BY DEF HdlcPoll
<1>2. PICK p \in 0 .. Len(frames), k \in 0 .. Len(frames), m \in 0 .. Len(frames) :
        /\ p <= k /\ k <= m
        /\ PolledUpTo(frames, polled, p)
        /\ WaitingUpTo(frames, inCtx, packetIn, p, k)
        /\ BufferUpTo(frames, inCtx, k, m) /\ LineAfter(frames, serial, m)
  BY DEF HdlcInductive, HdlcOrder
<1>3. PICK j \in p + 1 .. k : OfFrame(frames[j], data)
  BY <1>1, <1>2 DEF WaitingUpTo
<1>4. /\ frames \in Seq(PeerFrames) /\ polled \in Seq(FrameDatas) /\ Len(frames) \in Nat
      /\ DOMAIN packetIn = {"begin", "len"} /\ packetIn.begin \in Nat
  BY DEF HdlcInductive, HdlcShape
<1> HIDE DEF frames, data
<1>5. j \in 1 .. Len(frames) /\ j \in 1 .. k
  BY <1>2, <1>4
<1>6. data \in FrameDatas
  <2>1. frames[j] \in PeerFrames
    BY <1>4, <1>5
  <2> QED
    BY <1>3, <2>1 DEF PeerFrames, OfFrame
<1>7. /\ polled' \in Seq(FrameDatas) /\ DOMAIN polled' = 1 .. Len(polled) + 1
      /\ DOMAIN polled = 1 .. Len(polled) /\ Len(polled) \in Nat
      /\ polled'[Len(polled) + 1] = data
      /\ \A i \in 1 .. Len(polled) : polled'[i] = polled[i]
  BY <1>1, <1>4, <1>6
<1>8. PolledUpTo(frames, polled', k)
  <2>1. PICK f \in [DOMAIN polled -> 1 .. p] :
          \A i \in DOMAIN polled : OfFrame(frames[f[i]], polled[i]) /\ (i > 1 => f[i - 1] < f[i])
    BY <1>2 DEF PolledUpTo
  <2> DEFINE g == [i \in DOMAIN polled' |-> IF i \in DOMAIN polled THEN f[i] ELSE j]
  <2>2. \A i \in DOMAIN polled : f[i] \in 1 .. p /\ f[i] \in 1 .. k /\ f[i] < j
    BY <1>2, <1>4, <2>1
  <2>3. g \in [DOMAIN polled' -> 1 .. k]
    BY <1>5, <2>2
  <2>4. ASSUME NEW i \in DOMAIN polled'
        PROVE  OfFrame(frames[g[i]], polled'[i]) /\ (i > 1 => g[i - 1] < g[i])
    <3>1. CASE i \in 1 .. Len(polled)
      <4>1. g[i] = f[i] /\ polled'[i] = polled[i] /\ (i > 1 => i - 1 \in 1 .. Len(polled))
        BY <1>7, <3>1
      <4>2. i > 1 => g[i - 1] = f[i - 1]
        BY <1>7, <4>1
      <4> QED
        BY <1>7, <2>1, <3>1, <4>1, <4>2
    <3>2. CASE i = Len(polled) + 1
      <4>1. g[i] = j /\ polled'[i] = data /\ (i > 1 => i - 1 \in 1 .. Len(polled))
        BY <1>7, <3>2
      <4>2. i > 1 => g[i - 1] = f[i - 1] /\ f[i - 1] < j
        BY <1>7, <2>2, <4>1
      <4> QED
        BY <1>3, <4>1, <4>2
    <3> QED
      BY <1>7, <3>1, <3>2
  <2> HIDE DEF g
  <2> QED
    BY <2>3, <2>4 DEF PolledUpTo
<1>9. /\ packetIn'.len = 0 /\ packetIn'.begin = packetIn.begin /\ DOMAIN packetIn' = DOMAIN packetIn
      /\ WaitingUpTo(frames, inCtx', packetIn', k, k)
  BY <1>1, <1>4 DEF WaitingUpTo
<1>10. HdlcOrder'
  <2>1. k <= k /\ k <= m /\ k \in 0 .. Len(frames) /\ m \in 0 .. Len(frames)
    BY <1>2, <1>4
  <2>2. /\ BufferUpTo(frames, inCtx', k, m) /\ LineAfter(frames, serial', m)
        /\ peer'.frames = frames
    BY <1>1, <1>2 DEF frames
  <2> QED
    BY <1>8, <1>9, <2>1, <2>2 DEF HdlcOrder
<1>11. HdlcShape'
  BY <1>1, <1>4, <1>7, <1>9 DEF HdlcInductive, HdlcShape
<1> QED
  BY <1>10, <1>11 DEF HdlcInductive

LEMMA HdlcInductiveNext ==
  ASSUME HdlcInductive, [HdlcNext]_hdlcvars
  PROVE  HdlcInductive'
<1>1. CASE UNCHANGED hdlcvars
  <2>1. /\ serial' = serial /\ peer' = peer /\ inCtx' = inCtx /\ packetIn' = packetIn
        /\ polled' = polled
    BY <1>1 DEF hdlcvars
  <2> QED
    BY <2>1 DEF HdlcInductive, HdlcShape, HdlcOrder
<1> QED
  BY <1>1, PeerSendsKeeps, LineLosesKeeps, InterruptKeeps, HdlcPollKeeps DEF HdlcNext

LEMMA HdlcIntactHolds ==
  ASSUME HdlcInductive
  PROVE  HdlcIntact
<1> DEFINE frames == peer.frames
<1>1. PICK p \in 0 .. Len(frames) : PolledUpTo(frames, polled, p)
  BY DEF HdlcInductive, HdlcOrder
<1>2. PICK f \in [DOMAIN polled -> 1 .. p] :
        \A i \in DOMAIN polled : OfFrame(frames[f[i]], polled[i]) /\ (i > 1 => f[i - 1] < f[i])
  BY <1>1 DEF PolledUpTo
<1>3. f \in [DOMAIN polled -> DOMAIN frames]
  <2>1. Len(frames) \in Nat /\ DOMAIN frames = 1 .. Len(frames)
    BY DEF HdlcInductive, HdlcShape
  <2>2. 1 .. p \subseteq DOMAIN frames
    BY <1>1, <2>1
  <2> QED
    BY <2>2
<1> QED
  BY <1>2, <1>3 DEF HdlcIntact, OfFrame

\* What hdlcPoll gives to the stack are packets that the peer sent for Ethernet, whole, in
\* their order and once, whatever octets the line loses (pppInputAppend, packetInReady).
THEOREM HdlcIntactAlways == HdlcSpec => []HdlcIntact
BY HdlcInductiveInit, HdlcInductiveNext, HdlcIntactHolds, PTL DEF HdlcSpec

\* The frames that a driver gives to the stack are frames that came, whole, in their order
\* and once, whichever of the three is built in (tivaEmacPoll, hdlcPoll with pppInputAppend,
\* enc28j60_Frame_Recv).
THEOREM FramesIntactAlways == EmacSpec /\ HdlcSpec /\ EncSpec => []FramesIntact
<1>1. EmacIntact /\ HdlcIntact /\ EncIntact => FramesIntact
  BY DEF FramesIntact
<1> QED
  BY <1>1, EmacIntactAlways, HdlcIntactAlways, EncIntactAlways, PTL
=============================================================================
