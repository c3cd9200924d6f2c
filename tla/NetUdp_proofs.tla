---------------------------- MODULE NetUdp_proofs ----------------------------
(***************************************************************************)
(* UdpRight for any number of UDP sockets and connections, any ports and   *)
(* any lengths.  An action changes one socket and the place of the main    *)
(* thread; two change a connection with it: netSockConnect and the close   *)
(* that an appcall answers.                                                *)
(***************************************************************************)
EXTENDS NetUdp, FiniteSetTheorems, WellFoundedInduction, TLAPS

-----------------------------------------------------------------------------
(* The inductive invariant *)

SocketRecords ==
  [st : {"free", "NULL", "BUSY", "READING", "READING_LINE", "READ_OK", "WRITING", "WRITE_OK",
         "CLOSE", "CLOSE_OK"},
   call : {"none", "idle", "read", "write", "close"}, wake : {"wait", "woken", "expired"},
   uip : BOOLEAN, api : BOOLEAN, max : Nat, len : Nat, owed : Nat, sent : Nat]

\* An entry that was never used, and one that was
Unused == [lport : {0}]
InUse == [lport : Nat, remote : Remotes, file : UdpSocks]

Datagrams == [to : PortLo .. PortHi, from : Sources, size : DatagramSizes]

MainRecords ==
  [pc : {"wait", "input", "fault"}] \cup [pc : {"clear"}, requested : BOOLEAN]
    \cup [pc : {"send", "periodic"}, next : UdpTable]
    \cup [pc : {"hold"}, s : UdpSocks, d : Datagrams]

UdpTypeOK ==
  /\ usock \in [UdpSocks -> SocketRecords]
  /\ \E k \in UdpConnNbs : uconn \in [1 .. k -> Unused \cup InUse]
  /\ lastport \in PortLo .. PortHi
  /\ umain \in MainRecords
  /\ urequest \in BOOLEAN

\* The state of a socket r fits the call its task is in, whichever of the task and the
\* main thread is the first to move: an answered read has one datagram and no more than
\* its buffer takes, a write is sent when it is answered and not before.
StateFits(r) ==
  /\ r.call = "none" => r.st \in {"free", "NULL"}
  /\ r.call = "idle" => r.st = "BUSY" /\ r.sent = 0
  /\ r.call = "read" => r.st \in {"READING", "READING_LINE", "READ_OK"}
  /\ r.call = "write" =>
       /\ r.st \in {"WRITING", "WRITE_OK"}
       /\ r.sent = IF r.st = "WRITING" \/ r.len = 0 THEN 0 ELSE 1
  /\ r.call = "close" => r.st \in {"CLOSE", "CLOSE_OK"}
  /\ r.owed = IF r.st = "READ_OK" THEN 1 ELSE 0
  /\ r.st = "READ_OK" => r.len <= r.max

InService(r) == r.st \notin {"free", "NULL", "CLOSE_OK"}

Serves(c, s) == uconn[c].lport # 0 /\ uconn[c].file = s

\* A connection in use refers to a socket in service, which has no other one.
OneConnection ==
  /\ \A c \in UdpTable : uconn[c].lport # 0 => InService(usock[uconn[c].file])
  /\ \A s \in UdpSocks : InService(usock[s]) => \E c \in UdpTable : Serves(c, s)
  /\ \A s \in UdpSocks : \A c, d \in UdpTable : Serves(c, s) /\ Serves(d, s) => c = d

\* Nothing changes the connections while the main thread waits for a reader.
HeldForSocket ==
  umain.pc = "hold" => \E c \in Takers(umain.d) : uconn[c].file = umain.s

UdpInductive ==
  /\ UdpTypeOK
  /\ \A s \in UdpSocks : StateFits(usock[s])
  /\ OneConnection
  /\ HeldForSocket

-----------------------------------------------------------------------------
(* Choices: the first free connection, the next free port *)

\* A set of naturals has a least element.
LEMMA MinIn ==
  ASSUME NEW S, S \subseteq Nat, S # {}
  PROVE  Min(S) \in S
<1>1. PICK x \in S : \A y \in S : ~(<<y, x>> \in OpToRel(<, Nat))
  BY NatLessThanWellFounded, WFMin
<1>2. \A y \in S : x <= y
  <2> SUFFICES ASSUME NEW y \in S, ~(x <= y) PROVE FALSE
    OBVIOUS
  <2>1. y \in Nat /\ x \in Nat /\ y < x
    OBVIOUS
  <2>2. <<y, x>> \in Nat \X Nat /\ <<y, x>>[1] = y /\ <<y, x>>[2] = x
    BY <2>1
  <2>3. <<y, x>> \in OpToRel(<, Nat)
    BY <2>1, <2>2 DEF OpToRel
  <2> QED
    BY <1>1, <2>3
<1> QED
  BY <1>2 DEF Min

\* Numbers that are less than n apart have different remainders.
LEMMA ModInjective ==
  ASSUME NEW n \in Nat \ {0}, NEW a \in Int, NEW j \in 1 .. n, NEW k \in 1 .. n,
         (a + j) % n = (a + k) % n
  PROVE  j = k
<1> DEFINE q == (a + j) \div n  r == (a+k) \div n
<1>0. \A x \in Int : x \div n \in Int /\ x % n = x - n * (x \div n)
  BY Z3
<1>1. q \in Int /\ r \in Int /\ (a + j) - n * q = (a + k) - n * r
  BY <1>0
<1> HIDE DEF q, r
<1>2. j - k = n * q - n * r
  <2>1. n * q \in Int /\ n * r \in Int
    BY <1>1
  <2> QED
    BY <1>1, <2>1
<1>3. PICK m \in Int : j - k = n * m
  <2>1. n * q - n * r = n * (q - r) /\ q - r \in Int
    BY <1>1
  <2> QED
    BY <1>2, <2>1
<1>4. CASE m = 0
  BY <1>3, <1>4
<1>5. CASE m >= 1
  <2>1. n * m >= n
    BY <1>5
  <2> QED
    BY <1>3, <2>1
<1>6. CASE m <= -1
  <2>1. n * m <= -n
    BY <1>6
  <2> QED
    BY <1>3, <2>1
<1> QED
  BY <1>4, <1>5, <1>6

\* The table and its types, in the form that the steps use
LEMMA TableFacts ==
  ASSUME UdpTypeOK
  PROVE  /\ UdpTable \subseteq Nat \ {0} /\ 1 \in UdpTable
         /\ IsFiniteSet(UdpTable) /\ Cardinality(UdpTable) < PortHi - PortLo
         /\ uconn \in [UdpTable -> Unused \cup InUse]
<1>1. PICK k \in UdpConnNbs : uconn \in [1 .. k -> Unused \cup InUse]
  BY DEF UdpTypeOK
<1>2. k \in 1 .. (PortHi - PortLo - 1) /\ k \in Int /\ UdpTable = 1 .. k
  BY <1>1, UdpAssumption DEF UdpTable
<1>3. IsFiniteSet(1 .. k) /\ Cardinality(1 .. k) = k
  BY <1>2, FS_Interval
<1> QED
  BY <1>1, <1>2, <1>3, UdpAssumption

\* uip_udp_new finds a port that no connection has, for there are more ports than
\* connections.
LEMMA PortFound ==
  ASSUME UdpTypeOK
  PROVE  NextPort \in PortLo .. PortHi
<1> DEFINE n == PortHi - PortLo
           after(k) == PortLo + ((lastport - PortLo + k) % n)
           free == {k \in 1 .. n : \A c \in UdpTable : uconn[c].lport # after(k)}
<1>1. n \in Nat \ {0} /\ lastport - PortLo \in Int /\ PortLo \in Nat /\ PortHi \in Nat
  BY TableFacts, FS_CardinalityType, UdpAssumption DEF UdpTypeOK
<1>2. free # {}
  <2> SUFFICES ASSUME free = {} PROVE FALSE
    OBVIOUS
  <2> DEFINE taken == [k \in 1 .. n |-> CHOOSE c \in UdpTable : uconn[c].lport = after(k)]
  <2>1. \A k \in 1 .. n : taken[k] \in UdpTable /\ uconn[taken[k]].lport = after(k)
    OBVIOUS
  <2>2. taken \in [1 .. n -> UdpTable]
    BY <2>1
  <2>3. IsFiniteSet(1 .. n) /\ Cardinality(1 .. n) = n
    BY <1>1, FS_Interval
  <2>4. IsFiniteSet(UdpTable) /\ Cardinality(UdpTable) < Cardinality(1 .. n)
    BY TableFacts, <2>3
  <2> HIDE DEF taken, after, n
  <2>5. PICK j, k \in 1 .. n : j # k /\ taken[j] = taken[k]
    <3> DEFINE ports == 1 .. n
    <3>1. IsFiniteSet(ports) /\ taken \in [ports -> UdpTable]
      BY <2>2, <2>3
    <3>2. Cardinality(UdpTable) < Cardinality(ports)
      BY <2>4
    <3> HIDE DEF ports
    <3>3. \E j, k \in ports : j # k /\ taken[j] = taken[k]
      BY <2>4, <3>1, <3>2, FS_PigeonHole
    <3> QED
      BY <3>3 DEF ports
  <2>6. after(j) = after(k)
    BY <2>1, <2>5
  <2>7. (lastport - PortLo + j) % n = (lastport - PortLo + k) % n
    <3>1. /\ (lastport - PortLo + j) % n \in Int /\ (lastport - PortLo + k) % n \in Int
      BY <1>1
    <3> QED
      BY <2>6, <3>1, <1>1 DEF after
  <2> QED
    BY <2>5, <2>7, <1>1, ModInjective
<1>3. free \subseteq Nat
  OBVIOUS
<1> HIDE DEF free
<1>4. Min(free) \in free
  BY <1>2, <1>3, MinIn
<1>5. Min(free) \in Nat
  BY <1>3, <1>4
<1>6. after(Min(free)) \in PortLo .. PortHi
  <2>1. (lastport - PortLo + Min(free)) % n \in 0 .. n - 1
    BY <1>1, <1>5
  <2> HIDE DEF n
  <2>2. PortLo + ((lastport - PortLo + Min(free)) % n) \in PortLo .. PortLo + n - 1
    BY <1>1, <2>1
  <2> QED
    BY <2>2, <1>1 DEF n
<1> QED
  BY <1>6 DEF NextPort, free

\* The connection that uip_udp_new takes is one of the free ones.
LEMMA FirstFree ==
  ASSUME UdpTypeOK, FreeConns # {}
  PROVE  Min(FreeConns) \in UdpTable /\ uconn[Min(FreeConns)].lport = 0
<1>1. FreeConns \subseteq Nat
  BY TableFacts DEF FreeConns
<1>2. Min(FreeConns) \in FreeConns
  BY <1>1, MinIn
<1> QED
  BY <1>2 DEF FreeConns

\* So is the connection that udp_input finds one of those that take the datagram, and it
\* is in use.
LEMMA FirstTaker ==
  ASSUME UdpTypeOK, NEW d \in Datagrams, Takers(d) # {}
  PROVE  /\ Min(Takers(d)) \in Takers(d) /\ Min(Takers(d)) \in UdpTable
         /\ uconn[Min(Takers(d))].file \in UdpSocks
         /\ Serves(Min(Takers(d)), uconn[Min(Takers(d))].file)
<1>1. Takers(d) \subseteq Nat
  BY TableFacts DEF Takers
<1>2. Min(Takers(d)) \in Takers(d)
  BY <1>1, MinIn
<1> DEFINE c == Min(Takers(d))
<1>3. c \in UdpTable /\ uconn[c].lport = d.to
  BY <1>2 DEF Takers, Takes
<1>4. d.to # 0
  BY UdpAssumption DEF Datagrams
<1> HIDE DEF c
<1>5. uconn[c] \in InUse
  BY <1>3, <1>4, TableFacts DEF Unused
<1> QED
  BY <1>2, <1>3, <1>4, <1>5 DEF c, InUse, Serves

-----------------------------------------------------------------------------
(* One step *)

\* Where the main thread may be after a step
PlaceRight ==
  /\ umain' \in MainRecords'
  /\ umain'.pc = "hold" => \E c \in Takers(umain'.d) : uconn[c].file = umain'.s

\* A step that changes one socket, which stays in service or out of it
LEMMA OneSocket ==
  ASSUME UdpInductive, NEW s \in UdpSocks, NEW new \in SocketRecords,
         Sock(s, new), StateFits(new), InService(new) <=> InService(usock[s]),
         UNCHANGED uconn, lastport' \in PortLo .. PortHi, urequest' \in BOOLEAN, PlaceRight
  PROVE  UdpInductive'
<1> USE DEF UdpInductive
<1>1. /\ usock' = [usock EXCEPT ![s] = new] /\ usock \in [UdpSocks -> SocketRecords]
  BY DEF Sock, UdpTypeOK
<1>2. /\ usock' \in [UdpSocks -> SocketRecords] /\ usock'[s] = new
      /\ \A t \in UdpSocks \ {s} : usock'[t] = usock[t]
  BY <1>1
<1>3. UdpTypeOK'
  BY <1>2 DEF UdpTypeOK, PlaceRight
<1>4. (\A t \in UdpSocks : StateFits(usock[t]))'
  <2> SUFFICES ASSUME NEW t \in UdpSocks PROVE StateFits(usock'[t])
    BY DEF StateFits
  <2>1. CASE t = s
    BY <2>1, <1>2
  <2>2. CASE t # s
    BY <2>2, <1>2
  <2> QED
    BY <2>1, <2>2
<1>5. \A t \in UdpSocks : InService(usock'[t]) <=> InService(usock[t])
  BY <1>2
<1>6. OneConnection'
  <2>1. \A c \in UdpTable : uconn[c].lport # 0 => uconn[c].file \in UdpSocks
    BY TableFacts DEF Unused, InUse
  <2>2. /\ UdpTable' = UdpTable
        /\ \A c \in UdpTable, t \in UdpSocks : Serves(c, t)' <=> Serves(c, t)
    BY DEF UdpTable, Serves
  <2>3. \A c \in UdpTable : uconn[c].lport # 0 => InService(usock'[uconn[c].file])
    BY <1>5, <2>1 DEF OneConnection
  <2>4. \A t \in UdpSocks : InService(usock'[t]) => \E c \in UdpTable : Serves(c, t)
    BY <1>5 DEF OneConnection
  <2> QED
    BY <2>2, <2>3, <2>4 DEF OneConnection, InService
<1>7. HeldForSocket'
  BY DEF HeldForSocket, PlaceRight, Takers, Takes, UdpTable
<1> QED
  BY <1>3, <1>4, <1>6, <1>7

\* A step of the main thread alone
LEMMA MainOnly ==
  ASSUME UdpInductive, UNCHANGED <<usock, uconn, lastport>>, urequest' \in BOOLEAN, PlaceRight
  PROVE  UdpInductive'
<1> USE DEF UdpInductive
<1>1. UdpTypeOK'
  BY DEF UdpTypeOK, PlaceRight
<1>2. (\A t \in UdpSocks : StateFits(usock[t]))'
  BY DEF StateFits
<1>3. OneConnection'
  BY DEF OneConnection, InService, Serves, UdpTable
<1>4. HeldForSocket'
  BY DEF HeldForSocket, PlaceRight, Takers, Takes, UdpTable
<1> QED
  BY <1>1, <1>2, <1>3, <1>4

\* The main thread stays where it is.
LEMMA PlaceKept ==
  ASSUME UdpInductive, UNCHANGED <<uconn, umain>>
  PROVE  PlaceRight
BY DEF UdpInductive, UdpTypeOK, HeldForSocket, PlaceRight, MainRecords, UdpTable

\* A step of a task that changes its socket only
LEMMA TaskStep ==
  ASSUME UdpInductive, NEW s \in UdpSocks, NEW new \in SocketRecords,
         Sock(s, new), StateFits(new), InService(new) <=> InService(usock[s]),
         UNCHANGED <<uconn, lastport, umain>>, urequest' \in BOOLEAN
  PROVE  UdpInductive'
<1>1. lastport' \in PortLo .. PortHi
  BY DEF UdpInductive, UdpTypeOK
<1> QED
  BY <1>1, PlaceKept, OneSocket

\* The invariant holds before any socket is created.
LEMMA UdpInitial == UdpInit => UdpInductive
<1> SUFFICES ASSUME UdpInit PROVE UdpInductive
  OBVIOUS
<1>1. PICK k \in UdpConnNbs : uconn = [c \in 1 .. k |-> [lport |-> 0]]
  BY DEF UdpInit
<1>2. uconn \in [1 .. k -> Unused] /\ \A c \in UdpTable : uconn[c].lport = 0
  BY <1>1 DEF Unused, UdpTable
<1>3. \A s \in UdpSocks : /\ usock[s] \in SocketRecords /\ usock[s].st = "free"
                         /\ usock[s].call = "none" /\ usock[s].owed = 0
  BY DEF UdpInit, SocketRecords
<1>4. UdpTypeOK
  <2>1. usock \in [UdpSocks -> SocketRecords]
    BY <1>3 DEF UdpInit
  <2>2. \E m \in UdpConnNbs : uconn \in [1 .. m -> Unused \cup InUse]
    BY <1>2
  <2>3. lastport \in PortLo .. PortHi
    <3>1. k \in 1 .. PortHi - PortLo - 1
      BY UdpAssumption
    <3> QED
      BY <3>1, UdpAssumption DEF UdpInit
  <2>4. umain \in MainRecords /\ urequest \in BOOLEAN
    BY DEF UdpInit, MainRecords
  <2> QED
    BY <2>1, <2>2, <2>3, <2>4 DEF UdpTypeOK
<1>5. \A s \in UdpSocks : StateFits(usock[s])
  BY <1>3 DEF StateFits
<1>6. OneConnection
  BY <1>2, <1>3 DEF OneConnection, InService, Serves
<1>7. HeldForSocket
  BY DEF UdpInit, HeldForSocket
<1> QED
  BY <1>4, <1>5, <1>6, <1>7 DEF UdpInductive

-----------------------------------------------------------------------------
(* The tasks *)

\* netSockRead keeps the invariant.
LEMMA ReadStep ==
  ASSUME UdpInductive, NEW s \in UdpSocks, NEW m \in ReadSizes, NEW state \in ReadStates,
         UdpRead(s, state, m)
  PROVE  UdpInductive'
<1> DEFINE r == usock[s]
           new == [r EXCEPT !.st = state, !.max = m, !.len = 0, !.api = TRUE, !.call = "read"]
<1>1. r \in SocketRecords /\ StateFits(r) /\ urequest \in BOOLEAN
  BY DEF UdpInductive, UdpTypeOK
<1>2. Sock(s, new) /\ UNCHANGED <<uconn, lastport, umain>> /\ urequest' \in BOOLEAN
  BY <1>1 DEF UdpRead, OnlySock
<1>3. new \in SocketRecords
  BY <1>1, UdpAssumption DEF SocketRecords
<1>4. StateFits(new) /\ (InService(new) <=> InService(r))
  BY <1>1, UdpAssumption DEF UdpRead, SocketRecords, StateFits, InService
<1> HIDE DEF new
<1> QED
  BY <1>2, <1>3, <1>4, TaskStep

\* A task that finds its flag keeps the invariant.
LEMMA FlagGetStep ==
  ASSUME UdpInductive, NEW s \in UdpSocks, UdpFlagGet(s)
  PROVE  UdpInductive'
<1> DEFINE r == usock[s]
           new == [r EXCEPT !.uip = FALSE, !.wake = "woken"]
<1>1. r \in SocketRecords /\ StateFits(r) /\ urequest \in BOOLEAN
  BY DEF UdpInductive, UdpTypeOK
<1>2. Sock(s, new) /\ UNCHANGED <<uconn, lastport, umain>> /\ urequest' \in BOOLEAN
  BY <1>1 DEF UdpFlagGet, OnlySock
<1>3. new \in SocketRecords
  BY <1>1 DEF SocketRecords
<1>4. StateFits(new) /\ (InService(new) <=> InService(r))
  BY <1>1 DEF UdpFlagGet, SocketRecords, StateFits, InService
<1> HIDE DEF new
<1> QED
  BY <1>2, <1>3, <1>4, TaskStep

\* A wait that times out keeps the invariant.
LEMMA TimeoutStep ==
  ASSUME UdpInductive, NEW s \in UdpSocks, UdpTimeout(s)
  PROVE  UdpInductive'
<1> DEFINE r == usock[s]
           new == [r EXCEPT !.wake = "expired"]
<1>1. r \in SocketRecords /\ StateFits(r) /\ urequest \in BOOLEAN
  BY DEF UdpInductive, UdpTypeOK
<1>2. Sock(s, new) /\ UNCHANGED <<uconn, lastport, umain>> /\ urequest' \in BOOLEAN
  BY <1>1 DEF UdpTimeout, OnlySock
<1>3. new \in SocketRecords
  BY <1>1 DEF SocketRecords
<1>4. StateFits(new) /\ (InService(new) <=> InService(r))
  BY <1>1 DEF UdpTimeout, SocketRecords, StateFits, InService
<1> HIDE DEF new
<1> QED
  BY <1>2, <1>3, <1>4, TaskStep

\* A read that returns keeps the invariant.
LEMMA ReadEndStep ==
  ASSUME UdpInductive, NEW s \in UdpSocks, UdpReadEnd(s)
  PROVE  UdpInductive'
<1> DEFINE r == usock[s]
           new == IF r.st = "READ_OK" THEN [Idle(s) EXCEPT !.owed = @ - 1]
                  ELSE IF r.wake = "woken" THEN [r EXCEPT !.wake = "wait"]
                  ELSE Idle(s)
<1>1. r \in SocketRecords /\ StateFits(r) /\ urequest \in BOOLEAN
  BY DEF UdpInductive, UdpTypeOK
<1>2. Sock(s, new) /\ UNCHANGED <<uconn, lastport, umain>> /\ urequest' \in BOOLEAN
  BY <1>1 DEF UdpReadEnd, OnlySock
<1>3. new \in SocketRecords
  <2>1. Idle(s) \in SocketRecords /\ Idle(s).owed = r.owed
    BY <1>1 DEF Idle, SocketRecords
  <2>2. r.st = "READ_OK" => r.owed - 1 \in Nat
    BY <1>1 DEF StateFits
  <2> QED
    BY <1>1, <2>1, <2>2 DEF SocketRecords
<1>4. StateFits(new) /\ (InService(new) <=> InService(r))
  BY <1>1 DEF UdpReadEnd, Idle, SocketRecords, StateFits, InService
<1> HIDE DEF new
<1> QED
  BY <1>2, <1>3, <1>4, TaskStep

\* netSockWrite keeps the invariant.
LEMMA WriteStep ==
  ASSUME UdpInductive, NEW s \in UdpSocks, NEW n \in WriteSizes, UdpWrite(s, n)
  PROVE  UdpInductive'
<1> DEFINE r == usock[s]
           new == [r EXCEPT !.call = "write", !.st = "WRITING", !.len = n]
<1>1. r \in SocketRecords /\ StateFits(r) /\ urequest \in BOOLEAN
  BY DEF UdpInductive, UdpTypeOK
<1>2. Sock(s, new) /\ UNCHANGED <<uconn, lastport, umain>> /\ urequest' \in BOOLEAN
  BY <1>1 DEF UdpWrite, UdpCall
<1>3. new \in SocketRecords
  BY <1>1, UdpAssumption DEF SocketRecords
<1>4. StateFits(new) /\ (InService(new) <=> InService(r))
  BY <1>1, UdpAssumption DEF UdpWrite, UdpCall, SocketRecords, StateFits, InService
<1> HIDE DEF new
<1> QED
  BY <1>2, <1>3, <1>4, TaskStep

\* netSockClose keeps the invariant up to its wait.
LEMMA CloseStep ==
  ASSUME UdpInductive, NEW s \in UdpSocks, UdpClose(s)
  PROVE  UdpInductive'
<1> DEFINE r == usock[s]
           new == [r EXCEPT !.call = "close", !.st = "CLOSE"]
<1>1. r \in SocketRecords /\ StateFits(r) /\ urequest \in BOOLEAN
  BY DEF UdpInductive, UdpTypeOK
<1>2. Sock(s, new) /\ UNCHANGED <<uconn, lastport, umain>> /\ urequest' \in BOOLEAN
  BY <1>1 DEF UdpClose, UdpCall
<1>3. new \in SocketRecords
  BY <1>1 DEF SocketRecords
<1>4. StateFits(new) /\ (InService(new) <=> InService(r))
  BY <1>1 DEF UdpClose, UdpCall, SocketRecords, StateFits, InService
<1> HIDE DEF new
<1> QED
  BY <1>2, <1>3, <1>4, TaskStep

\* A write that returns keeps the invariant.
LEMMA WriteEndStep ==
  ASSUME UdpInductive, NEW s \in UdpSocks, UdpWriteEnd(s)
  PROVE  UdpInductive'
<1> DEFINE r == usock[s]
           new == IF r.st = "WRITING" THEN [r EXCEPT !.wake = "wait"] ELSE Idle(s)
<1>1. r \in SocketRecords /\ StateFits(r) /\ urequest \in BOOLEAN
  BY DEF UdpInductive, UdpTypeOK
<1>2. Sock(s, new) /\ UNCHANGED <<uconn, lastport, umain>> /\ urequest' \in BOOLEAN
  BY <1>1 DEF UdpWriteEnd, OnlySock
<1>3. new \in SocketRecords
  BY <1>1 DEF Idle, SocketRecords
<1>4. StateFits(new) /\ (InService(new) <=> InService(r))
  BY <1>1 DEF UdpWriteEnd, Idle, SocketRecords, StateFits, InService
<1> HIDE DEF new
<1> QED
  BY <1>2, <1>3, <1>4, TaskStep

\* A close that returns keeps the invariant.
LEMMA CloseEndStep ==
  ASSUME UdpInductive, NEW s \in UdpSocks, UdpCloseEnd(s)
  PROVE  UdpInductive'
<1> DEFINE r == usock[s]
           new == IF r.st = "CLOSE" THEN [r EXCEPT !.wake = "wait"]
                  ELSE [r EXCEPT !.st = "NULL", !.call = "none", !.wake = "wait",
                                 !.uip = FALSE, !.api = FALSE]
<1>1. r \in SocketRecords /\ StateFits(r) /\ urequest \in BOOLEAN
  BY DEF UdpInductive, UdpTypeOK
<1>2. Sock(s, new) /\ UNCHANGED <<uconn, lastport, umain>> /\ urequest' \in BOOLEAN
  BY <1>1 DEF UdpCloseEnd, OnlySock
<1>3. new \in SocketRecords
  BY <1>1 DEF SocketRecords
<1>4. StateFits(new) /\ (InService(new) <=> InService(r))
  BY <1>1 DEF UdpCloseEnd, SocketRecords, StateFits, InService
<1> HIDE DEF new
<1> QED
  BY <1>2, <1>3, <1>4, TaskStep

-----------------------------------------------------------------------------
(* The main thread *)

\* Outside its wait for a reader, the main thread may be anywhere.
LEMMA PlacesKept ==
  ASSUME UNCHANGED uconn, umain' \in MainRecords, umain'.pc # "hold"
  PROVE  PlaceRight
BY DEF PlaceRight, MainRecords, UdpTable

\* So it is after it has served a datagram.
LEMMA InputDonePlace ==
  ASSUME UdpTypeOK, UNCHANGED uconn, InputDone
  PROVE  PlaceRight
<1>1. 1 \in UdpTable
  BY TableFacts
<1>2. umain' \in MainRecords /\ umain'.pc # "hold"
  BY <1>1 DEF InputDone, MainRecords
<1> QED
  BY <1>2, PlacesKept

\* The main thread wakes and keeps the invariant.
LEMMA WakeStep ==
  ASSUME UdpInductive, UdpWake
  PROVE  UdpInductive'
<1>1. urequest \in BOOLEAN
  BY DEF UdpInductive, UdpTypeOK
<1>2. umain' \in MainRecords /\ umain'.pc # "hold"
  BY <1>1 DEF UdpWake, MainRecords
<1> QED
  BY <1>1, <1>2, PlacesKept, MainOnly DEF UdpWake

\* It clears dataToSend and keeps the invariant.
LEMMA ClearRequestStep ==
  ASSUME UdpInductive, UdpClearRequest
  PROVE  UdpInductive'
<1>1. 1 \in UdpTable
  BY TableFacts DEF UdpInductive
<1>2. umain' \in MainRecords /\ umain'.pc # "hold"
  BY <1>1 DEF UdpClearRequest, MainRecords
<1> QED
  BY <1>2, PlacesKept, MainOnly DEF UdpClearRequest

\* The next connection of the loop, if it is not at its end
LEMMA PollPlace ==
  ASSUME UdpInductive, UdpPoll, UdpTable' = UdpTable
  PROVE  umain' \in MainRecords' /\ umain'.pc # "hold"
<1>1. umain \in [pc : {"send", "periodic"}, next : UdpTable]
  BY DEF UdpInductive, UdpTypeOK, UdpPoll, MainRecords
<1>2. MainRecords' = MainRecords
  BY DEF MainRecords
<1>3. CASE umain.next + 1 \in UdpTable
  <2>1. umain' = [umain EXCEPT !.next = umain.next + 1]
    BY <1>3 DEF UdpPoll
  <2>2. umain' \in [pc : {"send", "periodic"}, next : UdpTable]
    BY <1>1, <1>3, <2>1
  <2> QED
    BY <1>2, <2>2 DEF MainRecords
<1>4. CASE umain.next + 1 \notin UdpTable
  <2>1. umain' = [pc |-> "input"] \/ umain' = [pc |-> "wait"]
    BY <1>4 DEF UdpPoll
  <2> QED
    BY <1>2, <2>1 DEF MainRecords
<1> QED
  BY <1>3, <1>4

\* netUdpAppcallMutex answers a close: the socket and its connection part.
LEMMA ClosedStep ==
  ASSUME UdpInductive, NEW c \in UdpTable, NEW s \in UdpSocks, Serves(c, s),
         usock[s].st = "CLOSE", AppcallClosed(c, s), UNCHANGED <<lastport, urequest>>,
         umain' \in MainRecords', umain'.pc # "hold"
  PROVE  UdpInductive'
<1> USE DEF UdpInductive
<1> DEFINE new == [usock[s] EXCEPT !.st = "CLOSE_OK", !.uip = TRUE]
<1>1. /\ usock' = [usock EXCEPT ![s] = new] /\ usock \in [UdpSocks -> SocketRecords]
      /\ uconn' = [uconn EXCEPT ![c].lport = 0]
  BY DEF AppcallClosed, Sock, UdpTypeOK
<1>2. new \in SocketRecords /\ StateFits(new) /\ new.st = "CLOSE_OK"
  BY <1>1 DEF SocketRecords, StateFits
<1> HIDE DEF new
<1>3. /\ usock' \in [UdpSocks -> SocketRecords] /\ usock'[s] = new
      /\ \A t \in UdpSocks \ {s} : usock'[t] = usock[t]
  BY <1>1, <1>2
<1>4. PICK k \in UdpConnNbs : uconn \in [1 .. k -> Unused \cup InUse]
  BY DEF UdpTypeOK
<1>5. UdpTable = 1 .. k /\ UdpTable' = UdpTable
  BY <1>1, <1>4 DEF UdpTable
<1>6. uconn[c] \in InUse
  BY <1>4, <1>5 DEF Serves, Unused
<1>7. [uconn[c] EXCEPT !.lport = 0] \in InUse /\ [uconn[c] EXCEPT !.lport = 0].lport = 0
  BY <1>6 DEF InUse
<1>8. /\ uconn' \in [1 .. k -> Unused \cup InUse]
      /\ uconn'[c].lport = 0 /\ \A d \in UdpTable \ {c} : uconn'[d] = uconn[d]
  BY <1>1, <1>4, <1>5, <1>7
<1>9. UdpTypeOK'
  BY <1>3, <1>8 DEF UdpTypeOK
<1>10. (\A t \in UdpSocks : StateFits(usock[t]))'
  <2> SUFFICES ASSUME NEW t \in UdpSocks PROVE StateFits(usock'[t])
    BY DEF StateFits
  <2>1. CASE t = s
    BY <2>1, <1>2, <1>3
  <2>2. CASE t # s
    BY <2>2, <1>3
  <2> QED
    BY <2>1, <2>2
<1>11. OneConnection'
  <2>1. \A d \in UdpTable \ {c} : uconn[d].lport # 0 =>
          uconn[d].file \in UdpSocks /\ uconn[d].file # s
    <3> SUFFICES ASSUME NEW d \in UdpTable \ {c}, uconn[d].lport # 0
                 PROVE  uconn[d].file \in UdpSocks /\ uconn[d].file # s
      OBVIOUS
    <3>1. uconn[d].file \in UdpSocks
      BY <1>4, <1>5 DEF Unused, InUse
    <3> QED
      BY <3>1 DEF OneConnection, Serves
  <2>2. \A d \in UdpTable : uconn'[d].lport # 0 => InService(usock'[uconn'[d].file])
    BY <1>3, <1>8, <2>1 DEF OneConnection
  <2>3. \A t \in UdpSocks : InService(usock'[t]) =>
          \E d \in UdpTable : uconn'[d].lport # 0 /\ uconn'[d].file = t
    <3> SUFFICES ASSUME NEW t \in UdpSocks, InService(usock'[t])
                 PROVE  \E d \in UdpTable : uconn'[d].lport # 0 /\ uconn'[d].file = t
      OBVIOUS
    <3>1. t # s
      BY <1>2, <1>3 DEF InService
    <3>2. PICK d \in UdpTable : Serves(d, t)
      BY <1>3, <3>1 DEF OneConnection
    <3>3. d # c
      BY <3>1, <3>2 DEF Serves
    <3> QED
      BY <1>8, <3>2, <3>3 DEF Serves
  <2>4. \A t \in UdpSocks : \A d, e \in UdpTable :
          /\ uconn'[d].lport # 0 /\ uconn'[d].file = t
          /\ uconn'[e].lport # 0 /\ uconn'[e].file = t
          => d = e
    BY <1>8 DEF OneConnection, Serves
  <2> QED
    BY <1>5, <2>2, <2>3, <2>4 DEF OneConnection, Serves, InService
<1>12. HeldForSocket'
  BY DEF HeldForSocket
<1> QED
  BY <1>9, <1>10, <1>11, <1>12

\* It polls a connection and keeps the invariant.
LEMMA PollStep ==
  ASSUME UdpInductive, UdpPoll
  PROVE  UdpInductive'
<1> DEFINE c == umain.next
           s == uconn[c].file
<1>1. c \in UdpTable /\ UNCHANGED <<lastport, urequest>>
  BY DEF UdpInductive, UdpTypeOK, UdpPoll, MainRecords
<1>2. lastport \in PortLo .. PortHi /\ urequest \in BOOLEAN
  BY DEF UdpInductive, UdpTypeOK
<1>3. CASE UNCHANGED <<usock, uconn>>
  BY <1>1, <1>2, <1>3, PollPlace, PlacesKept, MainOnly DEF UdpTable, MainRecords
<1>4. CASE uconn[c].lport # 0 /\ UdpAppcallPoll(c, s)
  <2>1. Serves(c, s) /\ s \in UdpSocks
    BY <1>1, <1>4, TableFacts DEF UdpInductive, Unused, InUse, Serves
  <2>2. CASE usock[s].st = "CLOSE" /\ AppcallClosed(c, s)
    <3>1. UdpTable' = UdpTable
      BY <2>2 DEF AppcallClosed, UdpTable
    <3> QED
      BY <1>1, <2>1, <2>2, <3>1, PollPlace, ClosedStep
  <2>3. CASE /\ usock[s].st = "WRITING" /\ UNCHANGED uconn
             /\ Sock(s, [usock[s] EXCEPT !.st = "WRITE_OK", !.uip = TRUE,
                                         !.sent = @ + UdpOut(usock[s].len)])
    <3> DEFINE r == usock[s]
               new == [r EXCEPT !.st = "WRITE_OK", !.uip = TRUE, !.sent = @ + UdpOut(r.len)]
    <3>1. r \in SocketRecords /\ StateFits(r) /\ r.st = "WRITING"
      BY <2>1, <2>3 DEF UdpInductive, UdpTypeOK
    <3>2. UdpOut(r.len) \in Nat /\ UdpOut(r.len) = IF r.len = 0 THEN 0 ELSE 1
      BY <3>1 DEF UdpOut, SocketRecords
    <3>3. r.sent + UdpOut(r.len) \in Nat
      BY <3>1, <3>2 DEF SocketRecords
    <3>4. new \in SocketRecords
      BY <3>1, <3>3 DEF SocketRecords
    <3>5. r.call = "write" /\ r.sent = 0
      BY <3>1 DEF StateFits, SocketRecords
    <3>6. StateFits(new) /\ InService(new) /\ InService(r)
      BY <3>1, <3>2, <3>5 DEF StateFits, InService, SocketRecords
    <3>7. Sock(s, new)
      BY <2>3
    <3> HIDE DEF new
    <3>8. PlaceRight
      BY <2>3, PollPlace, PlacesKept DEF UdpTable, MainRecords
    <3> QED
      BY <1>1, <1>2, <2>1, <2>3, <3>4, <3>6, <3>7, <3>8, OneSocket
  <2>4. CASE UNCHANGED <<usock, uconn>>
    BY <1>3, <2>4
  <2> QED
    BY <1>4, <2>2, <2>3, <2>4 DEF UdpAppcallPoll
<1> QED
  BY <1>3, <1>4 DEF UdpPoll

\* The close of a UDP socket that stops the program keeps the invariant.
LEMMA FaultStep ==
  ASSUME UdpInductive, UdpFault
  PROVE  UdpInductive'
<1>1. urequest \in BOOLEAN
  BY DEF UdpInductive, UdpTypeOK
<1>2. umain' \in MainRecords /\ umain'.pc # "hold"
  BY DEF UdpFault, MainRecords
<1> QED
  BY <1>1, <1>2, PlacesKept, MainOnly DEF UdpFault

\* A reader that is answered
LEMMA Answered ==
  ASSUME UdpTypeOK, NEW s \in UdpSocks, NEW d \in Datagrams, StateFits(usock[s]),
         usock[s].st = "READING"
  PROVE  /\ AnsweredBy(s, d) \in SocketRecords
         /\ StateFits(AnsweredBy(s, d)) /\ InService(AnsweredBy(s, d)) /\ InService(usock[s])
<1> DEFINE r == usock[s]
           n == IF d.size > r.max THEN r.max ELSE d.size
<1>1. r \in SocketRecords /\ d.size \in Nat
  BY UdpAssumption DEF UdpTypeOK, Datagrams
<1>2. n \in Nat /\ n <= r.max /\ r.call = "read" /\ r.owed = 0
  BY <1>1 DEF SocketRecords, StateFits
<1> DEFINE new == [r EXCEPT !.st = "READ_OK", !.uip = TRUE, !.owed = @ + 1, !.len = n]
<1>3. AnsweredBy(s, d) = new
  BY DEF AnsweredBy
<1> HIDE DEF n
<1>4. new \in SocketRecords
  <2>1. r.owed + 1 \in Nat
    BY <1>2
  <2> HIDE DEF r
  <2>2. [r EXCEPT !.st = "READ_OK", !.uip = TRUE, !.owed = r.owed + 1, !.len = n] \in SocketRecords
    BY <1>1, <1>2, <2>1 DEF SocketRecords
  <2> QED
    BY <2>2
<1>5. /\ new.st = "READ_OK" /\ new.call = "read" /\ new.owed = 1 /\ new.len = n
      /\ new.max = r.max
  BY <1>1, <1>2 DEF SocketRecords
<1> HIDE DEF new
<1>6. StateFits(new) /\ InService(new) /\ InService(r)
  BY <1>2, <1>5 DEF StateFits, InService
<1> QED
  BY <1>3, <1>4, <1>6

\* A datagram that comes keeps the invariant.
LEMMA InputStep ==
  ASSUME UdpInductive, UdpInput
  PROVE  UdpInductive'
<1> USE DEF UdpInductive
<1>1. /\ UNCHANGED <<uconn, lastport, urequest>> /\ lastport \in PortLo .. PortHi
      /\ urequest \in BOOLEAN
  BY DEF UdpInput, UdpTypeOK
<1>2. CASE InputDone /\ UNCHANGED usock
  BY <1>1, <1>2, InputDonePlace, MainOnly
<1>3. ASSUME NEW to \in PortLo .. PortHi, NEW from \in Sources, NEW n \in DatagramSizes,
             LET d == [to |-> to, from |-> from, size |-> n]
                 s == uconn[Min(Takers(d))].file
             IN IF Takers(d) = {} THEN InputDone /\ UNCHANGED usock
                ELSE IF usock[s].st = "READING" THEN Sock(s, AnsweredBy(s, d)) /\ InputDone
                ELSE umain' = [pc |-> "hold", s |-> s, d |-> d] /\ UNCHANGED usock
      PROVE  UdpInductive'
  <2> DEFINE d == [to |-> to, from |-> from, size |-> n]
             s == uconn[Min(Takers(d))].file
  <2>1. d \in Datagrams
    BY DEF Datagrams
  <2>2. CASE Takers(d) = {}
    BY <1>2, <1>3, <2>2
  <2>3. CASE Takers(d) # {} /\ usock[s].st = "READING"
    <3>1. s \in UdpSocks
      BY <2>1, <2>3, FirstTaker
    <3>2. Sock(s, AnsweredBy(s, d)) /\ InputDone
      BY <1>3, <2>3
    <3> HIDE DEF s, d
    <3> QED
      BY <1>1, <2>1, <2>3, <3>1, <3>2, Answered, InputDonePlace, OneSocket
  <2>4. CASE Takers(d) # {} /\ usock[s].st # "READING"
    <3>1. /\ s \in UdpSocks /\ Min(Takers(d)) \in Takers(d)
      BY <2>1, <2>4, FirstTaker
    <3>2. umain' = [pc |-> "hold", s |-> s, d |-> d] /\ UNCHANGED usock
      BY <1>3, <2>4
    <3>3. \E c \in Takers(d) : uconn[c].file = s
      BY <3>1
    <3> HIDE DEF s, d
    <3>4. umain'.d = d /\ umain'.s = s /\ umain' \in MainRecords
      BY <2>1, <3>1, <3>2 DEF MainRecords
    <3>5. PlaceRight
      BY <1>1, <3>3, <3>4 DEF PlaceRight, MainRecords, UdpTable
    <3> QED
      BY <1>1, <3>2, <3>5, MainOnly
  <2> QED
    BY <2>2, <2>3, <2>4
<1> QED
  BY <1>2, <1>3 DEF UdpInput

\* A reader that comes in time keeps the invariant.
LEMMA HoldFlagStep ==
  ASSUME UdpInductive, UdpHoldFlag
  PROVE  UdpInductive'
<1> USE DEF UdpInductive
<1> DEFINE s == umain.s
           d == umain.d
           r == usock[s]
<1>1. /\ UNCHANGED <<uconn, lastport, urequest>> /\ lastport \in PortLo .. PortHi
      /\ urequest \in BOOLEAN
  BY DEF UdpHoldFlag, UdpTypeOK
<1>2. s \in UdpSocks /\ d \in Datagrams /\ r \in SocketRecords /\ StateFits(r)
  <2>1. umain \in [pc : {"hold"}, s : UdpSocks, d : Datagrams]
    BY DEF UdpTypeOK, MainRecords, UdpHoldFlag
  <2> QED
    BY <2>1 DEF UdpTypeOK
<1>3. CASE r.st = "READING"
  <2> DEFINE a == AnsweredBy(s, d)
             new == [a EXCEPT !.api = FALSE]
  <2>1. a \in SocketRecords /\ StateFits(a) /\ InService(a) /\ InService(r)
    BY <1>2, <1>3, Answered
  <2>2. Sock(s, new) /\ InputDone
    BY <1>3 DEF UdpHoldFlag
  <2> HIDE DEF a
  <2>3. new \in SocketRecords /\ StateFits(new) /\ InService(new)
    BY <2>1 DEF SocketRecords, StateFits, InService
  <2> HIDE DEF new, s
  <2> QED
    BY <1>1, <1>2, <2>1, <2>2, <2>3, InputDonePlace, OneSocket
<1>4. CASE r.st # "READING"
  <2> DEFINE new == [r EXCEPT !.api = FALSE]
  <2>1. Sock(s, new) /\ UNCHANGED umain
    BY <1>4 DEF UdpHoldFlag
  <2>2. /\ new \in SocketRecords /\ StateFits(new)
        /\ InService(new) <=> InService(r)
    BY <1>2 DEF SocketRecords, StateFits, InService
  <2> HIDE DEF new, s
  <2> QED
    BY <1>1, <1>2, <2>1, <2>2, PlaceKept, OneSocket
<1> QED
  BY <1>3, <1>4

\* So does one that does not.
LEMMA HoldTimeoutStep ==
  ASSUME UdpInductive, UdpHoldTimeout
  PROVE  UdpInductive'
BY InputDonePlace, MainOnly DEF UdpInductive, UdpTypeOK, UdpHoldTimeout

-----------------------------------------------------------------------------
(* New sockets *)

\* netSockConnect: a socket and a connection come into service together.
LEMMA ConnectStep ==
  ASSUME UdpInductive, NEW s \in UdpSocks, NEW r \in Remotes, NEW p \in BindPorts,
         usock[s].st = "free", umain.pc = "wait", UNCHANGED <<umain, urequest>>,
         UdpConnect(s, r, p)
  PROVE  UdpInductive'
<1> USE DEF UdpInductive
<1> DEFINE c == Min(FreeConns)
           port == IF p = 0 THEN NextPort ELSE p
           entry == [lport |-> port, remote |-> r, file |-> s]
           new == Idle(s)
<1>1. /\ lastport' = NextPort /\ uconn' = [uconn EXCEPT ![c] = entry]
      /\ usock' = [usock EXCEPT ![s] = new]
  BY DEF UdpConnect, Sock
<1>2. c \in UdpTable /\ uconn[c].lport = 0
  BY FirstFree DEF UdpConnect
<1>3. lastport' \in PortLo .. PortHi /\ port \in Nat /\ port # 0
  <2>1. p \in Nat
    BY UdpAssumption
  <2> QED
    BY <1>1, <2>1, PortFound, UdpAssumption
<1>4. usock \in [UdpSocks -> SocketRecords] /\ StateFits(usock[s])
  BY DEF UdpTypeOK
<1>5. new \in SocketRecords /\ StateFits(new) /\ InService(new)
  BY <1>4 DEF Idle, SocketRecords, StateFits, InService
<1>6. PICK k \in UdpConnNbs : uconn \in [1 .. k -> Unused \cup InUse]
  BY DEF UdpTypeOK
<1>7. UdpTable = 1 .. k /\ UdpTable' = UdpTable
  BY <1>1, <1>6 DEF UdpTable
<1>8. \A d \in UdpTable : uconn[d].lport # 0 => uconn[d].file \in UdpSocks /\ uconn[d].file # s
  <2> SUFFICES ASSUME NEW d \in UdpTable, uconn[d].lport # 0
               PROVE  uconn[d].file \in UdpSocks /\ uconn[d].file # s
    OBVIOUS
  <2>1. uconn[d].file \in UdpSocks /\ InService(usock[uconn[d].file])
    BY TableFacts DEF OneConnection, Unused, InUse
  <2> QED
    BY <2>1 DEF InService
<1> HIDE DEF c, port, new
<1>9. entry \in InUse /\ entry.lport # 0 /\ entry.file = s
  BY <1>3 DEF InUse
<1> HIDE DEF entry
<1>10. /\ usock' \in [UdpSocks -> SocketRecords] /\ usock'[s] = new
       /\ \A t \in UdpSocks \ {s} : usock'[t] = usock[t]
  BY <1>1, <1>4, <1>5
<1>11. /\ uconn' \in [1 .. k -> Unused \cup InUse] /\ uconn'[c] = entry
       /\ \A d \in UdpTable \ {c} : uconn'[d] = uconn[d]
  BY <1>1, <1>2, <1>6, <1>7, <1>9
<1>12. UdpTypeOK'
  <2>1. MainRecords' = MainRecords
    BY <1>7 DEF MainRecords
  <2> QED
    BY <1>3, <1>10, <1>11, <2>1 DEF UdpTypeOK
<1>13. (\A t \in UdpSocks : StateFits(usock[t]))'
  <2> SUFFICES ASSUME NEW t \in UdpSocks PROVE StateFits(usock'[t])
    BY DEF StateFits
  <2>1. CASE t = s
    BY <2>1, <1>5, <1>10
  <2>2. CASE t # s
    BY <2>2, <1>10
  <2> QED
    BY <2>1, <2>2
<1>14. OneConnection'
  <2>1. \A d \in UdpTable : uconn'[d].lport # 0 => InService(usock'[uconn'[d].file])
    <3> SUFFICES ASSUME NEW d \in UdpTable, uconn'[d].lport # 0
                 PROVE  InService(usock'[uconn'[d].file])
      OBVIOUS
    <3>1. CASE d = c
      BY <3>1, <1>5, <1>9, <1>10, <1>11
    <3>2. CASE d # c
      BY <3>2, <1>8, <1>10, <1>11 DEF OneConnection
    <3> QED
      BY <3>1, <3>2
  <2>2. \A t \in UdpSocks : InService(usock'[t]) =>
          \E d \in UdpTable : uconn'[d].lport # 0 /\ uconn'[d].file = t
    <3> SUFFICES ASSUME NEW t \in UdpSocks, InService(usock'[t])
                 PROVE  \E d \in UdpTable : uconn'[d].lport # 0 /\ uconn'[d].file = t
      OBVIOUS
    <3>1. CASE t = s
      BY <3>1, <1>2, <1>9, <1>11
    <3>2. CASE t # s
      <4>1. PICK d \in UdpTable : Serves(d, t)
        BY <3>2, <1>10 DEF OneConnection
      <4>2. d # c
        BY <4>1, <1>2 DEF Serves
      <4> QED
        BY <4>1, <4>2, <1>11 DEF Serves
    <3> QED
      BY <3>1, <3>2
  <2>3. \A t \in UdpSocks : \A d, e \in UdpTable :
          /\ uconn'[d].lport # 0 /\ uconn'[d].file = t
          /\ uconn'[e].lport # 0 /\ uconn'[e].file = t
          => d = e
    <3> SUFFICES ASSUME NEW t \in UdpSocks, NEW d \in UdpTable, NEW e \in UdpTable,
                        uconn'[d].lport # 0, uconn'[d].file = t,
                        uconn'[e].lport # 0, uconn'[e].file = t, d # e
                 PROVE  FALSE
      OBVIOUS
    <3>1. CASE d # c /\ e # c
      BY <3>1, <1>11 DEF OneConnection, Serves
    <3>2. CASE d = c
      BY <3>2, <1>8, <1>9, <1>11
    <3>3. CASE e = c
      BY <3>3, <1>8, <1>9, <1>11
    <3> QED
      BY <3>1, <3>2, <3>3
  <2> QED
    BY <1>7, <2>1, <2>2, <2>3 DEF OneConnection, Serves, InService
<1>15. HeldForSocket'
  BY DEF HeldForSocket
<1> QED
  BY <1>12, <1>13, <1>14, <1>15

\* netSockCreateUDP keeps the invariant: lastport passes every port in use.
LEMMA CreateStep ==
  ASSUME UdpInductive, NEW s \in UdpSocks, NEW r \in Remotes, NEW p \in BindPorts,
         CreateUDP(s, r, p)
  PROVE  UdpInductive'
<1>1. usock[s].st = "free" /\ umain.pc = "wait" /\ UNCHANGED <<umain, urequest>>
  BY DEF CreateUDP
<1>2. CASE UdpConnect(s, r, p)
  BY <1>1, <1>2, ConnectStep
<1>3. CASE UdpConnectFails(s)
  <2> DEFINE new == [usock[s] EXCEPT !.st = "NULL"]
  <2>1. usock[s] \in SocketRecords /\ StateFits(usock[s])
    BY DEF UdpInductive, UdpTypeOK
  <2>2. new \in SocketRecords /\ StateFits(new) /\ ~InService(new) /\ ~InService(usock[s])
    BY <1>1, <2>1 DEF SocketRecords, StateFits, InService
  <2>3. /\ Sock(s, new) /\ UNCHANGED uconn /\ lastport' \in PortLo .. PortHi
        /\ urequest' \in BOOLEAN
    BY <1>1, <1>3, PortFound DEF UdpConnectFails, UdpInductive, UdpTypeOK
  <2> HIDE DEF new
  <2> QED
    BY <1>1, <2>2, <2>3, PlaceKept, OneSocket
<1> QED
  BY <1>2, <1>3 DEF CreateUDP

-----------------------------------------------------------------------------
(* The results *)

\* Every step keeps the invariant.
LEMMA UdpStep ==
  ASSUME UdpInductive, [UdpNext]_udpvars
  PROVE  UdpInductive'
<1>1. CASE UdpMain
  BY <1>1, WakeStep, ClearRequestStep, PollStep, InputStep, HoldFlagStep, HoldTimeoutStep
  DEF UdpMain
<1>2. CASE UdpFault
  BY <1>2, FaultStep
<1>3. ASSUME NEW s \in UdpSocks, UdpTask(s) \/ UdpTimeout(s) \/ UdpClose(s)
      PROVE  UdpInductive'
  BY <1>3, FlagGetStep, ReadEndStep, WriteEndStep, CloseEndStep, TimeoutStep, CloseStep
  DEF UdpTask
<1>4. ASSUME NEW s \in UdpSocks, NEW r \in Remotes, NEW p \in BindPorts, CreateUDP(s, r, p)
      PROVE  UdpInductive'
  BY <1>4, CreateStep
<1>5. ASSUME NEW s \in UdpSocks, NEW m \in ReadSizes, NEW state \in ReadStates,
             UdpRead(s, state, m)
      PROVE  UdpInductive'
  BY <1>5, ReadStep
<1>6. ASSUME NEW s \in UdpSocks, NEW n \in WriteSizes, UdpWrite(s, n)
      PROVE  UdpInductive'
  BY <1>6, WriteStep
<1>7. CASE UNCHANGED udpvars
  BY <1>7, PlaceKept, MainOnly DEF udpvars, UdpInductive, UdpTypeOK
<1> QED
  BY <1>1, <1>2, <1>3, <1>4, <1>5, <1>6, <1>7 DEF UdpNext

\* UdpPaired counts what OneConnection says of single connections.
LEMMA PairedWhenInductive ==
  ASSUME UdpInductive
  PROVE  UdpPaired
<1> USE DEF UdpInductive
<1> SUFFICES ASSUME NEW s \in UdpSocks
             PROVE  Cardinality({c \in UdpTable : uconn[c].lport # 0 /\ uconn[c].file = s})
                      = IF usock[s].st \in {"free", "NULL", "CLOSE_OK"} THEN 0 ELSE 1
  BY DEF UdpPaired
<1> DEFINE C == {c \in UdpTable : uconn[c].lport # 0 /\ uconn[c].file = s}
<1>1. CASE InService(usock[s])
  <2>1. PICK c \in UdpTable : Serves(c, s)
    BY <1>1 DEF OneConnection
  <2>2. C = {c}
    BY <2>1 DEF OneConnection, Serves
  <2>3. Cardinality({c}) = 1
    BY FS_Singleton
  <2> QED
    BY <1>1, <2>2, <2>3 DEF InService
<1>2. CASE ~InService(usock[s])
  <2>1. C = {}
    BY <1>2 DEF OneConnection
  <2>2. Cardinality({}) = 0
    BY FS_EmptySet
  <2> QED
    BY <1>2, <2>1, <2>2 DEF InService
<1> QED
  BY <1>1, <1>2

\* A UDP socket in service has one connection, however those of others are used again; a
\* datagram taken for a reader is what this read returns, and a write is sent once before
\* it returns (netSockConnect, sockReadInternal, sockWrite, netUdpAppcallMutex).
THEOREM UdpRightAlways == UdpSpec => []UdpRight
<1>1. UdpInit => UdpInductive
  BY UdpInitial
<1>2. UdpInductive /\ [UdpNext]_udpvars => UdpInductive'
  BY UdpStep
<1>3. UdpInductive => UdpRight
  <2> SUFFICES ASSUME UdpInductive PROVE UdpRight
    OBVIOUS
  <2>1. UdpAnswered /\ UdpSentOnce
    BY DEF UdpInductive, HeldForSocket, UdpAnswered, UdpSentOnce, StateFits
  <2> QED
    BY <2>1, PairedWhenInductive DEF UdpRight
<1> QED
  BY <1>1, <1>2, <1>3, PTL DEF UdpSpec
=============================================================================
