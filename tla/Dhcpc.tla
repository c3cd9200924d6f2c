------------------------------- MODULE Dhcpc -------------------------------
(***************************************************************************)
(* dhcpTask of dhcpc.c in several hosts, with one server of one address.   *)
(* Time is in seconds: it passes while all tasks wait, and messages are on *)
(* their way for at most MaxDelay.  The network may lose them.  The server *)
(* is not part of this code: it offers the address while nobody has it,    *)
(* and grants it from when it answers a request.                           *)
(***************************************************************************)
EXTENDS Naturals, FiniteSets

CONSTANTS
  Clients,
  XidMod,       \* xid is a number modulo XidMod
  DiscoverMax,  \* the wait that is doubled no more (60)
  RequestMax,   \* the wait after which a client starts again (10)
  Lease,        \* the lease time of the server, in seconds
  MaxDelay      \* how long a message may be under way

ASSUME DhcpAssumption ==
  /\ XidMod \in Nat \ {0} /\ DiscoverMax \in Nat \ {0} /\ RequestMax \in Nat \ {0}
  /\ Lease \in Nat \ {0} /\ MaxDelay \in Nat

VARIABLES
  task,    \* of a client: where dhcpTask is (in readResponse for "discover", "request" or
           \* "renew", or in its "sleep"), and its xid, wait and leaseLeft
  left,    \* seconds until its sleep or readResponse is over
  set,     \* dhcpc_configured has been called, and dhcpc_unconfigured has not since
  lease,   \* for how long the server has given the address to a client
  mail     \* messages, each with the seconds it may still be under way

dhcpvars == <<task, left, set, lease, mail>>

Message(c, type, xid) == [c |-> c, type |-> type, xid |-> xid, ttl |-> MaxDelay]

-----------------------------------------------------------------------------
(* dhcpTask: each definition sends a message and waits, or sleeps. *)

At(c, t, secs) ==
  /\ task' = [task EXCEPT ![c] = t]
  /\ left' = [left EXCEPT ![c] = secs]

\* init: a new xid; send_discover and readResponse(DHCPOFFER, 1)
Fresh(t) == [pc |-> "discover", xid |-> (t.xid + 1) % XidMod, wait |-> 1, rest |-> 0]
ToInit(c) ==
  LET t == Fresh(task[c])
  IN At(c, t, 1) /\ mail' = mail \cup {Message(c, "discover", t.xid)}

DhcpInit ==
  /\ task = [c \in Clients |-> Fresh([xid |-> 0])]
  /\ left = [c \in Clients |-> 1]
  /\ set = [c \in Clients |-> FALSE]
  /\ lease = [c \in Clients |-> 0]
  /\ mail = {Message(c, "discover", task[c].xid) : c \in Clients}

\* No DHCPOFFER: once more, with twice the wait
DiscoverAgain(c) ==
  /\ task[c].pc = "discover" /\ left[c] = 0
  /\ LET w == IF task[c].wait < DiscoverMax THEN 2 * task[c].wait ELSE task[c].wait
     IN At(c, [task[c] EXCEPT !.wait = w], w)
  /\ mail' = mail \cup {Message(c, "discover", task[c].xid)}
  /\ UNCHANGED <<set, lease>>

\* A DHCPOFFER for this xid: selecting, with another xid
Offered(c, m) ==
  /\ task[c].pc = "discover" /\ m.type = "offer" /\ m.c = c /\ m.xid = task[c].xid
  /\ LET xid == (task[c].xid + 1) % XidMod
     IN /\ At(c, [pc |-> "request", xid |-> xid, wait |-> 1, rest |-> 0], 1)
        /\ mail' = (mail \ {m}) \cup {Message(c, "request", xid)}
  /\ UNCHANGED <<set, lease>>

\* No DHCPACK: once more with a longer wait, in the end from the start
RequestAgain(c) ==
  /\ task[c].pc = "request" /\ left[c] = 0
  /\ IF task[c].wait < RequestMax
       THEN /\ At(c, [task[c] EXCEPT !.wait = @ + 1], task[c].wait + 1)
            /\ mail' = mail \cup {Message(c, "request", task[c].xid)}
       ELSE ToInit(c)
  /\ UNCHANGED <<set, lease>>

\* A DHCPACK for this xid: configured, and asleep for half of the lease
Bound(c, m) ==
  /\ task[c].pc \in {"request", "renew"} /\ m.type = "ack" /\ m.c = c /\ m.xid = task[c].xid
  /\ At(c, [task[c] EXCEPT !.pc = "sleep", !.wait = 0, !.rest = 0], Lease \div 2)
  /\ set' = [set EXCEPT ![c] = TRUE]
  /\ mail' = mail \ {m}
  /\ UNCHANGED lease

\* Wrong: the half that has been slept is not taken off.
RestWhole == Lease

\* What is left of the lease after half of it
Rest == Lease \div 2

\* renewing: another xid, and half of what is left to wait for the answer
Renew(c) ==
  /\ task[c].pc = "sleep" /\ left[c] = 0
  /\ LET xid == (task[c].xid + 1) % XidMod
         w == Rest \div 2
     IN /\ At(c, [pc |-> "renew", xid |-> xid, wait |-> w, rest |-> Rest], w)
        /\ mail' = mail \cup {Message(c, "request", xid)}
  /\ UNCHANGED <<set, lease>>

\* No DHCPACK: once more, or lease_expired
RenewAgain(c) ==
  LET t == task[c]
      rest == t.rest - t.wait
      w == rest \div 2
  IN /\ t.pc = "renew" /\ left[c] = 0
     /\ IF rest > 3
          THEN /\ At(c, [t EXCEPT !.wait = w, !.rest = rest], w)
               /\ mail' = mail \cup {Message(c, "request", t.xid)}
               /\ UNCHANGED set
          ELSE ToInit(c) /\ set' = [set EXCEPT ![c] = FALSE]
     /\ UNCHANGED lease

\* msg_for_me takes nothing but the answer that is waited for.
Ignored(c, m) ==
  /\ m.c = c /\ m.type \in {"offer", "ack"}
  /\ ~(task[c].pc = "discover" /\ m.type = "offer" /\ m.xid = task[c].xid)
  /\ ~(task[c].pc \in {"request", "renew"} /\ m.type = "ack" /\ m.xid = task[c].xid)
  /\ mail' = mail \ {m}
  /\ UNCHANGED <<task, left, set, lease>>

-----------------------------------------------------------------------------
(* The server, the network and the time *)

Free(c) == \A d \in Clients \ {c} : lease[d] = 0

Offer(m) ==
  /\ m.type = "discover"
  /\ mail' = (mail \ {m}) \cup IF Free(m.c) THEN {Message(m.c, "offer", m.xid)} ELSE {}
  /\ UNCHANGED <<task, left, set, lease>>

Grant(m) ==
  /\ m.type = "request" /\ Free(m.c)
  /\ lease' = [lease EXCEPT ![m.c] = Lease]
  /\ mail' = (mail \ {m}) \cup {Message(m.c, "ack", m.xid)}
  /\ UNCHANGED <<task, left, set>>

\* Also a request that the server refuses: its DHCPNAK is not looked at.
LoseMail(m) == mail' = mail \ {m} /\ UNCHANGED <<task, left, set, lease>>

\* A second, when no task is ready and no message has used up its time
Second ==
  LET less(k) == IF k = 0 THEN 0 ELSE k - 1
  IN /\ \A c \in Clients : left[c] > 0
     /\ \A m \in mail : m.ttl > 0
     /\ left' = [c \in Clients |-> left[c] - 1]
     /\ lease' = [c \in Clients |-> less(lease[c])]
     /\ mail' = {[m EXCEPT !.ttl = @ - 1] : m \in mail}
     /\ UNCHANGED <<task, set>>

DhcpNext ==
  \/ Second
  \/ \E c \in Clients :
       \/ DiscoverAgain(c) \/ RequestAgain(c) \/ Renew(c) \/ RenewAgain(c)
       \/ \E m \in mail : Offered(c, m) \/ Bound(c, m) \/ Ignored(c, m)
  \/ \E m \in mail : Offer(m) \/ Grant(m) \/ LoseMail(m)

DhcpSpec == DhcpInit /\ [][DhcpNext]_dhcpvars

-----------------------------------------------------------------------------
(* Properties *)

\* A host uses the address only while the server has given it to this host and to no
\* other, over lost and late answers, retries and renewals: dhcpTask gives it up in
\* time, as long as answers are less late than what it keeps in hand at the end.
LeaseKept ==
  \A c \in Clients : set[c] => lease[c] > 0 /\ \A d \in Clients \ {c} : ~set[d]
=============================================================================
