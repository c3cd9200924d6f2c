---------------------------- MODULE SockHandshake ----------------------------
(***************************************************************************)
(* What the socket layer promises its callers, as a rendezvous between the *)
(* task of a socket and the network thread: the task asks, the network     *)
(* answers, the task takes the answer before it asks again.  A socket in   *)
(* service is linked to one connection, no two sockets to the same one,    *)
(* and it keeps that connection until the network breaks the link, for     *)
(* good.  So whoever waits for an answer has a connection to wait for.     *)
(***************************************************************************)
CONSTANTS Socks, Conns, None

VARIABLES
  phase,   \* where the rendezvous of a socket is
  link     \* the connection of a socket

vars == <<phase, link>>

Phases == {"absent", "ready", "asked", "answered", "broken"}
Linked == {"ready", "asked", "answered"}

Init ==
  /\ phase = [s \in Socks |-> "absent"]
  /\ link = [s \in Socks |-> None]

Become(s, p) == phase' = [phase EXCEPT ![s] = p]

\* An accepted socket is ready; one that connects is waiting for the peer.
Open(s, c) ==
  /\ phase[s] = "absent" /\ \A t \in Socks : link[t] # c
  /\ Become(s, "ready") \/ Become(s, "asked")
  /\ link' = [link EXCEPT ![s] = c]

Ask(s) == phase[s] = "ready" /\ Become(s, "asked") /\ UNCHANGED link

Answer(s) == phase[s] = "asked" /\ Become(s, "answered") /\ UNCHANGED link

Take(s) == phase[s] = "answered" /\ Become(s, "ready") /\ UNCHANGED link

\* A read that times out
Withdraw(s) == phase[s] = "asked" /\ Become(s, "ready") /\ UNCHANGED link

\* The peer or uIP ends the connection, or the close that was asked for is done.
Break(s) ==
  /\ phase[s] \in Linked /\ Become(s, "broken")
  /\ link' = [link EXCEPT ![s] = None]

Release(s) == phase[s] = "broken" /\ Become(s, "absent") /\ UNCHANGED link

Next == \E s \in Socks :
  \/ \E c \in Conns : Open(s, c)
  \/ Ask(s) \/ Answer(s) \/ Take(s) \/ Withdraw(s) \/ Break(s) \/ Release(s)

Spec == Init /\ [][Next]_vars
=============================================================================
