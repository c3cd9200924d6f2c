------------------------------ MODULE TcpStream ------------------------------
(***************************************************************************)
(* What a TCP connection promises the two sockets at its ends: each        *)
(* receives the bytes the other writes, in order and none twice, a write   *)
(* is confirmed only for bytes that the other end has received or has      *)
(* given up, and end of file means that all that was written has come.     *)
(* Either end may break at any time.                                       *)
(***************************************************************************)
EXTENDS Naturals

CONSTANTS Nodes, Peer(_)

VARIABLES
  want,   \* how many bytes an end has asked to write so far
  done,   \* how many of them are confirmed
  got,    \* how many bytes an end has received
  up      \* whether an end is open, or how it ended

vars == <<want, done, got, up>>

Init ==
  /\ want = [n \in Nodes |-> 0] /\ done = want /\ got = want
  /\ up = [n \in Nodes |-> "open"]

Write(n) ==
  /\ up[n] = "open" /\ done[n] = want[n]
  /\ want' = [want EXCEPT ![n] = want'[n]] /\ want'[n] > want[n]
  /\ UNCHANGED <<done, got, up>>

\* A segment confirms bytes, delivers bytes, or both; its end may break by it, and
\* comes to the end of file with it when nothing the other end wrote is missing.
Serve(n) ==
  /\ up[n] = "open"
  /\ \E d \in done[n] .. want[n] :
       /\ d # done[n] => d <= got[Peer(n)] \/ up[Peer(n)] # "open"
       /\ done' = [done EXCEPT ![n] = d]
  /\ \E g \in got[n] .. want[Peer(n)] : got' = [got EXCEPT ![n] = g]
  /\ \E u \in {"open", "broken", "eof"} :
       /\ u = "eof" => up[Peer(n)] = "closed" /\ got'[n] = want[Peer(n)]
       /\ up' = [up EXCEPT ![n] = u]
  /\ UNCHANGED want

Close(n) ==
  /\ up[n] = "open" /\ done[n] = want[n]
  /\ up' = [up EXCEPT ![n] = "closed"]
  /\ UNCHANGED <<want, done, got>>

Next == \E n \in Nodes : Write(n) \/ Serve(n) \/ Close(n)

Spec == Init /\ [][Next]_vars
=============================================================================
