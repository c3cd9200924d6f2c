------------------------------ MODULE MCSockets ------------------------------
(***************************************************************************)
(* TCP and UDP sockets under a fair scheduler, each of them alone: the     *)
(* initial state chooses, and only the actions of the one are taken.       *)
(***************************************************************************)
EXTENDS MCNetSock, NetUdp

VARIABLE part

svars == <<part, vars, udpvars>>

MCRemotes == {[ip |-> "a", port |-> 0]}
MCSources == {[ip |-> "a", port |-> 1], [ip |-> "b", port |-> 1]}

\* A program that has stopped at the store through NULL stays so.
UdpStopped == umain.pc = "fault" /\ UNCHANGED udpvars

SocketsInit == part \in {"tcp", "udp"} /\ Init /\ UdpInit

SocketsNext ==
  /\ UNCHANGED part
  /\ \/ part = "tcp" /\ Next /\ UNCHANGED udpvars
     \/ part = "udp" /\ (UdpNext \/ UdpStopped) /\ UNCHANGED vars

\* Fairness of NetSockInv and UdpFairness of NetUdp
SocketsFairness ==
  /\ WF_vars(part = "tcp" /\ Main) /\ SF_vars(part = "tcp" /\ PeriodicTick)
  /\ \A c \in Conns : SF_vars(part = "tcp" /\ ci = c /\ (TimerRexmit \/ TimerExpire))
  /\ \A s \in Socks : SF_vars(part = "tcp" /\ GetsOn(s))
  /\ WF_udpvars(part = "udp" /\ UdpMain)
  /\ SF_udpvars(part = "udp" /\ UdpInput /\ umain'.pc = "periodic")
  /\ \A s \in UdpSocks : WF_udpvars(part = "udp" /\ UdpTask(s))

SocketsSpec == SocketsInit /\ [][SocketsNext]_svars /\ SocketsFairness
=============================================================================
