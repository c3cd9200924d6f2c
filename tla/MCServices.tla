----------------------------- MODULE MCServices -----------------------------
(***************************************************************************)
(* The parts below and beside TCP, each of them alone: the initial state   *)
(* chooses one of Parts, and only its actions are taken.                   *)
(***************************************************************************)
EXTENDS MCIp6, UipArp, Dhcpc, Etimer, Drivers, NetUdp, NameServer

CONSTANTS m1, m2, m3, c1, c2, t1, t2, d1, d2, d3

CONSTANT Parts  \* of "ip6", "arp", "dhcp", "timers", "emac", "hdlc", "enc", "udp", "ns"

VARIABLE part

MCHeaders == {<<PPP_ETHERNET>>, <<PPP_ALLSTATIONS, PPP_UI, PPP_ETHERNET>>, <<Octet("debug")>>}
MCRemotes == {[ip |-> x, port |-> 1], [ip |-> "any", port |-> 0]}
MCSources == {[ip |-> x, port |-> 1], [ip |-> q, port |-> 2]}
MCDatas == {<<PPP_FLAG>>, <<Octet("d"), PPP_ESCAPE>>}

drivervars == <<emacvars, hdlcvars, encvars>>
smallvars == <<etvars, nsvars, drivervars>>
svars == <<part, vars, arpvars, dhcpvars, smallvars, udpvars>>

\* UDP sockets have tables of UdpConnNbs, the others one table beside them.
ServicesInit ==
  /\ part \in Parts
  /\ Init /\ ArpInit /\ DhcpInit /\ EtimerInit /\ EmacInit /\ HdlcInit /\ EncInit /\ UdpInit /\ NsInit
  /\ part # "udp" => UdpTable = 1 .. Max(UdpConnNbs)

ServicesNext ==
  /\ UNCHANGED part
  /\ \/ part = "ip6" /\ Next /\ UNCHANGED <<arpvars, dhcpvars, smallvars, udpvars>>
     \/ part = "arp" /\ ArpNext /\ UNCHANGED <<vars, dhcpvars, smallvars, udpvars>>
     \/ part = "dhcp" /\ DhcpNext /\ UNCHANGED <<vars, arpvars, smallvars, udpvars>>
     \/ part = "udp" /\ UdpNext /\ UNCHANGED <<vars, arpvars, dhcpvars, smallvars>>
     \/ /\ UNCHANGED <<vars, arpvars, dhcpvars, udpvars>>
        /\ \/ part = "timers" /\ EtimerNext /\ UNCHANGED <<nsvars, drivervars>>
           \/ part = "ns" /\ NsNext /\ UNCHANGED <<etvars, drivervars>>
           \/ part = "emac" /\ EmacNext /\ UNCHANGED <<etvars, nsvars, hdlcvars, encvars>>
           \/ part = "hdlc" /\ HdlcNext /\ UNCHANGED <<etvars, nsvars, emacvars, encvars>>
           \/ part = "enc" /\ EncNext /\ UNCHANGED <<etvars, nsvars, emacvars, hdlcvars>>

\* The link delivers (Fairness of Ip6); the other parts have safety properties only.
ServicesSpec == ServicesInit /\ [][ServicesNext]_svars /\ Fairness
=============================================================================
