------------------------------ MODULE MCNetSock ------------------------------
EXTENDS NetSockInv, TLC

Symm == Permutations(Socks)
=============================================================================
