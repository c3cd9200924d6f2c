------------------------------ MODULE MCUipTcp ------------------------------
EXTENDS UipTcp, TLC

CONSTANTS enda, endb

MCIss == (enda :> 6) @@ (endb :> 3)
MCSizes == (enda :> {3}) @@ (endb :> {1})
MCTotal == (enda :> 3) @@ (endb :> 1)
MCStale == {[to |-> enda, flags |-> {"ACK"}, seq |-> 1, ack |-> 4, data |-> <<>>]}
=============================================================================
