----------------------------- MODULE MCDs6Addr -----------------------------
EXTENDS Ds6Addr, TLC

CONSTANTS hosta, hostb, r

MCIid == (hosta :> 1) @@ (hostb :> 1) @@ (r :> 1)
\* Two hosts that another router tells of prefixes; and a host with a router of uIP
MCLinks == {{hosta, hostb}, {hosta, r}}

Option(flags, valid, router) ==
  [pfx |-> "p", flags |-> flags, valid |-> valid, router |-> router]
\* For ever; for less than two hours; withdrawn, by a router that is no default router
MCOptions ==
  {Option({"auto"}, Infinite, TRUE), Option({"auto", "onlink"}, 1, TRUE),
   Option({"auto", "onlink"}, 0, FALSE)}
=============================================================================
