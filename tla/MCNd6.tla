------------------------------- MODULE MCNd6 -------------------------------
EXTENDS Nd6Inv, TLC

CONSTANTS n1, n2, h1, h2, l1, l2

\* Two neighbours that have one link-layer address in common, as a node with two
\* addresses does; the second may announce another one, as a node that moves does.
MCOwns == (n1 :> {l1}) @@ (n2 :> {l1, l2}) @@ (h1 :> {}) @@ (h2 :> {})

\* Neighbours that share nothing
MCOwnsFixed == (n1 :> {l1}) @@ (n2 :> {l2}) @@ (h1 :> {})

\* A remote net of two hosts, and a route of its own for one of them
MCDests == {{h1, h2}, {h1}}

\* A node without routes
MCNoDests == {}
=============================================================================
