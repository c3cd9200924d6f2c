-------------------------------- MODULE Lists --------------------------------
(***************************************************************************)
(* The lists of list.c as sequences of their items.                        *)
(***************************************************************************)
EXTENDS Naturals, Sequences, FiniteSets

Elements(seq) == {seq[i] : i \in DOMAIN seq}

Distinct(seq) == \A i, j \in DOMAIN seq : seq[i] = seq[j] => i = j

\* list_remove of the items in S: those that stay, in their order
Without(seq, S) ==
  LET stay == {i \in DOMAIN seq : seq[i] \notin S}
      at(k) == CHOOSE i \in stay : Cardinality({j \in stay : j <= i}) = k
  IN [k \in 1 .. Cardinality(stay) |-> seq[at(k)]]

\* list_push, which takes the item from its old place
Push(seq, x) == <<x>> \o Without(seq, {x})
=============================================================================
