--------------------------- MODULE Ds6Addr_proofs ---------------------------
(***************************************************************************)
(* UniqueGlobal for any number of hosts and routers, any prefixes that     *)
(* routers advertise, and solicitations and answers in any order: the      *)
(* proof that duplicate address detection finds the other host.            *)
(***************************************************************************)
EXTENDS Ds6Addr, TLAPS

-----------------------------------------------------------------------------
(* The inductive invariant *)

AddrFields == [st : {"TENTATIVE", "PREFERRED"}, dad : Nat, auto : BOOLEAN,
               life : [inf : BOOLEAN, left : Nat]]

AddrLists == UNION {[as -> AddrFields] : as \in SUBSET Addresses}

AddrTypes == addrs \in [AddrNodes -> AddrLists] /\ up \subseteq AddrNodes

\* A host that uses an address, or has asked whether another does
Claims(n, a) == Holds(n, a) \/ (Tentative(n, a) /\ addrs[n][a].dad > 0)

\* What makes it give the address up is on its way; or what makes it answer.
Warned(n, a) == \E f \in link : f.to = n /\ f.tgt = a /\ f.type \in {"NS", "NA"}
Asked(n, a) == \E f \in link : f.to = n /\ f.tgt = a /\ f.type = "NS"

\* Of two hosts that claim an address one will give it up.  When none uses it yet, a
\* solicitation has crossed; when one does, it has answered or will.
OneGivesUp(m, n, a) ==
  Claims(m, a) /\ Claims(n, a) =>
    \/ Tentative(m, a) /\ Tentative(n, a) /\ (Warned(m, a) \/ Warned(n, a))
    \/ Holds(m, a) /\ Tentative(n, a) /\ (Asked(m, a) \/ Warned(n, a))
    \/ Tentative(m, a) /\ Holds(n, a) /\ (Asked(n, a) \/ Warned(m, a))

Global == {a \in Addresses : a.pfx # LinkPrefix}

Settling ==
  \A m, n \in Hosts \cap up : \A a \in Global : m # n => OneGivesUp(m, n, a)

Ds6Inductive == AddrTypes /\ Settling

-----------------------------------------------------------------------------
(* The types *)

\* The identifier of a node with any prefix is an address.
LEMMA MadeAddress ==
  ASSUME NEW n \in AddrNodes, NEW p \in Prefixes \cup {LinkPrefix}
  PROVE  [pfx |-> p, iid |-> Iid[n]] \in Addresses
BY DEF Addresses

LEMMA LifeType ==
  ASSUME NEW valid \in Nat, NEW left \in Nat
  PROVE  Life(valid, left) \in [inf : BOOLEAN, left : Nat]
BY DEF Life

\* What is put into or taken out of a list of addresses leaves a list of addresses.
LEMMA WithAddrType ==
  ASSUME NEW as \in AddrLists, NEW a \in Addresses, NEW valid \in Nat, NEW auto \in BOOLEAN
  PROVE  /\ WithAddr(as, a, valid, auto) \in AddrLists
         /\ WithoutAddr(as, a) \in AddrLists
<1>1. PICK S \in SUBSET Addresses : as \in [S -> AddrFields]
  BY DEF AddrLists
<1>2. [st |-> "TENTATIVE", dad |-> 0, auto |-> auto, life |-> Life(valid, 0)] \in AddrFields
  BY LifeType DEF AddrFields
<1>3. WithoutAddr(as, a) \in [S \ {a} -> AddrFields]
  BY <1>1 DEF WithoutAddr
<1>4. \/ WithAddr(as, a, valid, auto) = as
      \/ WithAddr(as, a, valid, auto) \in [S \cup {a} -> AddrFields]
  BY <1>1, <1>2 DEF WithAddr
<1> QED
  BY <1>1, <1>3, <1>4 DEF AddrLists

\* The list of a node after SetAddrs, and all others.
LEMMA SetAddrsType ==
  ASSUME NEW n \in AddrNodes, AddrTypes, NEW as \in AddrLists, SetAddrs(n, as)
  PROVE  /\ addrs' \in [AddrNodes -> AddrLists]
         /\ addrs'[n] = as
         /\ \A m \in AddrNodes : m # n => addrs'[m] = addrs[m]
BY DEF AddrTypes, SetAddrs

\* The fields of an address in use
LEMMA FieldsType ==
  ASSUME AddrTypes, NEW n \in AddrNodes, NEW a \in DOMAIN addrs[n]
  PROVE  /\ a \in Addresses /\ addrs[n][a] \in AddrFields
         /\ addrs[n] \in AddrLists
<1>1. PICK S \in SUBSET Addresses : addrs[n] \in [S -> AddrFields]
  BY DEF AddrTypes, AddrLists
<1> QED
  BY <1>1 DEF AddrTypes

\* One field of one address changes.
LEMMA FieldType ==
  ASSUME AddrTypes, NEW n \in AddrNodes, NEW a \in DOMAIN addrs[n], NEW e \in AddrFields
  PROVE  [addrs EXCEPT ![n] = [@ EXCEPT ![a] = e]] \in [AddrNodes -> AddrLists]
<1>1. PICK S \in SUBSET Addresses : addrs[n] \in [S -> AddrFields]
  BY DEF AddrTypes, AddrLists
<1>2. [addrs[n] EXCEPT ![a] = e] \in [S -> AddrFields]
  BY <1>1
<1>3. [addrs[n] EXCEPT ![a] = e] \in AddrLists
  BY <1>2 DEF AddrLists
<1> QED
  BY <1>3 DEF AddrTypes

LEMMA RenewedType ==
  ASSUME NEW life \in [inf : BOOLEAN, left : Nat], NEW valid \in Nat
  PROVE  Renewed(life, valid) \in [inf : BOOLEAN, left : Nat]
BY Ds6Assumption DEF Renewed

LEMMA AddrsAfterType ==
  ASSUME NEW as \in AddrLists, NEW a \in Addresses, NEW valid \in Nat
  PROVE  AddrsAfter(as, a, valid) \in AddrLists
<1>1. CASE valid # 0 /\ a \in DOMAIN as /\ as[a].auto
  <2>1. PICK S \in SUBSET Addresses : as \in [S -> AddrFields]
    BY DEF AddrLists
  <2>2. as[a] \in AddrFields
    BY <1>1, <2>1
  <2>3. [as[a] EXCEPT !.life = Renewed(@, valid)] \in AddrFields
    BY <2>2, RenewedType DEF AddrFields
  <2>4. [as EXCEPT ![a].life = Renewed(@, valid)] \in [S -> AddrFields]
    BY <1>1, <2>1, <2>3
  <2> QED
    BY <1>1, <2>4 DEF AddrsAfter, AddrLists
<1>2. CASE ~(valid # 0 /\ a \in DOMAIN as /\ as[a].auto)
  BY <1>2, WithAddrType DEF AddrsAfter
<1> QED
  BY <1>1, <1>2
-----------------------------------------------------------------------------
(* Lists without new claims *)

\* The second list keeps what the first says of an address, or begins with it anew.
NoNewClaim(as, bs) ==
  \A b \in DOMAIN bs :
    \/ b \in DOMAIN as /\ bs[b].st = as[b].st /\ bs[b].dad = as[b].dad
    \/ bs[b].st = "TENTATIVE" /\ bs[b].dad = 0

LEMMA NoNewClaims ==
  ASSUME NEW as \in AddrLists, NEW a \in Addresses, NEW valid \in Nat, NEW auto \in BOOLEAN
  PROVE  /\ NoNewClaim(as, as)
         /\ NoNewClaim(as, WithoutAddr(as, a)) /\ a \notin DOMAIN WithoutAddr(as, a)
         /\ NoNewClaim(as, WithAddr(as, a, valid, auto))
         /\ NoNewClaim(as, AddrsAfter(as, a, valid))
<1>1. NoNewClaim(as, as) /\ NoNewClaim(as, WithoutAddr(as, a)) /\ a \notin DOMAIN WithoutAddr(as, a)
  BY DEF NoNewClaim, WithoutAddr
<1>2. \A any \in BOOLEAN : NoNewClaim(as, WithAddr(as, a, valid, any))
  BY DEF NoNewClaim, WithAddr
<1>3. CASE valid # 0 /\ a \in DOMAIN as /\ as[a].auto
  <2>1. PICK S \in SUBSET Addresses : as \in [S -> AddrFields]
    BY DEF AddrLists
  <2>2. AddrsAfter(as, a, valid) = [as EXCEPT ![a].life = Renewed(@, valid)]
    BY <1>3 DEF AddrsAfter
  <2>3. as[a] \in AddrFields
    BY <1>3, <2>1
  <2>4. /\ [as[a] EXCEPT !.life = Renewed(@, valid)].st = as[a].st
        /\ [as[a] EXCEPT !.life = Renewed(@, valid)].dad = as[a].dad
    BY <2>3 DEF AddrFields
  <2> QED
    BY <1>1, <1>2, <2>1, <2>2, <2>4 DEF NoNewClaim
<1>4. CASE ~(valid # 0 /\ a \in DOMAIN as /\ as[a].auto)
  BY <1>1, <1>2, <1>4 DEF AddrsAfter
<1> QED
  BY <1>1, <1>2, <1>3, <1>4

\* Nothing changes for what nobody claims anew while messages about it stay.
LEMMA Undisturbed ==
  ASSUME AddrTypes, Settling, up' = up,
         NEW m \in Hosts \cap up, NEW n \in Hosts \cap up, NEW a \in Global, m # n,
         a \in DOMAIN addrs'[m] => NoNewClaim(addrs[m], addrs'[m]),
         a \in DOMAIN addrs'[n] => NoNewClaim(addrs[n], addrs'[n]),
         \A f \in link : f.tgt = a /\ f.type \in {"NS", "NA"} /\ f.to \in {m, n} => f \in link'
  PROVE  OneGivesUp(m, n, a)'
<1>1. OneGivesUp(m, n, a)
  BY DEF Settling
<1>2. /\ Claims(m, a)' => Claims(m, a) /\ (Holds(m, a)' <=> Holds(m, a))
                           /\ (Tentative(m, a)' <=> Tentative(m, a))
      /\ Claims(n, a)' => Claims(n, a) /\ (Holds(n, a)' <=> Holds(n, a))
                           /\ (Tentative(n, a)' <=> Tentative(n, a))
  BY DEF Claims, Holds, Tentative, NoNewClaim
<1>3. /\ Warned(m, a) => Warned(m, a)'
      /\ Warned(n, a) => Warned(n, a)'
      /\ Asked(m, a) => Asked(m, a)'
      /\ Asked(n, a) => Asked(n, a)'
  BY DEF Warned, Asked
<1> QED
  BY <1>1, <1>2, <1>3 DEF OneGivesUp

\* A node makes no claim and takes no message.
LEMMA QuietStep ==
  ASSUME AddrTypes, Settling, up' = up, link \subseteq link',
         \A m \in AddrNodes : NoNewClaim(addrs[m], addrs'[m])
  PROVE  Settling'
BY Undisturbed DEF Settling, AddrTypes

\* A node puts a list without new claims in the place of its own.
LEMMA QuietList ==
  ASSUME AddrTypes, Settling, NEW n \in AddrNodes, NEW as \in AddrLists,
         SetAddrs(n, as), NoNewClaim(addrs[n], as), up' = up, link \subseteq link'
  PROVE  Ds6Inductive'
<1>1. \A m \in AddrNodes : addrs[m] \in AddrLists
  BY DEF AddrTypes
<1>2. \A m \in AddrNodes : NoNewClaim(addrs[m], addrs'[m])
  BY <1>1, SetAddrsType DEF NoNewClaim
<1> QED
  BY <1>2, QuietStep, SetAddrsType DEF Ds6Inductive, AddrTypes
-----------------------------------------------------------------------------
(* The steps *)

\* Nobody claims anything before the first solicitation.
LEMMA Ds6InductiveInit == Ds6Init => Ds6Inductive
<1> SUFFICES ASSUME Ds6Init
             PROVE  Ds6Inductive
  OBVIOUS
<1>1. ASSUME NEW n \in AddrNodes
      PROVE  /\ LinkLocalOf(n) \in Addresses
             /\ [st |-> "TENTATIVE", dad |-> 0, auto |-> TRUE, life |-> Life(Infinite, 0)] \in AddrFields
  BY LifeType, MadeAddress DEF LinkLocalOf, AddrFields, Infinite
<1>2. up \subseteq AddrNodes
  BY Ds6Assumption DEF Ds6Init, AddrNodes
<1>3. AddrTypes
  <2>1. ASSUME NEW n \in AddrNodes
        PROVE  addrs[n] \in AddrLists
    <3>1. addrs[n] \in [{LinkLocalOf(n)} -> AddrFields]
      BY <1>1 DEF Ds6Init
    <3> QED
      BY <1>1, <3>1 DEF AddrLists
  <2> QED
    BY <1>2, <2>1 DEF Ds6Init, AddrTypes
<1>4. \A n \in AddrNodes, a \in Addresses : ~Claims(n, a)
  BY DEF Ds6Init, Claims, Holds, Tentative
<1> QED
  BY <1>2, <1>3, <1>4 DEF Ds6Inductive, Settling, OneGivesUp, Global

\* Time passes, and nothing else.
LEMMA TickInductive ==
  ASSUME Ds6Inductive, LifeTick
  PROVE  Ds6Inductive'
<1> USE DEF Ds6Inductive
<1>1. ASSUME NEW n \in AddrNodes
      PROVE  addrs'[n] \in AddrLists /\ NoNewClaim(addrs[n], addrs'[n])
  <2> DEFINE less(l) == [l EXCEPT !.left = IF @ = 0 THEN 0 ELSE @ - 1]
  <2>1. PICK S \in SUBSET Addresses : addrs[n] \in [S -> AddrFields]
    BY DEF AddrTypes, AddrLists
  <2>2. addrs'[n] = [a \in S |-> [addrs[n][a] EXCEPT !.life = less(@)]]
    BY <2>1 DEF LifeTick
  <2>3. ASSUME NEW a \in S
        PROVE  /\ [addrs[n][a] EXCEPT !.life = less(@)] \in AddrFields
               /\ [addrs[n][a] EXCEPT !.life = less(@)].st = addrs[n][a].st
               /\ [addrs[n][a] EXCEPT !.life = less(@)].dad = addrs[n][a].dad
    <3>1. addrs[n][a] \in AddrFields
      BY <2>1
    <3>2. less(addrs[n][a].life) \in [inf : BOOLEAN, left : Nat]
      BY <3>1 DEF AddrFields
    <3> QED
      BY <3>1, <3>2 DEF AddrFields
  <2> HIDE DEF less
  <2>4. addrs'[n] \in [S -> AddrFields]
    BY <2>2, <2>3
  <2> QED
    BY <2>1, <2>2, <2>3, <2>4 DEF AddrLists, NoNewClaim
<1>2. DOMAIN addrs' = AddrNodes /\ addrs' = [n \in AddrNodes |-> addrs'[n]]
  BY DEF LifeTick
<1>3. AddrTypes'
  BY <1>1, <1>2 DEF AddrTypes, LifeTick
<1>4. Settling'
  BY <1>1, QuietStep DEF LifeTick
<1> QED
  BY <1>3, <1>4

\* An address is removed at its end.
LEMMA ExpiresInductive ==
  ASSUME Ds6Inductive, NEW n \in up, AddrExpires(n)
  PROVE  Ds6Inductive'
<1>1. n \in AddrNodes /\ addrs[n] \in AddrLists
  BY DEF Ds6Inductive, AddrTypes
<1>2. PICK a \in DOMAIN addrs[n] : SetAddrs(n, WithoutAddr(addrs[n], a))
  BY DEF AddrExpires
<1>3. a \in Addresses
  BY <1>1, FieldsType DEF Ds6Inductive
<1> QED
  BY <1>1, <1>2, <1>3, QuietList, WithAddrType, NoNewClaims DEF Ds6Inductive, AddrExpires

\* An option of a router, and an application
LEMMA ToldInductive ==
  ASSUME Ds6Inductive, NEW n \in up, PrefixInput(n) \/ Configure(n)
  PROVE  Ds6Inductive'
<1>1. n \in AddrNodes /\ addrs[n] \in AddrLists
  BY DEF Ds6Inductive, AddrTypes
<1>2. UNCHANGED <<up, link>>
  BY DEF PrefixInput, Configure
<1>3. PICK as \in AddrLists : SetAddrs(n, as) /\ NoNewClaim(addrs[n], as)
  <2>1. CASE PrefixInput(n)
    <3>1. PICK o \in Options :
            SetAddrs(n, IF "auto" \in o.flags
                          THEN AddrsAfter(addrs[n], [pfx |-> o.pfx, iid |-> Iid[n]], o.valid)
                          ELSE addrs[n])
      BY <2>1 DEF PrefixInput
    <3>2. o.pfx \in Prefixes /\ o.valid \in Nat
      BY Ds6Assumption DEF Infinite
    <3>3. [pfx |-> o.pfx, iid |-> Iid[n]] \in Addresses
      BY <1>1, <3>2, MadeAddress
    <3> QED
      BY <1>1, <3>1, <3>2, <3>3, AddrsAfterType, NoNewClaims
  <2>2. CASE Configure(n)
    <3>1. PICK p \in Prefixes :
            LET a == [pfx |-> p, iid |-> Iid[n]]
            IN SetAddrs(n, IF a \in DOMAIN addrs[n] THEN WithoutAddr(addrs[n], a)
                           ELSE WithAddr(addrs[n], a, Infinite, FALSE))
      BY <2>2 DEF Configure
    <3>2. [pfx |-> p, iid |-> Iid[n]] \in Addresses
      BY <1>1, MadeAddress
    <3> QED
      BY <1>1, <3>1, <3>2, WithAddrType, NoNewClaims DEF Infinite
  <2> QED
    BY <2>1, <2>2
<1> QED
  BY <1>1, <1>2, <1>3, QuietList DEF Ds6Inductive

\* A node asks all others for the address, and those that claim it have been warned or
\* asked.
LEMMA SolicitInductive ==
  ASSUME Ds6Inductive, NEW n \in up, NEW a \in Addresses, DadSolicit(n, a)
  PROVE  Ds6Inductive'
<1>1. n \in AddrNodes /\ a \in DOMAIN addrs[n] /\ addrs[n][a].st = "TENTATIVE"
  BY DEF Ds6Inductive, AddrTypes, DadSolicit, DadDue
<1>2. addrs[n][a] \in AddrFields
  BY <1>1, FieldsType DEF Ds6Inductive
<1> DEFINE e == [addrs[n][a] EXCEPT !.dad = @ + 1]
<1>3. e \in AddrFields /\ e.st = "TENTATIVE"
  BY <1>1, <1>2 DEF AddrFields
<1>4. addrs' = [addrs EXCEPT ![n] = [@ EXCEPT ![a] = e]]
  BY <1>1 DEF DadSolicit
<1> HIDE DEF e
<1>5. AddrTypes'
  <2>1. addrs' \in [AddrNodes -> AddrLists]
    BY <1>1, <1>3, <1>4, FieldType DEF Ds6Inductive
  <2> QED
    BY <2>1 DEF Ds6Inductive, AddrTypes, DadSolicit
<1>6. ASSUME NEW k \in Hosts \cap up, k # n
      PROVE  Warned(k, a)' /\ Asked(k, a)'
  <2>1. [type |-> "NS", tgt |-> a, from |-> n, to |-> k] \in link'
    BY <1>6 DEF DadSolicit, Frames, AddrNodes
  <2> QED
    BY <2>1 DEF Warned, Asked
<1>7. /\ a \in DOMAIN addrs'[n] /\ addrs'[n][a] = e
      /\ \A b \in DOMAIN addrs'[n] : b # a => b \in DOMAIN addrs[n] /\ addrs'[n][b] = addrs[n][b]
      /\ \A k \in AddrNodes : k # n => addrs'[k] = addrs[k]
  BY <1>1, <1>4 DEF Ds6Inductive, AddrTypes, AddrLists
<1>8. ASSUME NEW l \in Hosts \cap up, NEW m \in Hosts \cap up, NEW b \in Global, l # m
      PROVE  OneGivesUp(l, m, b)'
  <2>1. CASE b = a /\ n \in {l, m}
    <3>1. Tentative(n, a)'
      BY <1>3, <1>7 DEF Tentative
    <3>2. \A k \in {l, m} : Claims(k, a)' => Holds(k, a)' \/ Tentative(k, a)'
      BY DEF Claims
    <3> QED
      BY <1>6, <1>8, <2>1, <3>1, <3>2 DEF OneGivesUp
  <2>2. CASE b # a \/ n \notin {l, m}
    <3>1. \A k \in {l, m} :
            /\ Claims(k, b)' => Claims(k, b)
            /\ Holds(k, b)' <=> Holds(k, b)
            /\ Tentative(k, b)' <=> Tentative(k, b)
      BY <1>1, <1>4, <2>2 DEF Claims, Holds, Tentative, Ds6Inductive, AddrTypes, AddrLists
    <3>2. \A k \in {l, m} : (Warned(k, b) => Warned(k, b)') /\ (Asked(k, b) => Asked(k, b)')
      BY DEF DadSolicit, Warned, Asked
    <3>3. OneGivesUp(l, m, b)
      BY <1>8 DEF Ds6Inductive, Settling
    <3> QED
      BY <3>1, <3>2, <3>3 DEF OneGivesUp
  <2> QED
    BY <2>1, <2>2
<1> QED
  BY <1>5, <1>8 DEF Ds6Inductive, Settling, DadSolicit
\* A node that has waited for the answers comes to use the address: no other claims it,
\* for what would have stopped this one or made the other answer is gone.
LEMMA SucceedsInductive ==
  ASSUME Ds6Inductive, NEW n \in up, NEW a \in Addresses, DadSucceeds(n, a)
  PROVE  Ds6Inductive'
<1>1. n \in AddrNodes /\ a \in DOMAIN addrs[n] /\ addrs[n][a].st = "TENTATIVE"
  BY DEF Ds6Inductive, AddrTypes, DadSucceeds, DadDue
<1>2. addrs[n][a] \in AddrFields /\ addrs[n][a].dad > 0
  BY <1>1, FieldsType, Ds6Assumption DEF Ds6Inductive, DadSucceeds
<1> DEFINE e == [addrs[n][a] EXCEPT !.st = "PREFERRED"]
<1>3. e \in AddrFields
  BY <1>2 DEF AddrFields
<1>4. addrs' = [addrs EXCEPT ![n] = [@ EXCEPT ![a] = e]]
  BY <1>1 DEF DadSucceeds
<1> HIDE DEF e
<1>5. AddrTypes'
  <2>1. addrs' \in [AddrNodes -> AddrLists]
    BY <1>1, <1>3, <1>4, FieldType DEF Ds6Inductive
  <2> QED
    BY <2>1 DEF Ds6Inductive, AddrTypes, DadSucceeds
<1>6. \A k \in AddrNodes : ~Warned(k, a) /\ ~Asked(k, a)
  BY <1>2 DEF DadSucceeds, DadDue, Warned, Asked
<1>7. Claims(n, a) /\ Tentative(n, a)
  BY <1>1, <1>2 DEF Claims, Tentative
<1>8. ASSUME NEW l \in Hosts \cap up, NEW m \in Hosts \cap up, NEW b \in Global, l # m
      PROVE  OneGivesUp(l, m, b)'
  <2>1. OneGivesUp(l, m, b)
    BY <1>8 DEF Ds6Inductive, Settling
  <2>2. CASE b = a /\ n \in {l, m}
    <3>1. PICK k \in {l, m} : k # n
      BY <1>8
    <3>2. k \in AddrNodes /\ ~Claims(k, a)
      BY <1>6, <1>7, <2>1, <2>2, <3>1 DEF OneGivesUp, AddrNodes, Holds, Tentative
    <3>3. ~Claims(k, a)'
      BY <1>1, <1>4, <3>1, <3>2 DEF Claims, Holds, Tentative, Ds6Inductive, AddrTypes
    <3> QED
      BY <2>2, <3>1, <3>3 DEF OneGivesUp
  <2>3. CASE b # a \/ n \notin {l, m}
    <3>1. \A k \in {l, m} :
            /\ Claims(k, b)' => Claims(k, b)
            /\ Holds(k, b)' <=> Holds(k, b)
            /\ Tentative(k, b)' <=> Tentative(k, b)
      BY <1>1, <1>4, <2>3 DEF Claims, Holds, Tentative, Ds6Inductive, AddrTypes, AddrLists
    <3>2. \A k \in {l, m} : (Warned(k, b) => Warned(k, b)') /\ (Asked(k, b) => Asked(k, b)')
      BY DEF DadSucceeds, Warned, Asked
    <3> QED
      BY <2>1, <3>1, <3>2 DEF OneGivesUp
  <2> QED
    BY <2>2, <2>3
<1> QED
  BY <1>5, <1>8 DEF Ds6Inductive, Settling, DadSucceeds

\* Whoever takes a message about an address gives the address up, or uses it and has
\* all others warned.
LEMMA MessageInductive ==
  ASSUME Ds6Inductive, NEW n \in up, NEW f \in link, NsInput(n, f) \/ NaInput(n, f)
  PROVE  Ds6Inductive'
<1> DEFINE a == f.tgt
<1>1. n \in AddrNodes /\ f.to = n /\ up' = up /\ addrs[n] \in AddrLists
  BY DEF Ds6Inductive, AddrTypes, NsInput, NaInput
<1>2. \/ UNCHANGED addrs /\ (n \in Hosts /\ a.pfx # LinkPrefix => ~Tentative(n, a))
      \/ a \in Addresses /\ SetAddrs(n, WithoutAddr(addrs[n], a))
  <2>1. Tentative(n, a) => a \in Addresses
    BY <1>1, FieldsType DEF Ds6Inductive, Tentative
  <2> QED
    BY <2>1 DEF NsInput, NaInput, DadFailed, InGroup
<1>3. /\ AddrTypes'
      /\ \A k \in AddrNodes : NoNewClaim(addrs[k], addrs'[k])
      /\ \A k \in AddrNodes : k # n => addrs'[k] = addrs[k]
      /\ addrs'[n] = addrs[n] \/ a \notin DOMAIN addrs'[n]
      /\ n \in Hosts /\ a.pfx # LinkPrefix /\ addrs'[n] = addrs[n] => ~Tentative(n, a)
  <2>1. CASE UNCHANGED addrs /\ (n \in Hosts /\ a.pfx # LinkPrefix => ~Tentative(n, a))
    BY <1>1, <2>1 DEF Ds6Inductive, AddrTypes, NoNewClaim
  <2>2. CASE a \in Addresses /\ SetAddrs(n, WithoutAddr(addrs[n], a))
    <3>1. WithoutAddr(addrs[n], a) \in AddrLists
      BY <1>1, <2>2, WithAddrType
    <3>2. /\ addrs' \in [AddrNodes -> AddrLists]
          /\ addrs'[n] = WithoutAddr(addrs[n], a)
          /\ \A k \in AddrNodes : k # n => addrs'[k] = addrs[k]
      BY <1>1, <2>2, <3>1, SetAddrsType DEF Ds6Inductive
    <3>3. /\ NoNewClaim(addrs[n], WithoutAddr(addrs[n], a))
          /\ a \notin DOMAIN WithoutAddr(addrs[n], a)
      BY <1>1, <2>2, NoNewClaims
    <3>4. \A k \in AddrNodes : NoNewClaim(addrs[k], addrs'[k])
      BY <3>2, <3>3 DEF NoNewClaim
    <3>5. addrs'[n] = addrs[n] => ~Tentative(n, a)
      BY <3>2, <3>3 DEF Tentative
    <3> QED
      BY <1>1, <3>2, <3>3, <3>4, <3>5 DEF Ds6Inductive, AddrTypes
  <2> QED
    BY <1>2, <2>1, <2>2
<1>4. \A g \in link : g # f => g \in link'
  BY DEF NsInput, NaInput
<1>5. ASSUME NEW l \in Hosts \cap up, NEW m \in Hosts \cap up, NEW b \in Global, l # m,
             b = a, l = n, addrs'[n] = addrs[n]
      PROVE  OneGivesUp(l, m, b)' /\ OneGivesUp(m, l, b)'
  <2>1. ~Tentative(l, b)
    BY <1>3, <1>5 DEF Global
  <2>2. addrs'[l] = addrs[l] /\ addrs'[m] = addrs[m]
    BY <1>3, <1>5 DEF AddrNodes
  <2>3. Claims(l, b) /\ Claims(m, b) =>
          Holds(l, b) /\ Tentative(m, b) /\ (Asked(l, b) \/ Warned(m, b))
    BY <1>5, <2>1 DEF Ds6Inductive, Settling, OneGivesUp
  <2>4. Warned(m, b) => Warned(m, b)'
    BY <1>1, <1>4, <1>5 DEF Warned
  <2>5. f.type = "NS" /\ Holds(l, b) => Warned(m, b)'
    <3> SUFFICES ASSUME f.type = "NS", Holds(l, b)
                 PROVE  Warned(m, b)'
      OBVIOUS
    <3>1. [type |-> "NA", tgt |-> b, from |-> n, to |-> m] \in link'
      BY <1>5 DEF NsInput, NaInput, InGroup, Holds, Tentative, Frames, AddrNodes
    <3> QED
      BY <3>1 DEF Warned
  <2>6. Asked(l, b) /\ f.type # "NS" => Asked(l, b)'
    BY <1>4 DEF Asked
  <2>7. /\ Claims(l, b)' => Claims(l, b)
        /\ Claims(m, b)' => Claims(m, b)
        /\ Holds(l, b) => Holds(l, b)'
        /\ Tentative(m, b) => Tentative(m, b)'
    BY <2>2 DEF Claims, Holds, Tentative
  <2>8. Claims(l, b)' /\ Claims(m, b)' =>
          Holds(l, b)' /\ Tentative(m, b)' /\ (Asked(l, b)' \/ Warned(m, b)')
    BY <2>3, <2>4, <2>5, <2>6, <2>7
  <2> QED
    BY <2>8, Zenon DEF OneGivesUp
<1>6. ASSUME NEW l \in Hosts \cap up, NEW m \in Hosts \cap up, NEW b \in Global, l # m
      PROVE  OneGivesUp(l, m, b)'
  <2>1. CASE b # a \/ n \notin {l, m}
    BY <1>1, <1>3, <1>4, <1>6, <2>1, Undisturbed DEF Ds6Inductive, AddrNodes
  <2>2. CASE b = a /\ n \in {l, m} /\ addrs'[n] # addrs[n]
    BY <1>3, <2>2 DEF OneGivesUp, Claims, Holds, Tentative
  <2>3. CASE b = a /\ n \in {l, m} /\ addrs'[n] = addrs[n]
    <3>1. CASE l = n
      BY <1>5, <1>6, <2>3, <3>1, Zenon
    <3>2. CASE m = n
      BY <1>5, <1>6, <2>3, <3>2, Zenon
    <3> QED
      BY <2>3, <3>1, <3>2
  <2> QED
    BY <2>1, <2>2, <2>3
<1> QED
  BY <1>1, <1>3, <1>6 DEF Ds6Inductive, Settling

LEMMA Ds6InductiveNext == Ds6Inductive /\ [Ds6Next]_ds6vars => Ds6Inductive'
<1> SUFFICES ASSUME Ds6Inductive, [Ds6Next]_ds6vars
             PROVE  Ds6Inductive'
  OBVIOUS
<1> DEFINE Quiet == UNCHANGED <<addrs, up>> /\ link \subseteq link'
<1>1. CASE LifeTick
  BY <1>1, TickInductive
<1>2. ASSUME NEW n \in up, AddrExpires(n) \/ PrefixInput(n) \/ Configure(n)
      PROVE  Ds6Inductive'
  BY <1>2, ExpiresInductive, ToldInductive
<1>3. ASSUME NEW n \in up, NEW a \in Addresses, DadSolicit(n, a) \/ DadSucceeds(n, a)
      PROVE  Ds6Inductive'
  BY <1>3, SolicitInductive, SucceedsInductive
<1>4. ASSUME NEW n \in up, NEW f \in link, NsInput(n, f) \/ NaInput(n, f)
      PROVE  Ds6Inductive'
  BY <1>4, MessageInductive
<1>5. ASSUME UNCHANGED <<addrs, up>>, \A f \in link : f.type \in {"NS", "NA"} => f \in link'
      PROVE  Ds6Inductive'
  BY <1>5, Undisturbed DEF Ds6Inductive, Settling, AddrTypes, NoNewClaim
<1>6. ASSUME NEW n \in up, PrefixExpires(n) \/ RsTimer(n) \/ RaTimer(n)
      PROVE  Ds6Inductive'
  BY <1>5, <1>6 DEF PrefixExpires, RsTimer, RaTimer
<1>7. ASSUME NEW n \in up, NEW f \in link, RsInput(n, f) \/ RaInput(n, f)
      PROVE  Ds6Inductive'
  BY <1>5, <1>7 DEF RsInput, RaInput
<1>8. CASE UNCHANGED ds6vars
  BY <1>5, <1>8 DEF ds6vars
<1> QED
  BY <1>1, <1>2, <1>3, <1>4, <1>6, <1>7, <1>8 DEF Ds6Next

-----------------------------------------------------------------------------
(* The theorem *)

\* Of two hosts with the same interface identifier at most one comes to use a global
\* address, for any number of hosts, identifiers, prefixes and solicitations, however
\* messages cross, if none is lost (uip_ds6_dad, ns_input, na_input).
THEOREM UniqueGlobalAlways == Ds6Spec => []UniqueGlobal
<1>1. Ds6Inductive => UniqueGlobal
  <2> SUFFICES ASSUME Ds6Inductive, NEW m \in Hosts \cap up, NEW n \in Hosts \cap up, m # n,
                      NEW a \in Addresses, a.pfx # LinkPrefix
               PROVE  ~(Holds(m, a) /\ Holds(n, a))
    BY DEF UniqueGlobal
  <2>1. OneGivesUp(m, n, a)
    BY DEF Ds6Inductive, Settling, Global
  <2> QED
    BY <2>1 DEF OneGivesUp, Claims, Holds, Tentative
<1> QED
  BY <1>1, Ds6InductiveInit, Ds6InductiveNext, PTL DEF Ds6Spec
=============================================================================
