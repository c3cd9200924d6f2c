------------------------------ MODULE UipReass ------------------------------
(***************************************************************************)
(* uip_reass of uip6.c: the one buffer in which the fragments of an IPv6   *)
(* packet are put together.  Lengths are in the blocks of eight bytes that *)
(* uip_reassbitmap has a bit for.  What a block holds is abstracted to the *)
(* packet that it came from and its place there; an extension header is as *)
(* long as one block.  Each fragment is put behind as many headers as it   *)
(* has itself.                                                             *)
(***************************************************************************)
EXTENDS Integers, Sequences

CONSTANTS
  ReassBlocks,  \* UIP_REASS_BUFSIZE, in blocks
  Behind,       \* blocks behind uip_reassbuf that nothing else uses in this build
  Nobody        \* the sender of an unused buffer

\* One bit of uip_reassbitmap for each block, eight to a byte
BitsPerByte == 8

\* UIP_IPH_LEN
IpBlocks == 5

ASSUME ReassAssumption == ReassBlocks \in Nat /\ ReassBlocks >= IpBlocks /\ Behind \in Nat

\* struct uip_frag_hdr, with the length of the fragment.  A fragment is aligned
\* when its length is a multiple of eight; whole is the length of the packet that
\* the sender cut up.
Fragment == [id : Nat, off : Nat, len : Nat, more : BOOLEAN, aligned : BOOLEAN, whole : Nat]

\* The blocks behind the IP header in uip_reassbuf, and those behind it that keep
\* what is written there
Places == 0 .. ReassBlocks + Behind - IpBlocks - 1

\* data has what a place holds of a packet's data, if anything; even is not in the
\* code: no fragment came with more or fewer headers than the others, or reached past
\* the buffer or its bitmap.
IdleReass ==
  [on |-> FALSE, src |-> Nobody, dst |-> Nobody, id |-> 0, first |-> FALSE, last |-> FALSE,
   total |-> 0, exts |-> <<>>, proto |-> "none", blocks |-> {},
   data |-> [b \in Places |-> {}], even |-> TRUE]

\* The fields are left as they are when the buffer is given up.
Stopped(r) == [r EXCEPT !.on = FALSE]

\* The headers go over what was at the start of the buffer.
UnderHeaders(data, exts) == [b \in DOMAIN data |-> IF b < Len(exts) THEN {} ELSE data[b]]

\* The fragment starts a reassembly when none is on.
Begun(r, p, f, exts) ==
  IF r.on THEN r
  ELSE [r EXCEPT !.on = TRUE, !.src = p.src, !.dst = p.dst, !.id = f.id, !.exts = exts,
                 !.data = UnderHeaders(@, exts),
                 !.first = FALSE, !.last = FALSE, !.blocks = {}, !.even = TRUE]

\* Wrong: fragments of two packets of one sender are taken for one packet's.
BelongsAny(r, p, f) == r.src = p.src /\ r.dst = p.dst

Belongs(r, p, f) == r.src = p.src /\ r.dst = p.dst /\ r.id = f.id

\* The bound does not count the headers, behind which the fragment goes.
Overflows(f) == f.off > ReassBlocks \/ f.off + f.len > ReassBlocks

Fits(f, exts) ==
  /\ IpBlocks + Len(exts) + f.off + f.len <= ReassBlocks
  /\ (f.off + f.len) \div BitsPerByte < ReassBlocks \div BitsPerByte

Misaligned(f) == f.more /\ ~f.aligned

\* The header of the first fragment is the packet's.
FirstHeaded(r, p, f, exts) ==
  LET s == [r EXCEPT !.even = @ /\ Len(exts) = Len(r.exts) /\ Fits(f, exts)]
  IN IF f.off > 0 THEN s
     ELSE [s EXCEPT !.first = TRUE, !.exts = exts, !.proto = p.top.proto,
                    !.data = UnderHeaders(@, exts)]

\* The fragment in the buffer, behind its own headers
Added(r, p, f, exts) ==
  LET n == Len(exts)
      places == n + f.off .. n + f.off + f.len - 1
  IN [r EXCEPT !.last = @ \/ ~f.more, !.total = IF f.more THEN @ ELSE f.off + f.len,
               !.blocks = @ \cup (f.off .. f.off + f.len - 1),
               !.data = [b \in DOMAIN @ |->
                           IF b \in places THEN {[top |-> p.top, whole |-> f.whole, at |-> b - n]}
                           ELSE @[b]]]

\* All bytes of the bitmap before the one of the end are full, and that one has the
\* bits before the end and no other.
Complete(r) ==
  r.last /\ r.blocks \cap 0 .. BitsPerByte * (r.total \div BitsPerByte + 1) - 1 = 0 .. r.total - 1

\* Behind Behind, other variables have written.
Held(r, b) == IF b \in DOMAIN r.data THEN r.data[b] ELSE {}

\* What the packet in the buffer carries when a fragment with these headers has made it
\* complete: its length counts the headers of this fragment, and its data are behind
\* those of the first.  It is what one sender cut up, or a mixture.
Contents(r, exts) ==
  LET n == Len(r.exts)
      size == Len(exts) + r.total - n
      Whole(d) == d.whole = size /\ \A k \in 0 .. size - 1 : Held(r, n + k) = {[d EXCEPT !.at = k]}
  IN IF (\A b \in 0 .. n - 1 : Held(r, b) = {}) /\ \E d \in Held(r, n) : Whole(d)
       THEN (CHOOSE d \in Held(r, n) : Whole(d)).top
       ELSE [proto |-> "mixed", even |-> r.even]
=============================================================================
