-------------------------------- MODULE Hdlc --------------------------------
(***************************************************************************)
(* The serial driver: the frames of ppp_frame.c as stm32_hdlc_bridge.c     *)
(* receives them, octet by octet in an interrupt, and takes them in the    *)
(* network thread.  The peer makes its frames as this code does.  The line *)
(* loses octets.  The two octets of the FCS are modelled by what they are  *)
(* over, so that a broken frame never has a good FCS by chance.            *)
(***************************************************************************)
EXTENDS Lists

CONSTANTS
  FrameHeaders,   \* of frames: sequences of octets up to the protocol
  FrameDatas,     \* of frames: sequences of octets
  MaxIn,     \* inCtx.max, in octets
  MaxPeer,   \* frames that the peer sends
  MaxLost    \* octets that the line loses

\* An octet: what it is, over what (an FCS), and whether it is XORed with PPP_TRANS
Octet(v) == [v |-> v, of |-> <<>>, x |-> FALSE]
PPP_FLAG == Octet("flag")
PPP_ESCAPE == Octet("escape")
PPP_ETHERNET == Octet("ethernet")
PPP_ALLSTATIONS == Octet("allstations")
PPP_UI == Octet("ui")
Trans(o) == [o EXCEPT !.x = ~@]

\* Octets of headers and data
FrameOctets == UNION {Elements(s) : s \in FrameHeaders \cup FrameDatas}

\* A header is a protocol of one octet, after the address and control or without them.
ASSUME HdlcAssumption ==
  /\ MaxIn \in Nat /\ MaxPeer \in Nat /\ MaxLost \in Nat
  /\ FrameHeaders \cup FrameDatas \subseteq Seq(FrameOctets)
  /\ \A o \in FrameOctets : o = Octet(o.v) /\ o.v \notin {"fcs1", "fcs2"}
  /\ \A header \in FrameHeaders :
       \E protocol \in FrameOctets \ {PPP_ALLSTATIONS} :
         header \in {<<protocol>>, <<PPP_ALLSTATIONS, PPP_UI, protocol>>}

VARIABLES
  serial,    \* octets on the line
  peer,      \* frames that the peer has sent, and octets that were lost of them
  inCtx,     \* buf, ptr, mode
  packetIn,  \* packetInBegin and packetInLen
  polled     \* packets that hdlcPoll took

hdlcvars == <<serial, peer, inCtx, packetIn, polled>>

HdlcInit ==
  /\ serial = <<>> /\ peer = [frames |-> <<>>, lost |-> 0]
  /\ inCtx = [buf |-> [i \in 1 .. MaxIn |-> PPP_FLAG], ptr |-> 0, mode |-> "hunt"]
  /\ packetIn = [begin |-> 0, len |-> 0]
  /\ polled = <<>>

-----------------------------------------------------------------------------
(* pppOutputBegin, pppOutputAppend, pppOutputEnd *)

\* An octet of the FCS may happen to be one that must be escaped (odd).
Escaped(o, odd) ==
  IF o \in {PPP_FLAG, PPP_ESCAPE} \/ odd THEN <<PPP_ESCAPE, Trans(o)>> ELSE <<o>>

Fcs(n, s) == [v |-> IF n = 1 THEN "fcs1" ELSE "fcs2", of |-> s, x |-> FALSE]

\* The same for all octets of a sequence, each with a place before it that is for its
\* escape and else is left out
NoOctet == Octet("none")

EscapedAll(s) ==
  LET at(k) == Escaped(s[(k + 1) \div 2], FALSE)
  IN Without([k \in 1 .. 2 * Len(s) |->
                IF k % 2 = 0 THEN at(k)[Len(at(k))]
                ELSE IF Len(at(k)) = 2 THEN PPP_ESCAPE ELSE NoOctet], {NoOctet})

Framed(header, data, odd1, odd2) ==
  <<PPP_FLAG>> \o header \o EscapedAll(data)
    \o Escaped(Fcs(1, header \o data), odd1) \o Escaped(Fcs(2, header \o data), odd2)
    \o <<PPP_FLAG>>

PeerSends ==
  /\ Len(peer.frames) < MaxPeer
  /\ \E header \in FrameHeaders, data \in FrameDatas, odd1, odd2 \in BOOLEAN :
       /\ serial' = serial \o Framed(header, data, odd1, odd2)
       /\ peer' = [peer EXCEPT !.frames = Append(@, [header |-> header, data |-> data])]
  /\ UNCHANGED <<inCtx, packetIn, polled>>

LineLoses ==
  /\ serial # <<>> /\ peer.lost < MaxLost
  /\ serial' = Tail(serial)
  /\ peer' = [peer EXCEPT !.lost = @ + 1]
  /\ UNCHANGED <<inCtx, packetIn, polled>>

-----------------------------------------------------------------------------
(* pppInputAppend *)

Gathered == SubSeq(inCtx.buf, 1, inCtx.ptr)
InputReset == [inCtx EXCEPT !.ptr = 0, !.mode = "normal"]

GoodFcs(s) ==
  /\ Len(s) >= 2
  /\ LET body == SubSeq(s, 1, Len(s) - 2)
     IN s[Len(s) - 1] = Fcs(1, body) /\ s[Len(s)] = Fcs(2, body)

\* How many octets the header of a frame takes up to the protocol: address and control
\* may be left out, and all protocols here are of one octet.
HeaderLen(s) == IF Len(s) >= 2 /\ s[1] = PPP_ALLSTATIONS /\ s[2] = PPP_UI THEN 3 ELSE 1

\* The flag: a frame ends, and packetInReady gets it if it is whole and for Ethernet.
FrameEnd ==
  LET hlen == HeaderLen(Gathered)
      len == Len(Gathered) - 2
  IN /\ inCtx' = InputReset
     /\ packetIn' =
          IF GoodFcs(Gathered) /\ len >= hlen /\ Gathered[hlen] = PPP_ETHERNET
            THEN [begin |-> hlen, len |-> len - hlen] ELSE packetIn

\* Any other octet, which is dropped before the first flag and when the buffer is full.
OctetIn(o) ==
  LET Stored(ch) == IF inCtx.ptr >= MaxIn THEN [inCtx EXCEPT !.mode = "normal"]
                    ELSE [buf |-> [inCtx.buf EXCEPT ![inCtx.ptr + 1] = ch],
                          ptr |-> inCtx.ptr + 1, mode |-> "normal"]
  IN /\ inCtx' = IF inCtx.mode = "hunt" THEN inCtx
                 ELSE IF inCtx.mode = "esc" THEN Stored(Trans(o))
                 ELSE IF o = PPP_ESCAPE THEN [inCtx EXCEPT !.mode = "esc"]
                 ELSE Stored(o)
     /\ UNCHANGED packetIn

\* Wrong: octets are taken while a packet waits.
Taken(o) == IF o = PPP_FLAG THEN FrameEnd ELSE OctetIn(o)

\* An octet while no packet waits; others are dropped.
Received(o) ==
  IF packetIn.len # 0 THEN UNCHANGED <<inCtx, packetIn>>
  ELSE IF o = PPP_FLAG THEN FrameEnd ELSE OctetIn(o)

USART3_IRQHandler ==
  /\ serial # <<>>
  /\ Received(Head(serial))
  /\ serial' = Tail(serial)
  /\ UNCHANGED <<peer, polled>>

\* With the interrupt off
HdlcPoll ==
  /\ packetIn.len > 0
  /\ polled' = Append(polled, SubSeq(inCtx.buf, packetIn.begin + 1, packetIn.begin + packetIn.len))
  /\ packetIn' = [packetIn EXCEPT !.len = 0]
  /\ UNCHANGED <<serial, peer, inCtx>>

HdlcNext == PeerSends \/ LineLoses \/ USART3_IRQHandler \/ HdlcPoll

HdlcSpec == HdlcInit /\ [][HdlcNext]_hdlcvars

-----------------------------------------------------------------------------
(* Properties *)

\* The packets that hdlcPoll takes are packets that the peer sent for Ethernet, whole,
\* in their order, and each once, whatever the line loses, and whenever the thread comes
\* (pppInputAppend, packetInReady, hdlcPoll).
HdlcIntact ==
  \E f \in [DOMAIN polled -> DOMAIN peer.frames] :
    \A i \in DOMAIN polled :
      /\ peer.frames[f[i]].data = polled[i]
      /\ peer.frames[f[i]].header[Len(peer.frames[f[i]].header)] = PPP_ETHERNET
      /\ i > 1 => f[i - 1] < f[i]
=============================================================================
