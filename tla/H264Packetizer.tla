--------------------------- MODULE H264Packetizer ---------------------------
(***************************************************************************)
(* rtsp/rtp.py: the RTP packets of one viewer (RFC 6184).  An access unit  *)
(* becomes packets whose payload is a NAL unit, or a fragment (FU-A) of    *)
(* one that is longer than the MTU.  A step is a turn of packetize's loops. *)
(***************************************************************************)
EXTENDS Integers, Sequences

CONSTANTS
  Mtu,     \* the longest payload (1400)
  SeqSpace   \* RTP sequence numbers wrap here (2^16)

ASSUME PacketizerAssumption == Mtu \in Nat /\ Mtu > 2 /\ SeqSpace \in Nat \ {0}

VARIABLES
  seq,   \* the next packet's sequence number
  out,   \* the packets of the access unit
  cur,   \* the NAL unit packetize is at, 0 if it has not begun
  off    \* how much of the body of this one has been sent

packetizerVars == <<seq, out, cur, off>>

FU_A == 28
Type(b) == b % 32         \* b & 0x1F
Nri(b) == b - Type(b)     \* b & 0xE0, of a byte below 256

Chunk == Mtu - 2

\* faulty variant: no `& 0xFFFF`
Unwrapped(n) == n + 1

\* the sequence number after n
Following(n) == (n + 1) % SeqSpace

Emit(payload, marker, ts90k) ==
  /\ out' = Append(out, [payload |-> payload, marker |-> marker, seq |-> seq, ts |-> ts90k])
  /\ seq' = Following(seq)

\* faulty variant: every NAL unit ends with a marker
LastNalAlways(units) == TRUE

LastNal(units) == cur = Len(units)

Packetize == cur' = 1 /\ off' = 0 /\ out' = <<>> /\ UNCHANGED seq

\* a NAL unit that fits in a packet; an empty one is skipped
SendWhole(units, ts90k) ==
  /\ Len(units[cur]) <= Mtu
  /\ IF units[cur] = <<>> THEN UNCHANGED <<out, seq>>
     ELSE Emit(units[cur], LastNal(units), ts90k)
  /\ cur' = cur + 1 /\ UNCHANGED off

\* faulty variant: a piece that fills its packet is never the last
EndLate(body) == off + Chunk > Len(body)

End(body) == off + Chunk >= Len(body)

\* indicator, and header with its start and end bits
Indicator(nal) == Nri(nal[1]) + FU_A
Header(nal, end) == (IF off = 0 THEN 128 ELSE 0) + (IF end THEN 64 ELSE 0) + Type(nal[1])

\* the next piece of one that does not fit
SendPiece(units, ts90k) ==
  LET nal == units[cur]
      body == Tail(nal)
      more == off + Chunk < Len(body)
      piece == SubSeq(body, off + 1, IF more THEN off + Chunk ELSE Len(body))
  IN  /\ Len(nal) > Mtu
      /\ Emit(<<Indicator(nal), Header(nal, End(body))>> \o piece,
              LastNal(units) /\ End(body), ts90k)
      /\ IF more THEN off' = off + Chunk /\ UNCHANGED cur ELSE off' = 0 /\ cur' = cur + 1

PacketizerInit == seq = 0 /\ out = <<>> /\ cur = 0 /\ off = 0
=============================================================================
