------------------------------- MODULE Media -------------------------------
(***************************************************************************)
(* What becomes of an access unit between the device and a viewer: its     *)
(* bytes are split into NAL units and its timestamp mapped (hub.py), the   *)
(* item waits in a subscriber's queue or is lost to a full one, and the    *)
(* pump makes it RTP packets (rtsp/rtp.py).  A receiver, written from      *)
(* tests/test_rtp.py, puts it together again.                              *)
(***************************************************************************)
EXTENDS TimestampMapper, H264Packetizer, AnnexB

CONSTANT AccessUnits   \* what devices send: bytes, and where [at, end] the NAL units are

\* Annex B: a start code comes before each NAL unit and nowhere else, zeros at
\* most between a NAL unit, which does not end with one, and the next start code.
\* No device sends RTP's own NAL unit type.
AnnexBUnit(au) ==
  LET count == Len(au.nals)
  IN  /\ au.bytes \in Seq(0 .. 255) /\ au.nals \in Seq([at : Nat, end : Nat])
      /\ \A n \in 1 .. count :
           /\ au.nals[n].at >= 3 /\ au.nals[n].at < au.nals[n].end
           /\ Type(au.bytes[au.nals[n].at + 1]) # FU_A
      /\ count > 0 => au.nals[count].end = Len(au.bytes)
      /\ \A m, n \in 1 .. count : m < n => au.nals[m].end + 3 <= au.nals[n].at
      /\ \A n \in 1 .. count - 1 :
           /\ au.bytes[au.nals[n].end] # 0
           /\ \A p \in au.nals[n].end + 1 .. au.nals[n + 1].at - 3 : au.bytes[p] = 0
      /\ \A i \in 0 .. Len(au.bytes) - 3 :
           StartCodeAt(au.bytes, i) <=> \E n \in 1 .. count : i + 3 = au.nals[n].at

ASSUME AccessUnitAssumption == \A au \in AccessUnits : AnnexBUnit(au)

VARIABLES
  pc,      \* where the access unit is
  unit,    \* history: the access unit
  viewer,  \* history: what the receiver has made of `out`
  last     \* history: the last sequence number sent before `out`

mediaVars == <<vars, splitVars, packetizerVars, pc, unit, viewer, last>>

\* "split" by iter_nals, "queued", "send" while packetize is at it, "sent" when it
\* is through
PCs == {"idle", "split", "queued", "send", "sent"}

NoUnit == [bytes |-> <<>>, nals |-> <<>>]
Nothing == [nals |-> <<>>, fu |-> <<>>]

MediaInit == /\ Init /\ SplitInit /\ PacketizerInit
             /\ pc = "idle" /\ unit = NoUnit /\ viewer = Nothing /\ last = SeqSpace - 1

\* A frame from the device.  Items are packetised in the order they were queued
\* and nothing but `seq` is carried over, so that it shows everything to take
\* each out before the next is put in.
DeviceFrame(ts, elapsed, au) ==
  /\ pc = "idle" /\ pc' = "split"
  /\ Map(ts, elapsed)
  /\ Split(au.bytes) /\ unit' = au
  /\ UNCHANGED <<packetizerVars, viewer, last>>

SplitNal ==
  /\ pc = "split" /\ SplitNext(unit.bytes)
  /\ UNCHANGED <<vars, packetizerVars, pc, unit, viewer, last>>

Done == pc' = "idle" /\ unit' = NoUnit /\ nals' = <<>> /\ UNCHANGED <<vars, code, seq>>

\* the item is queued, or dropped for a viewer that waits for a keyframe or has a
\* full queue; without a NAL unit there is none
Offer ==
  /\ pc = "split" /\ code = -1
  /\ \/ nals # <<>> /\ pc' = "queued" /\ UNCHANGED <<vars, splitVars, seq, unit>>
     \/ Done
  /\ UNCHANGED <<out, cur, off, viewer, last>>

\* the pump takes the item
Relay ==
  /\ pc = "queued" /\ pc' = "send" /\ Packetize
  /\ UNCHANGED <<vars, splitVars, unit, viewer, last>>

\* a receiver takes one packet: a whole NAL unit, or a piece of one
Receive(r, pkt) ==
  LET p == pkt.payload
      begun == IF p[2] >= 128 THEN <<Nri(p[1]) + Type(p[2])>> ELSE r.fu
      grown == begun \o SubSeq(p, 3, Len(p))
  IN IF Type(p[1]) # FU_A THEN [r EXCEPT !.nals = Append(@, p)]
     ELSE IF (p[2] \div 64) % 2 = 1 THEN [nals |-> Append(r.nals, grown), fu |-> <<>>]
     ELSE [r EXCEPT !.fu = grown]

\* the next packet of the item, stamped with its frame's time
SendPacket ==
  /\ pc = "send"
  /\ SendWhole(nals, sent) \/ SendPiece(nals, sent)
  /\ viewer' = IF out' = out THEN viewer ELSE Receive(viewer, out'[Len(out')])
  /\ pc' = IF cur' > Len(nals) THEN "sent" ELSE "send"
  /\ UNCHANGED <<vars, splitVars, unit, last>>

\* the packets leave for the viewer
Written ==
  /\ pc = "sent" /\ Done
  /\ out' = <<>> /\ cur' = 0 /\ UNCHANGED off /\ viewer' = Nothing
  /\ last' = IF out = <<>> THEN last ELSE out[Len(out)].seq

\* at an await: neither iter_nals nor packetize has one
DriverReconnects ==
  /\ pc \notin {"split", "send"} /\ Reconnect
  /\ UNCHANGED <<splitVars, packetizerVars, pc, unit, viewer, last>>

MediaNext ==
  \/ \E ts \in Stamps \cup {None}, elapsed \in 0 .. MaxElapsed, au \in AccessUnits :
       DeviceFrame(ts, elapsed, au)
  \/ SplitNal \/ Offer \/ Relay \/ SendPacket \/ Written \/ DriverReconnects

MediaSpec == MediaInit /\ [][MediaNext]_mediaVars

-----------------------------------------------------------------------------
MediaTypeOK == /\ TypeOK
               /\ seq \in 0 .. SeqSpace - 1 /\ last \in 0 .. SeqSpace - 1
               /\ pc \in PCs /\ (unit \in AccessUnits \/ unit = NoUnit)
               /\ code \in -1 .. Len(unit.bytes) /\ Len(nals) <= Len(unit.nals)
               /\ cur \in 0 .. Len(nals) + 1 /\ off \in Nat

\* A viewer gets the very NAL units the device sent, in their order, whatever
\* start codes and header bytes they came with and however they were cut.
Nal(n) == SubSeq(unit.bytes, unit.nals[n].at + 1, unit.nals[n].end)
NalsArrive ==
  /\ \A n \in DOMAIN viewer.nals : n <= Len(unit.nals) /\ viewer.nals[n] = Nal(n)
  /\ pc = "sent" => Len(viewer.nals) = Len(unit.nals) /\ viewer.fu = <<>>

\* tests/test_rtp.py: the marker tells the end of an access unit, its packets
\* carry its frame's timestamp, and none is longer than the MTU.
UnitFramed ==
  \A n \in DOMAIN out : /\ out[n].marker <=> n = Len(out) /\ pc = "sent"
                        /\ out[n].ts = sent
                        /\ Len(out[n].payload) <= Mtu

\* Nothing the bridge drops looks like a loss on the network: the sequence
\* numbers a receiver sees have no gap, within and across access units, and
\* wrap with it.
NoGapSeen ==
  \A n \in DOMAIN out :
    out[n].seq = ((IF n = 1 THEN last ELSE out[n - 1].seq) + 1) % SeqSpace
=============================================================================
