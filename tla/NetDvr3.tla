------------------------------ MODULE NetDvr3 ------------------------------
(***************************************************************************)
(* The frames() generator of drivers/netdvr3.py: connect, buffer the       *)
(* preamble up to the first frame header, then cut frames out of the byte  *)
(* stream, trusting a header's length only if another header follows, and  *)
(* scan for the next header (_resync) when none does.                      *)
(*                                                                         *)
(* Sizes are constants, so that TLC can use small ones.  A byte is "lead"  *)
(* of a header, one of the two bytes of MAGIC, the start code, a header's  *)
(* length field or anything else.  The device sends a preamble and then,   *)
(* one by one while the driver reads, frames, with lengths that wrap, and  *)
(* garbage.  MAGIC may stand anywhere: in a payload, in garbage, in the    *)
(* lead of a header, and across where one of them ends and the next        *)
(* begins.  Only a forged frame is left out (Unforged).                    *)
(***************************************************************************)
EXTENDS Integers, Sequences, FiniteSets, FiniteSetsExt

CONSTANTS
  Lead,         \* bytes of a header before its magic (4)
  LenMod,       \* the length field wraps here (2^16)
  Chunk,        \* bytes asked for at a time (4096)
  MaxPreamble,  \* _MAX_PREAMBLE
  MaxFrame,     \* _MAX_FRAME
  Preambles,    \* lengths of the preamble
  Leads,        \* what may stand before a header's magic: seq_a
  Bodies,       \* access units, behind their start code
  Garbage,      \* what may come between two frames
  MaxSegments   \* bound on the frames and garbage of one connection

ASSUME SizesAssumption == /\ Lead \in Nat \ {0} /\ LenMod \in Nat \ {0}
                          /\ Chunk \in Nat \ {0} /\ MaxSegments \in Nat
                          /\ MaxPreamble \in Nat /\ MaxFrame \in Nat
                          /\ Preambles \subseteq Nat

\* no length the field can hold is refused as too long: 2^16 + 3 < 4 MiB
ASSUME LengthAssumption == LenMod <= MaxFrame

-----------------------------------------------------------------------------
(* What the device sends.                                                   *)

Other == 0
M1 == -1
M2 == -2
StartCode == -3

Magic == <<M1, M2>>
HeaderLen == Lead + Len(Magic) + 1    \* the last byte is the length field
StartLen == 1

\* a header may be recognised once this much of it is there (8)
Peek == Lead + Len(Magic)

Bytes == {Other, M1, M2, StartCode}
ASSUME ContentAssumption == /\ Leads \subseteq {l \in Seq(Bytes) : Len(l) = Lead}
                            /\ Bodies \subseteq Seq(Bytes)
                            /\ Garbage \subseteq Seq(Bytes) \ {<<>>}

Plain(n) == [i \in 1 .. n |-> Other]
Frame(l, b) == l \o Magic \o <<Len(b) % LenMod, StartCode>> \o b
Segments == {[frame |-> TRUE, bytes |-> Frame(l, b)] : l \in Leads, b \in Bodies}
            \cup {[frame |-> FALSE, bytes |-> g] : g \in Garbage}

VARIABLES
  stream,     \* the bytes the device has sent
  sent,       \* the segments among them, as [frame, at, end] in the stream
  read,       \* how many bytes have been read
  buf,        \* buf: what of them has not been dealt with
  pc,         \* where frames() is
  scanned,    \* scanned, in _resync
  resyncs,    \* resyncs
  delivered   \* the payloads yielded, as [at, len] in the stream

device == <<stream, sent>>
vars == <<device, read, buf, pc, scanned, resyncs, delivered>>

Left == Len(stream) - read
At == read - Len(buf)    \* where buf begins in the stream

PCs == {"connect", "preamble", "header", "body", "resync", "yield", "closed"}

Init ==
  /\ stream = <<>> /\ sent = <<>>
  /\ read = 0 /\ buf = <<>> /\ pc = "connect"
  /\ scanned = 0 /\ resyncs = 0 /\ delivered = {}

-----------------------------------------------------------------------------
(* Pieces.                                                                  *)

MagicAt(s, i) == SubSeq(s, i + 1, i + Len(Magic)) = Magic

\* bytes.find(MAGIC), -1 if there is none
Find(s) == LET at == {i \in 0 .. Len(s) - Len(Magic) : MagicAt(s, i)}
           IN  IF at = {} THEN -1 ELSE Min(at)

Drop(s, n) == SubSeq(s, n + 1, Len(s))

\* buf with n more bytes read
Received(s, n) == s \o SubSeq(stream, read + 1, read + n)

\* parse_frame_header
HeaderOK == MagicAt(buf, Lead)
PayloadLen == (buf[HeaderLen] % LenMod) + StartLen

\* the end of the generator: an error, or its consumer's aclose()
Close == pc' = "closed" /\ UNCHANGED <<device, read, buf, scanned, resyncs, delivered>>

\* _read: exactly n bytes, or the connection ends or goes silent
Read(n) == /\ n <= Left
           /\ buf' = Received(buf, n) /\ read' = read + n
           /\ UNCHANGED <<device, pc, scanned, resyncs, delivered>>
ReadFails(n) == n > Left /\ Close

\* the bytes a state waits for
Wanted == CASE pc = "header" -> HeaderLen
            [] pc = "body" -> HeaderLen + PayloadLen + Peek
            [] OTHER -> 0
Short == Len(buf) < Wanted

-----------------------------------------------------------------------------
(* The preamble.                                                            *)

Connect ==
  /\ pc = "connect"
  /\ \/ /\ \E n \in Preambles : stream' = Plain(n)
        /\ pc' = "preamble"
        /\ UNCHANGED <<sent, read, buf, scanned, resyncs, delivered>>
     \/ Close

\* the magics in the stream, and those that are not a frame's own
Magics == {p \in 0 .. Len(stream) - Len(Magic) : MagicAt(stream, p)}
FalseMagics == {p \in Magics : \A i \in DOMAIN sent : sent[i].frame => p # sent[i].at + Lead}

\* an access unit's length behind its start code, and where the header of frame i
\* says that it ends
Length(i) == sent[i].end - sent[i].at - HeaderLen - StartLen
EndTold(i) == sent[i].at + HeaderLen + (Length(i) % LenMod) + StartLen

\* No false magic passes for a frame's: it has no start code where one would be, and
\* none stands where a length that wrapped has the next header.
Unforged ==
  \A p \in FalseMagics :
    /\ p + HeaderLen - Lead < Len(stream) => stream[p + HeaderLen - Lead + 1] # StartCode
    /\ \A i \in DOMAIN sent :
         sent[i].frame /\ Length(i) >= LenMod => p # EndTold(i) + Lead

\* the device sends its next frame, or garbage, at any time
DeviceSends ==
  /\ pc \notin {"connect", "closed"} /\ Len(sent) < MaxSegments
  /\ \E s \in Segments :
       /\ stream' = stream \o s.bytes
       /\ sent' = Append(sent, [frame |-> s.frame, at |-> Len(stream),
                                end |-> Len(stream) + Len(s.bytes)])
  /\ Unforged'
  /\ UNCHANGED <<read, buf, pc, scanned, resyncs, delivered>>

PreambleEnds ==
  /\ pc = "preamble" /\ Find(buf) >= Lead
  /\ buf' = Drop(buf, Find(buf) - Lead)
  /\ pc' = "header"
  /\ UNCHANGED <<device, read, scanned, resyncs, delivered>>

\* read() returns what is there, up to Chunk
PreambleRead ==
  /\ pc = "preamble" /\ Find(buf) < Lead
  /\ IF Len(buf) > MaxPreamble \/ Left = 0
     THEN Close
     ELSE \E n \in 1 .. Min({Chunk, Left}) : Read(n)

-----------------------------------------------------------------------------
(* The frame loop.                                                          *)

Fill == Short /\ (Read(Wanted - Len(buf)) \/ ReadFails(Wanted - Len(buf)))

\* faulty variant: the bad header candidate is scanned again
CandidateKept == buf

\* past the bad header candidate
PastCandidate == Drop(buf, Lead)

StartResync ==
  /\ pc' = "resync" /\ buf' = PastCandidate
  /\ scanned' = 0 /\ resyncs' = resyncs + 1
  /\ UNCHANGED <<device, read, delivered>>

ParseHeader ==
  /\ pc = "header" /\ ~Short
  /\ IF HeaderOK /\ PayloadLen <= MaxFrame
     THEN pc' = "body" /\ UNCHANGED <<device, read, buf, scanned, resyncs, delivered>>
     ELSE StartResync

\* faulty variant: the length is believed
BoundaryTrusted(need) == buf[HeaderLen + 1] = StartCode

\* the payload starts as one does and a header follows it
Boundary(need) == buf[HeaderLen + 1] = StartCode /\ MagicAt(buf, need + Lead)

\* faulty variants: a frame stays in the buffer when it is yielded, or is taken
\* from it with the header that was peeked at
NothingTaken(need) == buf
HeaderTakenToo(need) == Drop(buf, need + Peek)

Taken(need) == Drop(buf, need)

Deliver ==
  /\ pc = "body" /\ ~Short
  /\ LET need == HeaderLen + PayloadLen
     IN  IF Boundary(need)
         THEN /\ delivered' = delivered \cup {[at |-> At + HeaderLen, len |-> PayloadLen]}
              /\ buf' = Taken(need)
              /\ pc' = "yield"
              /\ UNCHANGED <<device, read, scanned, resyncs>>
         ELSE StartResync

\* the consumer asks for the next frame
Resume ==
  /\ pc = "yield" /\ pc' = "header"
  /\ UNCHANGED <<device, read, buf, scanned, resyncs, delivered>>

-----------------------------------------------------------------------------
(* _resync.                                                                 *)

\* faulty variants: a tail too short for a split header, and no tail cut at all
KeptTailShort == Peek - 2
CutNothing(s) == s

\* what is kept when no magic is found: it may hold all of a header but one byte
KeptTail == Peek - 1
Cut(s) == IF Len(s) > KeptTail THEN Drop(s, Len(s) - KeptTail) ELSE s

\* faulty variant: the bytes before the magic are dropped too
ToMagic(s) == Drop(s, Find(s))

ToHeader(s) == Drop(s, Find(s) - Lead)

Resynced ==
  /\ pc = "resync" /\ Find(buf) >= Lead
  /\ buf' = ToHeader(buf) /\ pc' = "header"
  /\ UNCHANGED <<device, read, scanned, resyncs, delivered>>

\* one turn of the loop: skip a magic whose header is gone, or cut all but a
\* tail; give up, or read on
Rescan ==
  /\ pc = "resync" /\ Find(buf) < Lead
  /\ LET i == Find(buf)
         kept == IF i # -1 THEN Drop(buf, i + Len(Magic)) ELSE Cut(buf)
     IN  /\ scanned' = IF i # -1 THEN scanned ELSE scanned + Len(buf) - Len(kept)
         /\ IF scanned' > MaxFrame \/ Chunk > Left
            THEN pc' = "closed" /\ buf' = kept /\ UNCHANGED read
            ELSE buf' = Received(kept, Chunk) /\ read' = read + Chunk /\ UNCHANGED pc
  /\ UNCHANGED <<device, resyncs, delivered>>

\* aclose() or a cancellation, at any await
Abandoned == pc # "closed" /\ Close

Next == \/ Connect \/ DeviceSends \/ PreambleEnds \/ PreambleRead \/ Fill \/ ParseHeader \/ Deliver
        \/ Resume \/ Resynced \/ Rescan \/ Abandoned

Spec == Init /\ [][Next]_vars

-----------------------------------------------------------------------------
\* The access unit behind the header of frame i.
AccessUnit(i) == [at |-> sent[i].at + HeaderLen,
                  len |-> sent[i].end - sent[i].at - HeaderLen]

\* A frame the driver can know to be whole: its length did not wrap and a magic
\* stands where the next header's would.
Sound(i) == /\ sent[i].frame /\ Length(i) < LenMod
            /\ sent[i].end + Lead \in Magics

\* No magic runs into frame i's lead, or lies in it: scanning for headers, one takes
\* the frame's own for something else.
Clear(i) == \A p \in sent[i].at - Len(Magic) + 1 .. sent[i].at + Lead - 1 : p \notin Magics

\* Every resync leaves a byte behind, so that no loop of them is endless.
TypeOK ==
  /\ read \in 0 .. Len(stream) /\ Len(buf) <= read
  /\ pc \in PCs
  /\ scanned \in Nat /\ resyncs \in 0 .. At
  /\ \A d \in delivered : d.at \in 1 .. Len(stream) /\ d.len \in 1 .. LenMod

\* Every payload yielded is one whole access unit of the device's, never the
\* end of one joined to the beginning of another.
NoSplice == \A d \in delivered : \E i \in 1 .. Len(sent) : Sound(i) /\ d = AccessUnit(i)

\* Frames are yielded in the order the device sent them and none twice, over
\* every resync: each payload lies behind all the earlier ones.
YieldedInOrder ==
  [][pc = "body" /\ pc' = "yield" =>
       \E d \in delivered' : \A e \in delivered : e.at < d.at]_vars

\* Damage costs the damaged frames, and those a magic runs into the beginning of: the
\* parser drops no byte of any other sound frame without yielding it.
SoundKept ==
  \A i \in 1 .. Len(sent) :
    Sound(i) /\ Clear(i) /\ sent[i].at < At => AccessUnit(i) \in delivered

\* The generator's promise as a whole: the units that can be known to be whole, each
\* at most once, in order and with only unclear ones left out, one for each time it is
\* resumed.
Whole == {i \in 1 .. Len(sent) : Sound(i)}
Source == INSTANCE FrameSource
            WITH Numbers <- 1 .. MaxSegments, whole <- Whole,
                 hidden <- {i \in Whole : ~Clear(i)},
                 yielded <- {i \in Whole : AccessUnit(i) \in delivered},
                 state <- CASE pc = "yield" -> "handed" [] pc = "closed" -> "ended"
                            [] OTHER -> "fetching"

ImplementsFrameSource == Source!SourceSpec

\* The frame loop only ever looks at a header that has its magic: the peek, the
\* resync and the preamble all leave buf at one.
HeaderUnderMagic == pc = "header" /\ Len(buf) >= Peek => HeaderOK

\* what the preamble, or one frame and the header behind it, may need
Room == Max({MaxPreamble, HeaderLen + StartLen + LenMod - 1 + Peek})
LeftBehind == {p \in Magics : p < At}
Limit == Room + Chunk * (Cardinality(LeftBehind) + 1)

\* The buffer holds no more than the preamble or one frame may need, and a chunk
\* for every magic it has left behind.
BufferBounded == Len(buf) <= Limit
=============================================================================
