------------------------------ MODULE MCMedia ------------------------------
(* Small instances of Media for TLC. *)
EXTENDS Media, SequencesExt

\* a NAL unit of n bytes; 0x67, 0x68, 0x65, 0x41 head an SPS, PPS, IDR slice
\* and P slice
Bytes(head, n) == [k \in 1 .. n |-> IF k = 1 THEN head ELSE k]
Escaped == <<65, 0, 0, 3, 1>>   \* an emulation prevention byte

\* a NAL unit behind a start code
Coded(au, c, nal) ==
  [bytes |-> au.bytes \o (IF c = 4 THEN <<0, 0, 0, 1>> ELSE <<0, 0, 1>>) \o nal,
   nals |-> Append(au.nals, [at |-> Len(au.bytes) + c,
                             end |-> Len(au.bytes) + c + Len(nal)])]

\* the access unit behind what precedes it, and the lengths of its start codes
Unit(junk, codes, units) ==
  FoldLeft(LAMBDA au, n : Coded(au, codes[n], units[n]),
           [bytes |-> junk, nals |-> <<>>], [n \in DOMAIN units |-> n])

\* none, a DVR's frame header, zeros that run into the start code
Junk == {<<>>, <<99, 0, 12, 0>>, <<1, 0>>}

\* around an MTU of 4: shorter, as long as it, one longer, whole chunks and not;
\* start codes of both lengths; and no NAL unit at all
MCUnits ==
  {Unit(<<>>, <<4, c, 7 - c>>, <<Bytes(103, 5), Bytes(104, 2), Bytes(101, n)>>) :
     c \in {3, 4}, n \in {4, 9}}
  \cup {Unit(<<>>, <<3>>, <<Bytes(65, n)>>) : n \in 1 .. 8}
  \cup {Unit(j, <<3>>, <<Bytes(65, 6)>>) : j \in Junk}
  \cup {Unit(<<>>, <<c, 7 - c>>, <<Bytes(101, 7), Escaped>>) : c \in {3, 4}}
  \cup {Unit(j, <<>>, <<>>) : j \in Junk}
=============================================================================
