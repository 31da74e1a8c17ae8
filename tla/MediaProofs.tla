----------------------------- MODULE MediaProofs -----------------------------
(***************************************************************************)
(* Proofs about an access unit's way from the device to a viewer: about    *)
(* TimestampMapper for every width of the two clocks and every limit on a  *)
(* step, and about Media for every access unit, MTU and sequence space.    *)
(***************************************************************************)
EXTENDS Media, SequenceTheorems, TLAPS

-----------------------------------------------------------------------------
(* Arithmetic modulo n, within one wrap.                                     *)

LEMMA ModRange ==
  ASSUME NEW n \in Nat \ {0}, NEW a \in Int
  PROVE  a % n \in 0 .. n - 1
BY Z3

LEMMA ModSmall ==
  ASSUME NEW n \in Nat \ {0}, NEW a \in 0 .. n - 1
  PROVE  a % n = a
BY Z3

LEMMA ModOver ==
  ASSUME NEW n \in Nat \ {0}, NEW a \in n .. 2 * n - 1
  PROVE  a % n = a - n
BY Z3

LEMMA ModUnder ==
  ASSUME NEW n \in Nat \ {0}, NEW a \in Int, -n <= a, a < 0
  PROVE  a % n = a + n
BY Z3

\* A step of d from r, wrapped: what it amounts to modulo n is d again, and it
\* comes back to r only when d is 0.
LEMMA StepModulo ==
  ASSUME NEW n \in Nat \ {0}, NEW r \in 0 .. n - 1, NEW d \in 0 .. n - 1
  PROVE  /\ (((r + d) % n) - r) % n = d
         /\ d # 0 => (r + d) % n # r
<1>0. r \in Int /\ d \in Int
  OBVIOUS
<1>1. CASE r + d < n
  <2>1. (r + d) % n = r + d
    BY <1>1, ModSmall
  <2>2. d % n = d
    BY ModSmall
  <2>3. (r + d) - r = d
    BY <1>0
  <2> QED BY <2>1, <2>2, <2>3
<1>2. CASE r + d >= n
  <2>1. (r + d) % n = r + d - n
    <3>1. r + d \in n .. 2 * n - 1
      BY <1>0, <1>2
    <3> QED BY <3>1, ModOver
  <2>2. (d - n) % n = d
    <3>1. d - n \in Int /\ -n <= d - n /\ d - n < 0
      OBVIOUS
    <3>2. (d - n) % n = (d - n) + n
      BY <3>1, ModUnder
    <3> QED BY <3>2
  <2>3. r + d - n - r = d - n
    OBVIOUS
  <2> QED BY <2>1, <2>2, <2>3
<1> QED BY <1>1, <1>2

-----------------------------------------------------------------------------
(* One frame.                                                                *)

LEMMA DeltaBound ==
  ASSUME TypeOK, NEW ts \in Stamps \cup {None}, NEW elapsed \in 0 .. MaxElapsed
  PROVE  /\ Delta(ts, elapsed) \in 0 .. MaxDelta
         /\ started /\ ts = None => Delta(ts, elapsed) # 0
<1> USE ModuliAssumption, StepAssumption, LimitsAssumption
<1>1. CASE ts = None \/ lastMs = None
  BY <1>1 DEF Delta, WallDelta, Clamp
<1>2. CASE ts # None /\ lastMs # None
  <2>1. DeviceDelta(ts) \in 0 .. MsMod - 1
    BY <1>2, ModRange DEF DeviceDelta, TypeOK, Stamps
  <2> QED BY <1>2, <2>1 DEF Delta, Glitch, TypeOK
<1> QED BY <1>1, <1>2

\* The RTP step is below the wrap: what % gives of the difference is the step taken.
LEMMA UnitsBound ==
  ASSUME NEW d \in 0 .. MaxDelta
  PROVE  /\ d * Rate \in 0 .. RtpMod - 1
         /\ d * Rate <= MaxDelta * Rate
         /\ d # 0 => d * Rate # 0
<1>1. d * Rate <= MaxDelta * Rate /\ d * Rate \in Nat
  BY StepAssumption
<1>2. MaxDelta * Rate < RtpMod /\ RtpMod \in Nat
  BY ModuliAssumption, StepAssumption
<1>3. d # 0 => d * Rate # 0
  BY StepAssumption
<1> QED BY <1>1, <1>2, <1>3, StepAssumption

LEMMA MapStep ==
  ASSUME TypeOK, NEW ts \in Stamps \cup {None}, NEW elapsed \in 0 .. MaxElapsed,
         Map(ts, elapsed)
  PROVE  /\ rtp' \in 0 .. RtpMod - 1
         /\ Forward(rtp, rtp')
         /\ started /\ ts = None => rtp' # rtp
<1> DEFINE d == Delta(ts, elapsed)
<1>1. d \in 0 .. MaxDelta /\ (started /\ ts = None => d # 0)
  BY DeltaBound
<1> HIDE DEF d
<1>2. /\ d * Rate \in 0 .. RtpMod - 1 /\ d * Rate <= MaxDelta * Rate
      /\ d # 0 => d * Rate # 0
  BY <1>1, UnitsBound
<1>3. rtp' = (rtp + d * Rate) % RtpMod
  BY DEF Map, Advance, d
<1>4. rtp \in 0 .. RtpMod - 1 /\ RtpMod \in Nat \ {0}
  BY ModuliAssumption DEF TypeOK
<1> DEFINE u == d * Rate
<1>5. u \in 0 .. RtpMod - 1 /\ rtp' = (rtp + u) % RtpMod
  BY <1>2, <1>3
<1>6. u <= MaxDelta * Rate /\ (d # 0 => u # 0)
  BY <1>2
<1> HIDE DEF u
<1>7. (rtp' - rtp) % RtpMod = u /\ (u # 0 => rtp' # rtp)
  BY <1>4, <1>5, StepModulo
<1>8. rtp' \in 0 .. RtpMod - 1
  BY <1>4, <1>5, ModRange
<1> QED BY <1>1, <1>6, <1>7, <1>8 DEF Forward

LEMMA AverageType ==
  ASSUME typical \in 1 .. MaxDelta, NEW d \in 1 .. MaxDelta
  PROVE  Average(d) \subseteq 1 .. MaxDelta
BY StepAssumption DEF Average

LEMMA MapType ==
  ASSUME TypeOK, NEW ts \in Stamps \cup {None}, NEW elapsed \in 0 .. MaxElapsed,
         Map(ts, elapsed)
  PROVE  TypeOK'
<1>1. typical' \in 1 .. MaxDelta
  <2>1. CASE Learns(ts)
    <3>1. DeviceDelta(ts) \in 1 .. MaxDelta
      <4>1. DeviceDelta(ts) \in 0 .. MsMod - 1
        BY <2>1, ModRange, ModuliAssumption DEF Learns, DeviceDelta, TypeOK, Stamps
      <4> QED BY <2>1, <4>1, ModuliAssumption, StepAssumption DEF Learns, Glitch
    <3> QED BY <2>1, <3>1, AverageType DEF Map, TypeOK
  <2>2. CASE ~Learns(ts)
    BY <2>2 DEF Map, TypeOK
  <2> QED BY <2>1, <2>2
<1> QED BY <1>1, MapStep DEF Map, TypeOK

\* what a new mapper starts with
LEMMA FreshType == 0 \in 0 .. RtpMod - 1 /\ TypicalMs \in 1 .. MaxDelta
<1>1. 0 \in 0 .. RtpMod - 1
  BY ModuliAssumption
<1> QED BY <1>1, StepAssumption

LEMMA StepMapper == TypeOK /\ [Next]_vars => TypeOK'
<1> SUFFICES ASSUME TypeOK, [Next]_vars PROVE TypeOK'
  OBVIOUS
<1>1. ASSUME NEW ts \in Stamps \cup {None}, NEW elapsed \in 0 .. MaxElapsed,
             Map(ts, elapsed)
      PROVE  TypeOK'
  BY <1>1, MapType
<1>2. CASE Reconnect
  <2>1. connections' \in 0 .. Reconnects
    BY <1>2, LimitsAssumption DEF Reconnect, TypeOK
  <2> QED BY <1>2, <2>1, FreshType DEF Reconnect, FreshMapper, TypeOK
<1>3. CASE UNCHANGED vars
  BY <1>3 DEF vars, TypeOK
<1> QED BY <1>1, <1>2, <1>3 DEF Next

LEMMA InitMapper == Init => TypeOK
<1>1. 0 \in 0 .. Reconnects
  BY LimitsAssumption
<1> QED BY <1>1, FreshType DEF Init, TypeOK

-----------------------------------------------------------------------------
\* hub.py 44-45, "the RTP timeline never goes backwards": within a connection no
\* device clock, however it jumps, moves it back or on by more than a delta.
THEOREM MapperGoesForward == Spec => MapperForward
<1>1. TypeOK /\ [Next]_vars => [connections' = connections => Forward(rtp, rtp')]_vars
  BY MapStep, LimitsAssumption DEF Next, Reconnect, TypeOK
<1> QED BY InitMapper, StepMapper, <1>1, PTL DEF Spec, MapperForward

\* hub.py 60: a frame without a clock never has the stamp of the frame before it,
\* however soon it follows.
THEOREM ClocklessFramesAdvance == Spec => ClocklessAdvance
<1>1. TypeOK /\ [Next]_vars =>
        [connections' = connections /\ started /\ lastMs' = None => rtp' # rtp]_vars
  <2> SUFFICES ASSUME TypeOK, Next, connections' = connections, started, lastMs' = None
               PROVE  rtp' # rtp
    OBVIOUS
  <2>1. ~Reconnect
    BY LimitsAssumption DEF Reconnect, TypeOK
  <2> QED BY <2>1, MapStep DEF Next, Map
<1> QED BY InitMapper, StepMapper, <1>1, PTL DEF Spec, ClocklessAdvance

-----------------------------------------------------------------------------
(* iter_nals on one access unit.                                             *)

Byte == 0 .. 255

LEMMA LeastIs ==
  ASSUME NEW T, T \subseteq Int, NEW c \in T, \A y \in T : c <= y
  PROVE  Min(T) = c
<1>1. \E x \in T : \A y \in T : x <= y
  OBVIOUS
<1>2. Min(T) \in T /\ \A y \in T : Min(T) <= y
  BY <1>1 DEF Min
<1>3. Min(T) <= c /\ c <= Min(T) /\ Min(T) \in Int /\ c \in Int
  BY <1>2
<1> QED BY <1>3

LEMMA LargestIs ==
  ASSUME NEW T, T \subseteq Int, NEW c \in T, \A y \in T : y <= c
  PROVE  Max(T) = c
<1>1. \E x \in T : \A y \in T : x >= y
  OBVIOUS
<1>2. Max(T) \in T /\ \A y \in T : Max(T) >= y
  BY <1>1 DEF Max
<1>3. Max(T) <= c /\ c <= Max(T) /\ Max(T) \in Int /\ c \in Int
  BY <1>2
<1> QED BY <1>3

LEMMA UnitIs ==
  ASSUME NEW au, AnnexBUnit(au)
  PROVE  /\ au.bytes \in Seq(Byte) /\ Len(au.bytes) \in Nat /\ Len(au.nals) \in Nat
         /\ \A n \in 1 .. Len(au.nals) :
              /\ au.nals[n].at \in Nat /\ au.nals[n].end \in Nat
              /\ au.nals[n].at >= 3 /\ au.nals[n].at < au.nals[n].end
              /\ au.nals[n].end <= Len(au.bytes)
<1>1. /\ au.bytes \in Seq(Byte) /\ au.nals \in Seq([at : Nat, end : Nat])
      /\ Len(au.bytes) \in Nat /\ Len(au.nals) \in Nat
  BY LenProperties DEF AnnexBUnit, Byte
<1>2. ASSUME NEW n \in 1 .. Len(au.nals)
      PROVE  /\ au.nals[n].at \in Nat /\ au.nals[n].end \in Nat
             /\ au.nals[n].at >= 3 /\ au.nals[n].at < au.nals[n].end
    <2>1. au.nals[n] \in [at : Nat, end : Nat]
      BY <1>1, ElementOfSeq
    <2> QED BY <2>1 DEF AnnexBUnit
<1>3. ASSUME NEW n \in 1 .. Len(au.nals)
      PROVE  au.nals[n].end <= Len(au.bytes)
  <2>1. Len(au.nals) \in 1 .. Len(au.nals) /\ Len(au.nals) > 0
    BY <1>1
  <2>2. au.nals[Len(au.nals)].end = Len(au.bytes)
    BY <2>1 DEF AnnexBUnit
  <2>3. CASE n < Len(au.nals)
    <3>1. au.nals[n].end + 3 <= au.nals[Len(au.nals)].at
      BY <2>1, <2>3 DEF AnnexBUnit
    <3>2. au.nals[Len(au.nals)].at < au.nals[Len(au.nals)].end
      BY <1>2, <2>1
    <3>3. /\ au.nals[n].end \in Nat /\ au.nals[Len(au.nals)].at \in Nat
          /\ au.nals[Len(au.nals)].end \in Nat
      BY <1>2, <2>1
    <3> DEFINE e == au.nals[n].end
               a == au.nals[Len(au.nals)].at
               b == au.nals[Len(au.nals)].end
    <3>4. e + 3 <= a /\ a < b /\ b = Len(au.bytes) /\ e \in Nat /\ a \in Nat /\ b \in Nat
      BY <2>2, <3>1, <3>2, <3>3
    <3>5. e <= b
      <4> HIDE DEF e, a, b
      <4> QED BY <3>4
    <3> QED BY <2>2, <3>5
  <2>4. CASE n = Len(au.nals)
    BY <1>1, <2>2, <2>4
  <2> QED BY <1>1, <2>3, <2>4
<1> QED BY <1>1, <1>2, <1>3

\* The next start code found is that of the next NAL unit.
LEMMA FindsNext ==
  ASSUME NEW au, AnnexBUnit(au), NEW n \in 1 .. Len(au.nals),
         NEW from \in Nat, from <= au.nals[n].at - 3,
         \A m \in 1 .. Len(au.nals) : m < n => au.nals[m].at - 3 < from
  PROVE  FindCode(au.bytes, from) = au.nals[n].at - 3
<1> DEFINE codes == {i \in from .. Len(au.bytes) - 3 : StartCodeAt(au.bytes, i)}
           c == au.nals[n].at - 3
<1>1. /\ c \in Nat /\ from <= c /\ c <= Len(au.bytes) - 3 /\ c + 3 = au.nals[n].at
      /\ Len(au.bytes) \in Nat
  BY UnitIs, SMTT(30)
<1>2. c \in codes
  <2>1. c \in 0 .. Len(au.bytes) - 3 /\ c \in from .. Len(au.bytes) - 3
    BY <1>1
  <2>2. StartCodeAt(au.bytes, c)
    <3> HIDE DEF c
    <3> QED BY <1>1, <2>1 DEF AnnexBUnit
  <2> QED BY <2>1, <2>2
<1>3. ASSUME NEW i \in codes
      PROVE  c <= i
  <2>1. i \in 0 .. Len(au.bytes) - 3 /\ from <= i /\ StartCodeAt(au.bytes, i)
    BY <1>1
  <2>2. PICK m \in 1 .. Len(au.nals) : i + 3 = au.nals[m].at
    BY <2>1 DEF AnnexBUnit
  <2>3. ~(m < n)
    BY <2>1, <2>2
  <2>4. CASE m = n
    BY <2>1, <2>2, <2>4
  <2>5. CASE n < m
    <3>1. au.nals[n].end + 3 <= au.nals[m].at
      BY <2>5 DEF AnnexBUnit
    <3>2. au.nals[n].at \in Nat /\ au.nals[n].end \in Nat /\ au.nals[n].at < au.nals[n].end
      BY UnitIs
    <3> QED BY <2>1, <2>2, <3>1, <3>2
  <2> QED BY <2>3, <2>4, <2>5, UnitIs
<1> HIDE DEF c
<1>4. Min(codes) = c
  <2>1. \A i \in codes : i \in Int
    BY <1>1
  <2> HIDE DEF codes
  <2> QED BY <1>2, <1>3, <2>1, LeastIs
<1>5. FindCode(au.bytes, from) = IF codes = {} THEN -1 ELSE Min(codes)
  BY DEF FindCode
<1> HIDE DEF codes
<1> QED BY <1>2, <1>4, <1>5 DEF c

LEMMA FindsNoMore ==
  ASSUME NEW au, AnnexBUnit(au), NEW from \in Nat,
         \A m \in 1 .. Len(au.nals) : au.nals[m].at - 3 < from
  PROVE  FindCode(au.bytes, from) = -1
<1> DEFINE codes == {i \in from .. Len(au.bytes) - 3 : StartCodeAt(au.bytes, i)}
<1>1. ASSUME NEW i \in codes
      PROVE  FALSE
  <2>1. i \in 0 .. Len(au.bytes) - 3 /\ from <= i /\ StartCodeAt(au.bytes, i)
    BY UnitIs
  <2>2. PICK m \in 1 .. Len(au.nals) : i + 3 = au.nals[m].at
    BY <2>1 DEF AnnexBUnit
  <2> QED BY <2>1, <2>2
<1> QED BY <1>1 DEF FindCode

\* What is stripped are the zeros up to the next start code.
LEMMA StripsZeros ==
  ASSUME NEW au, AnnexBUnit(au), NEW n \in 1 .. Len(au.nals), n + 1 <= Len(au.nals)
  PROVE  Stripped(au.bytes, au.nals[n].at, au.nals[n + 1].at - 3) = au.nals[n].end
<1> DEFINE start == au.nals[n].at
           next == au.nals[n + 1].at - 3
           end == au.nals[n].end
           ends == {start} \cup {e \in start + 1 .. next : au.bytes[e] # 0}
<1>1. n + 1 \in 1 .. Len(au.nals) /\ n \in 1 .. Len(au.nals) - 1 /\ n < n + 1
  BY UnitIs
<1>2. start \in Nat /\ end \in Nat /\ start < end /\ au.nals[n + 1].at \in Nat
  BY <1>1, UnitIs
<1>3. /\ end + 3 <= au.nals[n + 1].at
      /\ au.bytes[end] # 0
      /\ \A p \in end + 1 .. next : au.bytes[p] = 0
  BY <1>1 DEF AnnexBUnit
<1>4. next \in Int /\ end <= next
  BY <1>2, <1>3
<1> HIDE DEF start, next, end
<1>5. end \in ends
  BY <1>2, <1>3, <1>4
<1>6. ASSUME NEW e \in ends
      PROVE  e \in Int /\ e <= end
  <2>1. CASE e = start
    BY <1>2, <2>1
  <2>2. CASE e \in start + 1 .. next /\ au.bytes[e] # 0
    BY <1>2, <1>3, <1>4, <2>2
  <2> QED BY <2>1, <2>2
<1>7. Max(ends) = end
  <2> HIDE DEF ends
  <2> QED BY <1>5, <1>6, LargestIs
<1> QED BY <1>7 DEF Stripped, start, next, end

-----------------------------------------------------------------------------
(* The inductive invariant.                                                  *)

\* iter_nals has yielded the first NAL units of the access unit and stands at
\* the start code of the next.
SplitSoFar ==
  /\ nals \in Seq(Seq(Byte)) /\ Len(nals) <= Len(unit.nals)
  /\ \A n \in 1 .. Len(nals) : nals[n] = Nal(n)
  /\ code = IF Len(nals) = Len(unit.nals) THEN -1 ELSE unit.nals[Len(nals) + 1].at - 3
  /\ pc # "split" => Len(nals) = Len(unit.nals)
  /\ pc \in {"queued", "send", "sent"} => Len(nals) > 0

\* The receiver has the NAL units before the one packetize is at, and of that as
\* much as it has sent.
SentSoFar ==
  /\ viewer \in [nals : Seq(Seq(Byte)), fu : Seq(Byte)]
  /\ \A n \in 1 .. Len(viewer.nals) : n <= Len(nals) /\ viewer.nals[n] = nals[n]
  /\ pc \notin {"send", "sent"} => out = <<>> /\ cur = 0 /\ off = 0 /\ viewer = Nothing
  /\ pc = "send" =>
       /\ cur \in 1 .. Len(nals) /\ off \in Nat
       /\ off # 0 => Len(nals[cur]) > Mtu /\ off + 1 < Len(nals[cur])
       /\ Len(viewer.nals) = cur - 1
       /\ viewer.fu = IF off = 0 THEN <<>> ELSE SubSeq(nals[cur], 1, off + 1)
  /\ pc = "sent" =>
       /\ cur = Len(nals) + 1 /\ off = 0 /\ out # <<>>
       /\ Len(viewer.nals) = Len(nals) /\ viewer.fu = <<>>

Packets == [payload : Seq(Byte), marker : BOOLEAN, seq : 0 .. SeqSpace - 1, ts : Int]

\* the last sequence number given out
Latest == IF out = <<>> THEN last ELSE out[Len(out)].seq

Numbered == /\ out \in Seq(Packets) /\ last \in 0 .. SeqSpace - 1
            /\ seq = (Latest + 1) % SeqSpace

MediaInv == /\ TypeOK /\ pc \in PCs /\ (unit \in AccessUnits \/ unit = NoUnit)
            /\ SplitSoFar /\ SentSoFar /\ Numbered /\ UnitFramed /\ NoGapSeen

-----------------------------------------------------------------------------
(* Splitting.                                                                *)

LEMMA NoUnitFits == AnnexBUnit(NoUnit)
<1>1. NoUnit.bytes = <<>> /\ NoUnit.nals = <<>> /\ Len(<<>>) = 0
  BY DEF NoUnit
<1>2. <<>> \in Seq(0 .. 255) /\ <<>> \in Seq([at : Nat, end : Nat])
  BY EmptySeq
<1>3. 1 .. 0 = {} /\ 0 .. 0 - 3 = {} /\ 1 .. 0 - 1 = {}
  OBVIOUS
<1> QED BY <1>1, <1>2, <1>3 DEF AnnexBUnit

LEMMA UnitFits ==
  ASSUME MediaInv
  PROVE  AnnexBUnit(unit)
BY NoUnitFits, AccessUnitAssumption DEF MediaInv

LEMMA NalIs ==
  ASSUME AnnexBUnit(unit), NEW n \in 1 .. Len(unit.nals)
  PROVE  /\ Nal(n) \in Seq(Byte) /\ Len(Nal(n)) > 0 /\ Nal(n) # <<>>
         /\ Nal(n)[1] \in Byte /\ Type(Nal(n)[1]) # FU_A
<1> DEFINE a == unit.nals[n].at
           e == unit.nals[n].end
           s == SubSeq(unit.bytes, a + 1, e)
<1>1. /\ unit.bytes \in Seq(Byte) /\ Len(unit.bytes) \in Nat
      /\ a \in Nat /\ e \in Nat /\ a < e /\ e <= Len(unit.bytes)
  BY UnitIs
<1>2. Type(unit.bytes[a + 1]) # FU_A
  BY DEF AnnexBUnit
<1> HIDE DEF a, e
<1>3. /\ s \in Seq(Byte)
      /\ Len(s) = IF a + 1 <= e THEN e - (a + 1) + 1 ELSE 0
      /\ \A i \in 1 .. e - (a + 1) + 1 : s[i] = unit.bytes[a + 1 + i - 1]
  <2>1. \A i \in a + 1 .. e : unit.bytes[i] \in Byte
    BY <1>1, ElementOfSeq
  <2> QED BY <1>1, <2>1, SubSeqProperties
<1>4. Nal(n) = s
  BY DEF Nal, a, e
<1>5. Len(s) > 0 /\ 1 \in 1 .. Len(s) /\ 1 \in 1 .. e - (a + 1) + 1 /\ a + 1 + 1 - 1 = a + 1
  BY <1>1, <1>3
<1>6. s[1] = unit.bytes[a + 1]
  BY <1>3, <1>5
<1> HIDE DEF s
<1>7. s[1] \in Byte
  BY <1>3, <1>5, ElementOfSeq
<1>8. s # <<>>
  BY <1>5, EmptySeq
<1> QED BY <1>2, <1>3, <1>4, <1>5, <1>6, <1>7, <1>8

\* A turn of the loop yields the next NAL unit.
LEMMA SplitsNext ==
  ASSUME AnnexBUnit(unit), SplitSoFar, SplitNext(unit.bytes), pc = "split",
         UNCHANGED <<unit, pc>>
  PROVE  SplitSoFar'
<1> DEFINE k == Len(nals)
           n == k + 1
           count == Len(unit.nals)
           start == unit.nals[n].at
           end == unit.nals[n].end
<1>1. /\ k \in Nat /\ count \in Nat /\ k <= count /\ unit.bytes \in Seq(Byte)
      /\ Len(unit.bytes) \in Nat
  BY LenProperties, UnitIs DEF SplitSoFar
<1>2. code # -1 /\ k # count /\ code = start - 3
  BY DEF SplitNext, SplitSoFar
<1>3. n \in 1 .. count
  BY <1>1, <1>2
<1>4. /\ start \in Nat /\ end \in Nat /\ start < end /\ end <= Len(unit.bytes)
      /\ code + 3 = start
  BY <1>2, <1>3, UnitIs
<1>5. ASSUME NEW m \in 1 .. count, m < n + 1
      PROVE  unit.nals[m].at - 3 < start
  <2>0. unit.nals[m].at \in Nat /\ unit.nals[m].end \in Nat /\ unit.nals[m].at < unit.nals[m].end
    BY UnitIs
  <2>1. CASE m = n
    BY <1>4, <2>1
  <2>2. CASE m < n
    <3>1. unit.nals[m].end + 3 <= start
      BY <1>3, <2>2 DEF AnnexBUnit
    <3> HIDE DEF start
    <3> QED BY <1>4, <2>0, <3>1
  <2> QED BY <1>1, <1>5, <2>1, <2>2
<1>6. /\ code' = IF n = count THEN -1 ELSE unit.nals[n + 1].at - 3
      /\ nals' = Append(nals, SubSeq(unit.bytes, start + 1, end))
  <2> DEFINE next == FindCode(unit.bytes, start)
             e == IF next = -1 THEN Len(unit.bytes) ELSE Stripped(unit.bytes, start, next)
  <2>1. /\ code' = next
        /\ nals' = IF e > start THEN Append(nals, SubSeq(unit.bytes, start + 1, e)) ELSE nals
    BY <1>4 DEF SplitNext
  <2>2. CASE n = count
    <3>1. next = -1
      <4>1. \A m \in 1 .. count : unit.nals[m].at - 3 < start
        BY <1>1, <1>5, <2>2
      <4> QED BY <1>4, <4>1, FindsNoMore
    <3>2. end = Len(unit.bytes)
      BY <1>3, <2>2 DEF AnnexBUnit
    <3> QED BY <1>4, <2>1, <2>2, <3>1, <3>2
  <2>3. CASE n < count
    <3>1. n + 1 \in 1 .. count /\ n + 1 <= count
      BY <1>1, <2>3
    <3>2. end + 3 <= unit.nals[n + 1].at
      BY <1>3, <3>1, SMTT(30) DEF AnnexBUnit
    <3>3. unit.nals[n + 1].at \in Nat
      BY <3>1, UnitIs
    <3>4. start <= unit.nals[n + 1].at - 3
      <4> HIDE DEF start, end, n
      <4> QED BY <1>4, <3>2, <3>3
    <3>5. next = unit.nals[n + 1].at - 3
      BY <1>4, <1>5, <3>1, <3>4, FindsNext
    <3>6. next # -1
      BY <1>4, <3>3, <3>4, <3>5
    <3>7. e = end
      BY <1>3, <3>1, <3>5, <3>6, StripsZeros
    <3>8. e > start /\ n # count
      BY <1>4, <2>3, <3>7
    <3> HIDE DEF next, e
    <3> QED BY <2>1, <3>5, <3>7, <3>8
  <2> QED BY <1>1, <1>3, <2>2, <2>3
<1>7. SubSeq(unit.bytes, start + 1, end) = Nal(n) /\ Nal(n) \in Seq(Byte)
  BY <1>3, NalIs DEF Nal
<1>8. /\ nals' \in Seq(Seq(Byte)) /\ Len(nals') = n
      /\ \A m \in 1 .. n : nals'[m] = IF m = n THEN Nal(n) ELSE nals[m]
  <2>1. nals' = Append(nals, Nal(n))
    BY <1>6, <1>7
  <2> QED BY <1>7, <2>1, AppendProperties DEF SplitSoFar
<1>9. \A m \in 1 .. n : nals'[m] = Nal(m) /\ Nal(m)' = Nal(m)
  <2>1. \A m \in 1 .. n : m # n => m \in 1 .. k
    BY <1>1
  <2> QED BY <1>8, <2>1 DEF SplitSoFar, Nal
<1>10. Len(nals') <= Len(unit'.nals)
  BY <1>3, <1>8
<1>11. code' = IF Len(nals') = Len(unit'.nals) THEN -1 ELSE unit'.nals[Len(nals') + 1].at - 3
  BY <1>6, <1>8
<1> QED BY <1>8, <1>9, <1>10, <1>11 DEF SplitSoFar

-----------------------------------------------------------------------------
(* Packets, as the packetizer makes them and the receiver takes them.        *)

LEMMA Sizes == Mtu \in Nat /\ Chunk \in Nat /\ Chunk > 0 /\ Mtu = Chunk + 2
BY PacketizerAssumption DEF Chunk

\* A byte below 256 has three bits above its type.
LEMMA TypeIs ==
  ASSUME NEW b \in Byte
  PROVE  /\ Type(b) \in 0 .. 31 /\ Nri(b) \in 0 .. 224 /\ b = Nri(b) + Type(b)
         /\ \A t \in 0 .. 31 : Type(Nri(b) + t) = t /\ Nri(Nri(b) + t) = Nri(b)
<1>1. PICK q \in 0 .. 7 : b % 32 = b - 32 * q /\ b % 32 \in 0 .. 31
  <2>1. b \in Int /\ 0 <= b /\ b <= 255
    BY DEF Byte
  <2> QED BY <2>1, Z3
<1>2. b \in Int
  BY DEF Byte
<1>3. Type(b) = b - 32 * q /\ Nri(b) = 32 * q /\ Type(b) \in 0 .. 31
  BY <1>1, <1>2 DEF Type, Nri
<1>4. ASSUME NEW t \in 0 .. 31
      PROVE  (32 * q + t) % 32 = t
  BY Z3
<1>5. ASSUME NEW t \in 0 .. 31
      PROVE  Type(Nri(b) + t) = t /\ Nri(Nri(b) + t) = Nri(b)
  BY <1>3, <1>4 DEF Type, Nri
<1> QED BY <1>2, <1>3, <1>5

\* The bits of an FU-A header do not run into each other, and with those of the
\* indicator give the NAL unit's own header back.
LEMMA HeaderBits ==
  ASSUME NEW b \in Byte, NEW begins \in BOOLEAN, NEW ends \in BOOLEAN, NEW h,
         h = (IF begins THEN 128 ELSE 0) + (IF ends THEN 64 ELSE 0) + Type(b)
  PROVE  /\ Nri(b) + FU_A \in Byte /\ h \in Byte
         /\ Type(Nri(b) + FU_A) = FU_A
         /\ h >= 128 <=> begins
         /\ (h \div 64) % 2 = 1 <=> ends
         /\ Nri(Nri(b) + FU_A) + Type(h) = b
<1> DEFINE t == Type(b)
<1>1. /\ t \in 0 .. 31 /\ Nri(b) \in 0 .. 224 /\ b = Nri(b) + t /\ FU_A \in 0 .. 31
      /\ Type(Nri(b) + FU_A) = FU_A /\ Nri(Nri(b) + FU_A) = Nri(b)
  BY TypeIs DEF FU_A
<1>2. Nri(b) + FU_A \in Byte
  BY <1>1 DEF Byte, FU_A
<1> HIDE DEF t
<1>3. CASE begins /\ ends
  <2>1. h = 192 + t
    BY <1>1, <1>3 DEF t
  <2>2. h >= 128 /\ h \in Byte
    BY <1>1, <2>1 DEF Byte
  <2>3. h % 32 = t
    BY <1>1, <2>1, Z3
  <2>4. h \div 64 = 3
    BY <1>1, <2>1, Z3
  <2>5. (h \div 64) % 2 = 1
    BY <2>4
  <2> QED BY <1>1, <1>2, <1>3, <2>2, <2>3, <2>5 DEF Type
<1>4. CASE begins /\ ~ends
  <2>1. h = 128 + t
    BY <1>1, <1>4 DEF t
  <2>2. h >= 128 /\ h \in Byte
    BY <1>1, <2>1 DEF Byte
  <2>3. h % 32 = t
    BY <1>1, <2>1, Z3
  <2>4. h \div 64 = 2
    BY <1>1, <2>1, Z3
  <2>5. (h \div 64) % 2 = 0
    BY <2>4
  <2> QED BY <1>1, <1>2, <1>4, <2>2, <2>3, <2>5 DEF Type
<1>5. CASE ~begins /\ ends
  <2>1. h = 64 + t
    BY <1>1, <1>5 DEF t
  <2>2. ~(h >= 128) /\ h \in Byte
    BY <1>1, <2>1 DEF Byte
  <2>3. h % 32 = t
    BY <1>1, <2>1, Z3
  <2>4. h \div 64 = 1
    BY <1>1, <2>1, Z3
  <2>5. (h \div 64) % 2 = 1
    BY <2>4
  <2> QED BY <1>1, <1>2, <1>5, <2>2, <2>3, <2>5 DEF Type
<1>6. CASE ~begins /\ ~ends
  <2>1. h = t
    BY <1>1, <1>6 DEF t
  <2>2. ~(h >= 128) /\ h \in Byte
    BY <1>1, <2>1 DEF Byte
  <2>3. h % 32 = t
    BY <1>1, <2>1, Z3
  <2>4. h \div 64 = 0
    <3>1. h \in Int /\ 0 <= h /\ h < 64
      BY <1>1, <2>1
    <3> QED BY <3>1
  <2>5. (h \div 64) % 2 = 0
    BY <2>4
  <2> QED BY <1>1, <1>2, <1>6, <2>2, <2>3, <2>5 DEF Type
<1> QED BY <1>3, <1>4, <1>5, <1>6

\* Bytes off + 1 .. e of the body come behind the first off + 1 bytes of the NAL unit.
LEMMA PieceFollows ==
  ASSUME NEW nal \in Seq(Byte), NEW o \in Nat, NEW e \in Nat, o < e, e + 1 <= Len(nal)
  PROVE  /\ SubSeq(Tail(nal), o + 1, e) \in Seq(Byte)
         /\ Len(SubSeq(Tail(nal), o + 1, e)) = e - o
         /\ SubSeq(nal, 1, o + 1) \in Seq(Byte)
         /\ SubSeq(nal, 1, o + 1) \o SubSeq(Tail(nal), o + 1, e) = SubSeq(nal, 1, e + 1)
<1> DEFINE body == Tail(nal)
           piece == SubSeq(body, o + 1, e)
           rest == SubSeq(nal, o + 1 + 1, e + 1)
<1>1. Len(nal) \in Nat /\ nal # <<>>
  BY LenProperties, EmptySeq
<1>2. /\ body \in Seq(Byte) /\ Len(body) = Len(nal) - 1
      /\ \A i \in 1 .. Len(body) : body[i] = nal[i + 1]
  BY <1>1, HeadTailProperties
<1> HIDE DEF body
<1>3. /\ piece \in Seq(Byte) /\ Len(piece) = e - o
      /\ \A i \in 1 .. e - o : piece[i] = nal[o + 1 + i]
  <2>1. \A i \in o + 1 .. e : body[i] \in Byte
    BY <1>1, <1>2, ElementOfSeq
  <2>2. /\ piece \in Seq(Byte)
        /\ Len(piece) = IF o + 1 <= e THEN e - (o + 1) + 1 ELSE 0
        /\ \A i \in 1 .. e - (o + 1) + 1 : piece[i] = body[o + 1 + i - 1]
    BY <2>1, SubSeqProperties
  <2>3. ASSUME NEW i \in 1 .. e - o
        PROVE  piece[i] = nal[o + 1 + i]
    <3>1. /\ i \in 1 .. e - (o + 1) + 1 /\ o + 1 + i - 1 = o + i /\ o + i \in 1 .. Len(body)
          /\ (o + i) + 1 = o + 1 + i
      BY <1>1, <1>2
    <3>2. body[o + i] = nal[(o + i) + 1]
      BY <1>2, <3>1
    <3> QED BY <2>2, <3>1, <3>2
  <2> HIDE DEF piece
  <2> QED BY <2>2, <2>3
<1>4. /\ rest \in Seq(Byte) /\ Len(rest) = e - o
      /\ \A i \in 1 .. e - o : rest[i] = nal[o + 1 + i]
  <2>1. \A i \in o + 1 + 1 .. e + 1 : nal[i] \in Byte
    BY <1>1, ElementOfSeq
  <2>2. /\ rest \in Seq(Byte)
        /\ Len(rest) = IF o + 1 + 1 <= e + 1 THEN e + 1 - (o + 1 + 1) + 1 ELSE 0
        /\ \A i \in 1 .. e + 1 - (o + 1 + 1) + 1 : rest[i] = nal[o + 1 + 1 + i - 1]
    BY <2>1, SubSeqProperties
  <2>3. ASSUME NEW i \in 1 .. e - o
        PROVE  rest[i] = nal[o + 1 + i]
    <3>1. i \in 1 .. e + 1 - (o + 1 + 1) + 1 /\ o + 1 + 1 + i - 1 = o + 1 + i
      OBVIOUS
    <3> QED BY <2>2, <3>1
  <2> HIDE DEF rest
  <2> QED BY <2>2, <2>3
<1>5. piece = rest
  <2> HIDE DEF piece, rest
  <2> QED BY <1>3, <1>4, SeqEqual
<1>6. SubSeq(nal, 1, o + 1) \o rest = SubSeq(nal, 1, e + 1)
  <2>1. /\ 1 \in 1 .. Len(nal) + 1 /\ o + 1 \in 1 - 1 .. Len(nal)
        /\ e + 1 \in o + 1 .. Len(nal)
    BY <1>1
  <2> QED BY <2>1, ConcatAdjacentSubSeq
<1>7. SubSeq(nal, 1, o + 1) \in Seq(Byte)
  <2>1. \A i \in 1 .. o + 1 : nal[i] \in Byte
    BY <1>1, ElementOfSeq
  <2> QED BY <2>1, SubSeqProperties
<1> QED BY <1>3, <1>5, <1>6, <1>7 DEF piece, body

Viewers == [nals : Seq(Seq(Byte)), fu : Seq(Byte)]

LEMMA ViewerIs ==
  ASSUME NEW g \in Seq(Seq(Byte)), NEW f \in Seq(Byte)
  PROVE  [nals |-> g, fu |-> f] \in [nals : Seq(Seq(Byte)), fu : Seq(Byte)]
OBVIOUS

LEMMA TakesWhole ==
  ASSUME NEW r \in Viewers, NEW pkt, Type(pkt.payload[1]) # FU_A
  PROVE  Receive(r, pkt) = [nals |-> Append(r.nals, pkt.payload), fu |-> r.fu]
BY DEF Receive, Viewers

\* Behind what the receiver has of a NAL unit it puts the next piece.
LEMMA TakesPiece ==
  ASSUME NEW r \in Viewers, NEW nal \in Seq(Byte), off \in Nat, NEW e \in Nat,
         off < e, e + 1 <= Len(nal), NEW ends \in BOOLEAN,
         r.fu = IF off = 0 THEN <<>> ELSE SubSeq(nal, 1, off + 1),
         NEW pkt,
         pkt.payload = <<Indicator(nal), Header(nal, ends)>> \o SubSeq(Tail(nal), off + 1, e)
  PROVE  /\ pkt.payload \in Seq(Byte) /\ Len(pkt.payload) = 2 + (e - off)
         /\ Receive(r, pkt) = IF ends
                              THEN [nals |-> Append(r.nals, SubSeq(nal, 1, e + 1)), fu |-> <<>>]
                              ELSE [nals |-> r.nals, fu |-> SubSeq(nal, 1, e + 1)]
<1> DEFINE i == Indicator(nal)
           h == Header(nal, ends)
           piece == SubSeq(Tail(nal), off + 1, e)
           p == pkt.payload
<1>1. Len(nal) \in Nat /\ 1 \in 1 .. Len(nal) /\ nal[1] \in Byte
  <2>1. Len(nal) \in Nat /\ 1 \in 1 .. Len(nal)
    BY LenProperties
  <2> QED BY <2>1, ElementOfSeq
<1>2. /\ i \in Byte /\ h \in Byte /\ Type(i) = FU_A
      /\ h >= 128 <=> off = 0
      /\ (h \div 64) % 2 = 1 <=> ends
      /\ Nri(i) + Type(h) = nal[1]
  <2> DEFINE begins == off = 0
  <2>1. /\ begins \in BOOLEAN /\ i = Nri(nal[1]) + FU_A
        /\ h = (IF begins THEN 128 ELSE 0) + (IF ends THEN 64 ELSE 0) + Type(nal[1])
    BY DEF Indicator, Header
  <2> HIDE DEF begins, i, h
  <2>2. /\ i \in Byte /\ h \in Byte /\ Type(i) = FU_A
        /\ h >= 128 <=> begins
        /\ (h \div 64) % 2 = 1 <=> ends
        /\ Nri(i) + Type(h) = nal[1]
    BY <1>1, <2>1, HeaderBits
  <2> QED BY <2>2 DEF begins
<1>3. /\ piece \in Seq(Byte) /\ Len(piece) = e - off
      /\ SubSeq(nal, 1, off + 1) \o piece = SubSeq(nal, 1, e + 1)
  BY PieceFollows
<1> HIDE DEF i, h, piece
<1>4. /\ p \in Seq(Byte) /\ Len(p) = 2 + (e - off) /\ p[1] = i /\ p[2] = h
      /\ SubSeq(p, 3, Len(p)) = piece
  <2>1. <<i, h>> \in Seq(Byte) /\ Len(<<i, h>>) = 2 /\ <<i, h>>[1] = i /\ <<i, h>>[2] = h
    BY <1>2
  <2>2. p = <<i, h>> \o piece
    BY DEF i, h, piece
  <2> DEFINE bits == <<i, h>>
  <2>3. bits \in Seq(Byte) /\ Len(bits) = 2 /\ bits[1] = i /\ bits[2] = h /\ p = bits \o piece
    BY <2>1, <2>2
  <2> HIDE DEF bits
  <2>4. /\ p \in Seq(Byte) /\ Len(p) = 2 + (e - off)
        /\ \A k \in 1 .. 2 + (e - off) : p[k] = IF k <= 2 THEN bits[k] ELSE piece[k - 2]
    BY <1>3, <2>3, ConcatProperties
  <2>5. p[1] = i /\ p[2] = h
    <3>1. 1 \in 1 .. 2 + (e - off) /\ 2 \in 1 .. 2 + (e - off)
      OBVIOUS
    <3> QED BY <2>3, <2>4, <3>1
  <2> DEFINE t == SubSeq(p, 3, Len(p))
  <2>6. /\ t \in Seq(Byte) /\ Len(t) = e - off
        /\ \A k \in 1 .. e - off : t[k] = piece[k]
    <3>1. ASSUME NEW k \in 3 .. Len(p)
          PROVE  p[k] \in Byte
      <4>1. k \in 1 .. Len(p)
        BY <2>4
      <4> HIDE DEF p
      <4> QED BY <2>4, <4>1, ElementOfSeq
    <3>2. /\ t \in Seq(Byte)
          /\ Len(t) = IF 3 <= Len(p) THEN Len(p) - 3 + 1 ELSE 0
          /\ \A k \in 1 .. Len(p) - 3 + 1 : t[k] = p[3 + k - 1]
      <4>1. Len(p) \in Int /\ 3 \in Int
        BY <2>4
      <4> QED BY <3>1, <4>1, SubSeqProperties
    <3>3. ASSUME NEW k \in 1 .. e - off
          PROVE  t[k] = piece[k]
      <4>1. /\ k \in 1 .. Len(p) - 3 + 1 /\ 3 + k - 1 = k + 2 /\ k + 2 \in 1 .. 2 + (e - off)
            /\ ~(k + 2 <= 2) /\ (k + 2) - 2 = k
        BY <2>4
      <4>2. p[k + 2] = piece[(k + 2) - 2]
        BY <2>4, <4>1
      <4> QED BY <3>2, <4>1, <4>2
    <3>4. Len(t) = e - off
      <4> HIDE DEF t
      <4> QED BY <2>4, <3>2
    <3> QED BY <3>2, <3>3, <3>4
  <2>7. t = piece
    <3> HIDE DEF t
    <3> QED BY <1>3, <2>6, SeqEqual
  <2> QED BY <2>4, <2>5, <2>7
<1> DEFINE begun == IF p[2] >= 128 THEN <<Nri(p[1]) + Type(p[2])>> ELSE r.fu
           grown == begun \o SubSeq(p, 3, Len(p))
<1>5. begun = SubSeq(nal, 1, off + 1)
  <2>1. CASE off = 0
    <3>1. begun = <<nal[1]>>
      BY <1>2, <1>4, <2>1
    <3>2. SubSeq(nal, 1, 1) = <<nal[1]>>
      <4>1. \A k \in 1 .. 1 : nal[k] \in Byte
        BY <1>1
      <4>2. /\ SubSeq(nal, 1, 1) \in Seq(Byte) /\ Len(SubSeq(nal, 1, 1)) = 1
            /\ \A k \in 1 .. 1 : SubSeq(nal, 1, 1)[k] = nal[k]
        <5>1. /\ SubSeq(nal, 1, 1) \in Seq(Byte)
              /\ Len(SubSeq(nal, 1, 1)) = IF 1 <= 1 THEN 1 - 1 + 1 ELSE 0
              /\ \A k \in 1 .. 1 - 1 + 1 : SubSeq(nal, 1, 1)[k] = nal[1 + k - 1]
          BY <4>1, SubSeqProperties
        <5> QED BY <5>1
      <4>3. <<nal[1]>> \in Seq(Byte) /\ Len(<<nal[1]>>) = 1 /\ <<nal[1]>>[1] = nal[1]
        BY <1>1
      <4> DEFINE a == SubSeq(nal, 1, 1)
                 b == <<nal[1]>>
      <4>4. a \in Seq(Byte) /\ b \in Seq(Byte) /\ Len(a) = Len(b)
            /\ \A k \in 1 .. Len(a) : a[k] = b[k]
        BY <4>2, <4>3
      <4> HIDE DEF a, b
      <4>5. a = b
        BY <4>4, SeqEqual
      <4> QED BY <4>5 DEF a, b
    <3> QED BY <2>1, <3>1, <3>2
  <2>2. CASE off # 0
    BY <1>2, <1>4, <2>2
  <2> QED BY <2>1, <2>2
<1>6. grown = SubSeq(nal, 1, e + 1)
  BY <1>3, <1>4, <1>5
<1>7. Receive(r, pkt) = IF (p[2] \div 64) % 2 = 1
                        THEN [nals |-> Append(r.nals, grown), fu |-> <<>>]
                        ELSE [r EXCEPT !.fu = grown]
  BY <1>2, <1>4 DEF Receive
<1> HIDE DEF begun, grown
<1>8. [r EXCEPT !.fu = grown] = [nals |-> r.nals, fu |-> grown]
  <2>1. r \in [nals : Seq(Seq(Byte)), fu : Seq(Byte)]
    BY DEF Viewers
  <2>2. DOMAIN r = {"nals", "fu"} /\ r = [x \in {"nals", "fu"} |-> r[x]]
    BY <2>1
  <2> QED BY <2>2
<1> QED BY <1>2, <1>4, <1>6, <1>7, <1>8

-----------------------------------------------------------------------------
(* Sending.                                                                  *)

LEMMA LatestIs ==
  ASSUME Numbered
  PROVE  Latest \in 0 .. SeqSpace - 1 /\ seq \in 0 .. SeqSpace - 1
<1>1. Latest \in 0 .. SeqSpace - 1
  <2>1. CASE out = <<>>
    BY <2>1 DEF Latest, Numbered
  <2>2. CASE out # <<>>
    <3>1. Len(out) \in 1 .. Len(out)
      BY <2>2, EmptySeq DEF Numbered
    <3>2. out[Len(out)] \in Packets
      BY <3>1, ElementOfSeq DEF Numbered
    <3> QED BY <2>2, <3>2 DEF Latest, Packets
  <2> QED BY <2>1, <2>2
<1>2. Latest + 1 \in Int /\ SeqSpace \in Nat \ {0}
  BY <1>1, PacketizerAssumption
<1> QED BY <1>1, <1>2, ModRange DEF Numbered

\* One more packet is numbered on from the last, framed, and short enough.
LEMMA Emits ==
  ASSUME MediaInv, pc = "send", pc' \in PCs, UNCHANGED <<last, sent>>,
         NEW payload \in Seq(Byte), Len(payload) <= Mtu,
         NEW marker \in BOOLEAN, marker <=> pc' = "sent",
         Emit(payload, marker, sent)
  PROVE  /\ Numbered' /\ UnitFramed' /\ NoGapSeen'
         /\ out' # out /\ out' # <<>> /\ out'[Len(out')].payload = payload
<1> DEFINE pkt == [payload |-> payload, marker |-> marker, seq |-> seq, ts |-> sent]
           k == Len(out)
<1>1. seq \in 0 .. SeqSpace - 1 /\ Latest \in 0 .. SeqSpace - 1 /\ seq = (Latest + 1) % SeqSpace
  BY LatestIs DEF MediaInv, Numbered
<1>2. pkt \in Packets
  <2>1. sent \in Int
    BY ModuliAssumption DEF MediaInv, TypeOK, None
  <2> QED BY <1>1, <2>1 DEF Packets
<1>3. out \in Seq(Packets) /\ k \in Nat /\ out' = Append(out, pkt)
  BY LenProperties DEF MediaInv, Numbered, Emit
<1> HIDE DEF pkt
<1>4. /\ out' \in Seq(Packets) /\ out' # <<>> /\ Len(out') = k + 1
      /\ \A n \in 1 .. k : out'[n] = out[n]
      /\ out'[k + 1] = pkt
  BY <1>2, <1>3, AppendProperties
<1>5. /\ pkt.payload = payload /\ (pkt.marker <=> marker) /\ pkt.seq = seq /\ pkt.ts = sent
  BY DEF pkt
<1>6. out' # out
  <2>1. Len(out') # Len(out)
    BY <1>3, <1>4
  <2> QED BY <2>1
<1>7. DOMAIN out' = 1 .. k + 1 /\ DOMAIN out = 1 .. k
  BY <1>3, <1>4, LenProperties
<1>8. Numbered'
  <2>1. Latest' = seq
    BY <1>4, <1>5 DEF Latest
  <2>2. seq' = (seq + 1) % SeqSpace
    BY DEF Emit, Following
  <2>3. last' \in 0 .. SeqSpace - 1
    BY DEF MediaInv, Numbered
  <2> QED BY <1>4, <2>1, <2>2, <2>3 DEF Numbered
<1>9. UnitFramed'
  <2>1. ASSUME NEW n \in 1 .. k + 1
        PROVE  /\ out'[n].marker <=> n = Len(out') /\ pc' = "sent"
               /\ out'[n].ts = sent'
               /\ Len(out'[n].payload) <= Mtu
    <3>1. CASE n = k + 1
      BY <1>4, <1>5, <3>1
    <3>2. CASE n \in 1 .. k
      <4>1. out'[n] = out[n] /\ n # Len(out')
        BY <1>3, <1>4, <3>2
      <4>2. /\ ~out[n].marker /\ out[n].ts = sent /\ Len(out[n].payload) <= Mtu
        BY <1>7, <3>2 DEF MediaInv, UnitFramed
      <4> QED BY <4>1, <4>2
    <3> QED BY <1>3, <2>1, <3>1, <3>2
  <2> QED BY <1>7, <2>1 DEF UnitFramed
<1>10. NoGapSeen'
  <2>1. ASSUME NEW n \in 1 .. k + 1
        PROVE  out'[n].seq = ((IF n = 1 THEN last' ELSE out'[n - 1].seq) + 1) % SeqSpace
    <3>1. CASE n = k + 1 /\ k = 0
      <4>1. out = <<>>
        BY <1>3, <3>1, EmptySeq
      <4> QED BY <1>1, <1>4, <1>5, <3>1, <4>1 DEF Latest
    <3>2. CASE n = k + 1 /\ k # 0
      <4>1. out # <<>>
        BY <3>2, EmptySeq
      <4>2. n - 1 = k /\ k \in 1 .. k /\ n # 1
        BY <1>3, <3>2
      <4>3. Latest = out'[n - 1].seq
        BY <1>4, <4>1, <4>2 DEF Latest
      <4> QED BY <1>1, <1>4, <1>5, <3>2, <4>2, <4>3
    <3>3. CASE n \in 1 .. k
      <4>1. out'[n] = out[n] /\ (n # 1 => out'[n - 1] = out[n - 1])
        <5>1. n # 1 => n - 1 \in 1 .. k
          BY <1>3, <3>3
        <5> QED BY <1>4, <3>3, <5>1
      <4>2. out[n].seq = ((IF n = 1 THEN last ELSE out[n - 1].seq) + 1) % SeqSpace
        BY <1>7, <3>3 DEF MediaInv, NoGapSeen
      <4> QED BY <4>1, <4>2
    <3> QED BY <1>3, <2>1, <3>1, <3>2, <3>3
  <2> QED BY <1>7, <2>1 DEF NoGapSeen
<1> QED BY <1>4, <1>5, <1>6, <1>8, <1>9, <1>10

\* The NAL unit packetize is at.
LEMMA CurrentIs ==
  ASSUME MediaInv, pc = "send"
  PROVE  /\ nals \in Seq(Seq(Byte)) /\ Len(nals) \in Nat
         /\ cur \in 1 .. Len(nals)
         /\ nals[cur] \in Seq(Byte) /\ Len(nals[cur]) \in Nat /\ nals[cur] # <<>>
         /\ Type(nals[cur][1]) # FU_A
         /\ viewer \in Viewers /\ off \in Nat
<1>1. nals \in Seq(Seq(Byte)) /\ Len(nals) \in Nat /\ Len(nals) = Len(unit.nals)
  BY LenProperties DEF MediaInv, SplitSoFar
<1>2. cur \in 1 .. Len(nals) /\ off \in Nat /\ viewer \in Viewers
  BY DEF MediaInv, SentSoFar, Viewers
<1>3. nals[cur] = Nal(cur) /\ cur \in 1 .. Len(unit.nals)
  BY <1>1, <1>2 DEF MediaInv, SplitSoFar
<1>4. Nal(cur) \in Seq(Byte) /\ Nal(cur) # <<>> /\ Type(Nal(cur)[1]) # FU_A
  BY <1>3, NalIs, UnitFits
<1>5. Len(Nal(cur)) \in Nat
  BY <1>4, LenProperties
<1> QED BY <1>1, <1>2, <1>3, <1>4, <1>5

\* The receiver has all of a NAL unit, and packetize goes on to the next.
LEMMA NalEnds ==
  ASSUME MediaInv, pc = "send", UNCHANGED <<nals, unit>>,
         viewer' = [nals |-> Append(viewer.nals, nals[cur]), fu |-> <<>>],
         cur' = cur + 1, off' = 0, out' # <<>>,
         pc' = IF cur' > Len(nals) THEN "sent" ELSE "send"
  PROVE  SentSoFar'
<1>1. /\ nals \in Seq(Seq(Byte)) /\ Len(nals) \in Nat /\ cur \in 1 .. Len(nals)
      /\ nals[cur] \in Seq(Byte) /\ viewer.nals \in Seq(Seq(Byte))
  BY CurrentIs DEF Viewers
<1>2. Len(viewer.nals) = cur - 1 /\ \A n \in 1 .. Len(viewer.nals) : viewer.nals[n] = nals[n]
  BY DEF MediaInv, SentSoFar
<1> DEFINE got == Append(viewer.nals, nals[cur])
<1>3. /\ got \in Seq(Seq(Byte)) /\ Len(got) = Len(viewer.nals) + 1
      /\ \A n \in 1 .. Len(viewer.nals) : got[n] = viewer.nals[n]
      /\ got[Len(viewer.nals) + 1] = nals[cur]
  BY <1>1, AppendProperties
<1>4. viewer' = [nals |-> got, fu |-> <<>>]
  OBVIOUS
<1> HIDE DEF got
<1>5. Len(got) = cur /\ \A n \in 1 .. cur : n <= Len(nals) /\ got[n] = nals[n]
  <2>1. Len(got) = cur /\ cur = Len(viewer.nals) + 1
    BY <1>1, <1>2, <1>3
  <2>2. ASSUME NEW n \in 1 .. cur
        PROVE  n <= Len(nals) /\ got[n] = nals[n]
    <3>1. CASE n = cur
      BY <1>1, <1>3, <2>1, <3>1
    <3>2. CASE n # cur
      <4>1. n \in 1 .. Len(viewer.nals)
        BY <1>1, <2>1, <3>2
      <4> QED BY <1>1, <1>2, <1>3, <4>1
    <3> QED BY <3>1, <3>2
  <2> QED BY <2>1, <2>2
<1>6. viewer'.nals = got /\ viewer'.fu = <<>>
  BY <1>4
<1>7. viewer' \in [nals : Seq(Seq(Byte)), fu : Seq(Byte)]
  <2>1. <<>> \in Seq(Byte)
    BY EmptySeq
  <2> QED BY <1>3, <1>4, <2>1, ViewerIs
<1>8. \A n \in 1 .. Len(viewer'.nals) : n <= Len(nals') /\ viewer'.nals[n] = nals'[n]
  BY <1>5, <1>6
<1>9. CASE cur' > Len(nals)
  <2>1. pc' = "sent" /\ cur = Len(nals)
    BY <1>1, <1>9
  <2> QED BY <1>5, <1>6, <1>7, <1>8, <2>1 DEF SentSoFar
<1>10. CASE ~(cur' > Len(nals))
  <2>1. pc' = "send" /\ cur' \in 1 .. Len(nals) /\ cur' - 1 = cur
    BY <1>1, <1>10
  <2> QED BY <1>5, <1>6, <1>7, <1>8, <2>1 DEF SentSoFar
<1> QED BY <1>9, <1>10

LEMMA SendWholeKeepsInv ==
  ASSUME MediaInv, pc = "send", SendWhole(nals, sent), UNCHANGED <<nals, unit, last, sent>>,
         viewer' = IF out' = out THEN viewer ELSE Receive(viewer, out'[Len(out')]),
         pc' = IF cur' > Len(nals) THEN "sent" ELSE "send"
  PROVE  SentSoFar' /\ Numbered' /\ UnitFramed' /\ NoGapSeen'
<1>1. /\ Len(nals) \in Nat /\ cur \in 1 .. Len(nals)
      /\ nals[cur] \in Seq(Byte) /\ Len(nals[cur]) \in Nat /\ nals[cur] # <<>>
      /\ Type(nals[cur][1]) # FU_A /\ viewer \in Viewers
  BY CurrentIs
<1>2. /\ Len(nals[cur]) <= Mtu /\ Emit(nals[cur], LastNal(nals), sent)
      /\ cur' = cur + 1 /\ off' = off
  BY <1>1 DEF SendWhole
<1>3. off = 0 /\ viewer.fu = <<>>
  <2>1. ~(Len(nals[cur]) > Mtu)
    BY <1>1, <1>2, Sizes
  <2> QED BY <2>1 DEF MediaInv, SentSoFar
<1>4. pc' \in PCs /\ LastNal(nals) \in BOOLEAN /\ (LastNal(nals) <=> pc' = "sent")
  <2>1. cur = Len(nals) <=> cur' > Len(nals)
    BY <1>1, <1>2
  <2> QED BY <2>1 DEF PCs, LastNal
<1>5. /\ Numbered' /\ UnitFramed' /\ NoGapSeen'
      /\ out' # out /\ out' # <<>> /\ out'[Len(out')].payload = nals[cur]
  <2> DEFINE marker == LastNal(nals)
  <2>1. marker \in BOOLEAN /\ (marker <=> pc' = "sent") /\ Emit(nals[cur], marker, sent)
    BY <1>2, <1>4
  <2> HIDE DEF marker
  <2> QED BY <1>1, <1>2, <1>4, <2>1, Emits
<1>6. viewer' = [nals |-> Append(viewer.nals, nals[cur]), fu |-> <<>>]
  <2> DEFINE pkt == out'[Len(out')]
  <2>1. viewer' = Receive(viewer, pkt) /\ pkt.payload = nals[cur]
    BY <1>5
  <2> HIDE DEF pkt
  <2> QED BY <1>1, <1>3, <2>1, TakesWhole
<1> QED BY <1>2, <1>3, <1>5, <1>6, NalEnds

LEMMA SendPieceKeepsInv ==
  ASSUME MediaInv, pc = "send", SendPiece(nals, sent), UNCHANGED <<nals, unit, last, sent>>,
         viewer' = IF out' = out THEN viewer ELSE Receive(viewer, out'[Len(out')]),
         pc' = IF cur' > Len(nals) THEN "sent" ELSE "send"
  PROVE  SentSoFar' /\ Numbered' /\ UnitFramed' /\ NoGapSeen'
<1> DEFINE nal == nals[cur]
           body == Tail(nal)
           more == off + Chunk < Len(body)
           e == IF more THEN off + Chunk ELSE Len(body)
           ends == End(body)
           payload == <<Indicator(nal), Header(nal, ends)>> \o SubSeq(body, off + 1, e)
<1>1. /\ Len(nals) \in Nat /\ cur \in 1 .. Len(nals)
      /\ nal \in Seq(Byte) /\ Len(nal) \in Nat /\ nal # <<>>
      /\ viewer \in Viewers /\ off \in Nat
  BY CurrentIs
<1>2. Len(body) = Len(nal) - 1
  BY <1>1, HeadTailProperties
<1>3. /\ Len(nal) > Mtu /\ Emit(payload, LastNal(nals) /\ ends, sent)
      /\ IF more THEN off' = off + Chunk /\ cur' = cur ELSE off' = 0 /\ cur' = cur + 1
  BY DEF SendPiece
<1>4. off + 1 < Len(nal) /\ viewer.fu = IF off = 0 THEN <<>> ELSE SubSeq(nal, 1, off + 1)
  <2>1. off # 0 => off + 1 < Len(nal)
    BY DEF MediaInv, SentSoFar
  <2>2. off = 0 => off + 1 < Len(nal)
    BY <1>1, <1>3, Sizes
  <2>3. viewer.fu = IF off = 0 THEN <<>> ELSE SubSeq(nal, 1, off + 1)
    BY DEF MediaInv, SentSoFar
  <2> QED BY <2>1, <2>2, <2>3
<1> HIDE DEF nal, body
<1>5. /\ e \in Nat /\ off < e /\ e + 1 <= Len(nal) /\ e - off <= Chunk
      /\ ends \in BOOLEAN /\ (ends <=> ~more) /\ (~more => e + 1 = Len(nal))
      /\ more => e = off + Chunk /\ e + 1 < Len(nal)
  <2>1. CASE more
    BY <1>1, <1>2, <2>1, Sizes DEF End
  <2>2. CASE ~more
    BY <1>1, <1>2, <1>4, <2>2, Sizes DEF End
  <2> QED BY <2>1, <2>2
<1> HIDE DEF ends, e
<1>6. /\ payload \in Seq(Byte) /\ Len(payload) = 2 + (e - off)
      /\ \A pkt : pkt.payload = payload =>
           Receive(viewer, pkt) =
             IF ends THEN [nals |-> Append(viewer.nals, SubSeq(nal, 1, e + 1)), fu |-> <<>>]
             ELSE [nals |-> viewer.nals, fu |-> SubSeq(nal, 1, e + 1)]
  <2>1. ASSUME NEW pkt, pkt.payload = payload
        PROVE  /\ pkt.payload \in Seq(Byte) /\ Len(pkt.payload) = 2 + (e - off)
               /\ Receive(viewer, pkt) =
                    IF ends THEN [nals |-> Append(viewer.nals, SubSeq(nal, 1, e + 1)), fu |-> <<>>]
                    ELSE [nals |-> viewer.nals, fu |-> SubSeq(nal, 1, e + 1)]
    <3>1. pkt.payload = <<Indicator(nal), Header(nal, ends)>> \o SubSeq(Tail(nal), off + 1, e)
      BY <2>1 DEF body
    <3> QED BY <1>1, <1>4, <1>5, <3>1, TakesPiece
  <2> HIDE DEF payload
  <2>2. [payload |-> payload].payload = payload
    OBVIOUS
  <2> QED BY <2>1, <2>2
<1> HIDE DEF payload
<1>7. Len(payload) <= Mtu
  BY <1>1, <1>5, <1>6, Sizes
<1> DEFINE marker == LastNal(nals) /\ ends
<1>8. pc' \in PCs /\ marker \in BOOLEAN /\ (marker <=> pc' = "sent")
  <2>1. pc' \in PCs /\ marker \in BOOLEAN /\ (pc' = "sent" <=> cur' > Len(nals))
    BY DEF PCs
  <2>2. CASE more
    <3>1. ~ends /\ ~(cur' > Len(nals))
      BY <1>1, <1>3, <1>5, <2>2
    <3> QED BY <2>1, <3>1
  <2>3. CASE ~more
    <3>1. ends /\ (cur' > Len(nals) <=> cur = Len(nals))
      BY <1>1, <1>3, <1>5, <2>3
    <3> QED BY <2>1, <3>1 DEF LastNal
  <2> QED BY <2>2, <2>3
<1>9. /\ Numbered' /\ UnitFramed' /\ NoGapSeen'
      /\ out' # out /\ out' # <<>> /\ out'[Len(out')].payload = payload
  <2>1. Emit(payload, marker, sent)
    BY <1>3
  <2> HIDE DEF marker
  <2> QED BY <1>6, <1>7, <1>8, <2>1, Emits
<1>10. viewer' = IF ends THEN [nals |-> Append(viewer.nals, SubSeq(nal, 1, e + 1)), fu |-> <<>>]
                 ELSE [nals |-> viewer.nals, fu |-> SubSeq(nal, 1, e + 1)]
  BY <1>6, <1>9
<1>11. CASE more
  <2>1. ~ends /\ off' = e /\ cur' = cur /\ off' # 0 /\ off' \in Nat /\ pc' = "send"
        /\ off' + 1 < Len(nal)
    BY <1>1, <1>3, <1>5, <1>11, Sizes
  <2>2. viewer' = [nals |-> viewer.nals, fu |-> SubSeq(nal, 1, e + 1)]
    BY <1>10, <2>1
  <2>3. SubSeq(nal, 1, e + 1) \in Seq(Byte)
    <3>1. \A i \in 1 .. e + 1 : nal[i] \in Byte
      <4>1. ASSUME NEW i \in 1 .. e + 1
            PROVE  nal[i] \in Byte
        <5>1. i \in 1 .. Len(nal)
          BY <1>1, <1>5
        <5> QED BY <1>1, <5>1, ElementOfSeq
      <4> QED BY <4>1
    <3> QED BY <1>5, <3>1, SubSeqProperties
  <2>4. viewer'.nals = viewer.nals /\ viewer'.fu = SubSeq(nal, 1, off' + 1)
    BY <2>1, <2>2
  <2>5. viewer' \in [nals : Seq(Seq(Byte)), fu : Seq(Byte)]
    <3>1. viewer.nals \in Seq(Seq(Byte))
      BY <1>1 DEF Viewers
    <3> QED BY <2>2, <2>3, <3>1, ViewerIs
  <2>6. nal = nals'[cur']
    BY <2>1 DEF nal
  <2> QED BY <1>1, <1>3, <1>9, <2>1, <2>4, <2>5, <2>6 DEF MediaInv, SentSoFar
<1>12. CASE ~more
  <2>1. ends /\ off' = 0 /\ cur' = cur + 1 /\ e + 1 = Len(nal)
    BY <1>3, <1>5, <1>12
  <2>2. SubSeq(nal, 1, e + 1) = nal
    BY <1>1, <2>1, SubSeqFull
  <2>3. viewer' = [nals |-> Append(viewer.nals, nals[cur]), fu |-> <<>>]
    BY <1>10, <2>1, <2>2 DEF nal
  <2> QED BY <1>9, <2>1, <2>3, NalEnds
<1> QED BY <1>9, <1>11, <1>12

-----------------------------------------------------------------------------
(* Every step keeps the invariant.                                           *)

\* A step of Media is a step of the mapper, or none.
LEMMA MapperSteps == [MediaNext]_mediaVars => [Next]_vars
<1> SUFFICES ASSUME [MediaNext]_mediaVars
             PROVE  Next \/ UNCHANGED vars
  OBVIOUS
<1>1. ASSUME NEW ts \in Stamps \cup {None}, NEW elapsed \in 0 .. MaxElapsed,
             NEW au \in AccessUnits, DeviceFrame(ts, elapsed, au)
      PROVE  Next
  BY <1>1 DEF DeviceFrame, Next
<1>2. CASE DriverReconnects
  BY <1>2 DEF DriverReconnects, Next
<1>3. CASE SplitNal \/ Offer \/ Relay \/ SendPacket \/ Written \/ UNCHANGED mediaVars
  BY <1>3 DEF SplitNal, Offer, Done, Relay, SendPacket, Written, mediaVars
<1> QED BY <1>1, <1>2, <1>3 DEF MediaNext

\* What an access unit has between two others.
Rest == /\ nals = <<>> /\ code = -1 /\ unit = NoUnit
        /\ out = <<>> /\ cur = 0 /\ off = 0 /\ viewer = Nothing

LEMMA RestFits ==
  ASSUME Rest, pc = "idle"
  PROVE  SplitSoFar /\ SentSoFar /\ UnitFramed /\ NoGapSeen
<1>1. Len(<<>>) = 0 /\ 1 .. 0 = {} /\ NoUnit.nals = <<>> /\ DOMAIN <<>> = {}
  BY DEF NoUnit
<1>2. nals \in Seq(Seq(Byte)) /\ <<>> \in Seq(Byte)
  BY EmptySeq DEF Rest
<1>3. SplitSoFar
  BY <1>1, <1>2 DEF Rest, SplitSoFar
<1>4. viewer \in [nals : Seq(Seq(Byte)), fu : Seq(Byte)] /\ viewer.nals = <<>>
  BY <1>2, ViewerIs DEF Rest, Nothing
<1>5. SentSoFar
  BY <1>1, <1>4 DEF Rest, SentSoFar
<1>6. UnitFramed /\ NoGapSeen
  BY <1>1 DEF Rest, UnitFramed, NoGapSeen
<1> QED BY <1>3, <1>5, <1>6

LEMMA DeviceFrameKeepsInv ==
  ASSUME MediaInv, NEW ts, NEW elapsed, NEW au \in AccessUnits, DeviceFrame(ts, elapsed, au)
  PROVE  pc' \in PCs /\ unit' \in AccessUnits /\ SplitSoFar' /\ SentSoFar'
         /\ Numbered' /\ UnitFramed' /\ NoGapSeen'
<1>1. /\ pc = "idle" /\ pc' = "split" /\ unit' = au
      /\ code' = FindCode(au.bytes, 0) /\ nals' = <<>>
      /\ UNCHANGED <<seq, out, cur, off, viewer, last>>
  BY DEF DeviceFrame, Split, packetizerVars
<1>2. out = <<>> /\ cur = 0 /\ off = 0 /\ viewer = Nothing
  BY <1>1 DEF MediaInv, SentSoFar
<1>3. AnnexBUnit(au)
  BY AccessUnitAssumption
<1>4. Len(<<>>) = 0 /\ 1 .. 0 = {} /\ DOMAIN <<>> = {}
  OBVIOUS
<1>5. SplitSoFar'
  <2>1. <<>> \in Seq(Seq(Byte))
    BY EmptySeq
  <2>2. Len(au.nals) \in Nat
    BY <1>3, UnitIs
  <2>3. CASE Len(au.nals) = 0
    <3>1. FindCode(au.bytes, 0) = -1
      BY <1>3, <1>4, <2>3, FindsNoMore
    <3> QED BY <1>1, <1>4, <2>1, <2>3, <3>1 DEF SplitSoFar
  <2>4. CASE Len(au.nals) # 0
    <3>1. 1 \in 1 .. Len(au.nals)
      BY <2>2, <2>4
    <3>2. au.nals[1].at \in Nat /\ au.nals[1].at >= 3
      BY <1>3, <3>1, UnitIs
    <3>3. FindCode(au.bytes, 0) = au.nals[1].at - 3
      <4>1. 0 <= au.nals[1].at - 3
        BY <3>2
      <4>2. \A m \in 1 .. Len(au.nals) : ~(m < 1)
        OBVIOUS
      <4> QED BY <1>3, <3>1, <4>1, <4>2, FindsNext
    <3>4. code' = au.nals[Len(<<>>) + 1].at - 3 /\ Len(<<>>) <= Len(au.nals)
          /\ Len(<<>>) # Len(au.nals)
      BY <1>1, <1>4, <2>2, <2>4, <3>3
    <3> QED BY <1>1, <1>4, <2>1, <3>4 DEF SplitSoFar
  <2> QED BY <2>3, <2>4
<1>6. SentSoFar'
  <2>1. viewer' \in [nals : Seq(Seq(Byte)), fu : Seq(Byte)] /\ viewer'.nals = <<>>
    BY <1>1, <1>2 DEF MediaInv, SentSoFar, Nothing
  <2> QED BY <1>1, <1>2, <1>4, <2>1 DEF SentSoFar
<1>7. Numbered'
  BY <1>1 DEF MediaInv, Numbered, Latest
<1>8. UnitFramed' /\ NoGapSeen'
  BY <1>1, <1>2, <1>4 DEF UnitFramed, NoGapSeen
<1> QED BY <1>1, <1>5, <1>6, <1>7, <1>8 DEF PCs

LEMMA SplitNalKeepsInv ==
  ASSUME MediaInv, SplitNal
  PROVE  pc' \in PCs /\ (unit' \in AccessUnits \/ unit' = NoUnit) /\ SplitSoFar' /\ SentSoFar'
         /\ Numbered' /\ UnitFramed' /\ NoGapSeen'
<1>1. /\ pc = "split" /\ SplitNext(unit.bytes)
      /\ UNCHANGED <<vars, seq, out, cur, off, pc, unit, viewer, last>>
  BY DEF SplitNal, packetizerVars
<1>2. SplitSoFar'
  BY <1>1, UnitFits, SplitsNext DEF MediaInv
<1>3. SentSoFar'
  <2>1. out = <<>> /\ cur = 0 /\ off = 0 /\ viewer = Nothing
    BY <1>1 DEF MediaInv, SentSoFar
  <2>2. viewer.nals = <<>> /\ Len(<<>>) = 0 /\ 1 .. 0 = {}
    BY <2>1 DEF Nothing
  <2> QED BY <1>1, <2>1, <2>2 DEF MediaInv, SentSoFar
<1>4. Numbered' /\ UnitFramed' /\ NoGapSeen'
  BY <1>1 DEF MediaInv, Numbered, Latest, UnitFramed, NoGapSeen, vars
<1> QED BY <1>1, <1>2, <1>3, <1>4 DEF MediaInv

\* The access unit is dropped, or has left: nothing of it stays but the number.
LEMMA DoneKeepsInv ==
  ASSUME MediaInv, Done, code = -1, out' = <<>>, cur' = 0, off' = 0, viewer' = Nothing,
         last' = Latest
  PROVE  pc' \in PCs /\ (unit' \in AccessUnits \/ unit' = NoUnit) /\ SplitSoFar' /\ SentSoFar'
         /\ Numbered' /\ UnitFramed' /\ NoGapSeen'
<1>1. pc' = "idle" /\ unit' = NoUnit /\ nals' = <<>> /\ code' = -1 /\ seq' = seq
  BY DEF Done
<1>2. (Rest /\ pc = "idle")'
  BY <1>1 DEF Rest
<1>3. SplitSoFar' /\ SentSoFar' /\ UnitFramed' /\ NoGapSeen'
  BY <1>2, RestFits, PTL
<1>4. Numbered'
  <2>1. Latest' = last' /\ out' \in Seq(Packets)
    BY EmptySeq DEF Latest
  <2>2. Latest \in 0 .. SeqSpace - 1 /\ seq = (Latest + 1) % SeqSpace
    BY LatestIs DEF MediaInv, Numbered
  <2> QED BY <1>1, <2>1, <2>2 DEF Numbered
<1> QED BY <1>1, <1>3, <1>4 DEF PCs

LEMMA OfferKeepsInv ==
  ASSUME MediaInv, Offer
  PROVE  pc' \in PCs /\ (unit' \in AccessUnits \/ unit' = NoUnit) /\ SplitSoFar' /\ SentSoFar'
         /\ Numbered' /\ UnitFramed' /\ NoGapSeen'
<1>1. pc = "split" /\ code = -1 /\ UNCHANGED <<out, cur, off, viewer, last>>
  BY DEF Offer
<1>2. out = <<>> /\ cur = 0 /\ off = 0 /\ viewer = Nothing
  BY <1>1 DEF MediaInv, SentSoFar
<1>3. CASE Done
  <2>1. last' = Latest
    BY <1>1, <1>2 DEF Latest
  <2> QED BY <1>1, <1>2, <1>3, <2>1, DoneKeepsInv
<1>4. CASE nals # <<>> /\ pc' = "queued" /\ UNCHANGED <<vars, splitVars, seq, unit>>
  <2>1. /\ Len(nals) > 0 /\ Len(nals) = Len(unit.nals)
    <3>1. AnnexBUnit(unit) /\ nals \in Seq(Seq(Byte)) /\ Len(nals) <= Len(unit.nals)
      BY UnitFits DEF MediaInv, SplitSoFar
    <3>2. Len(nals) \in Nat \ {0} /\ Len(unit.nals) \in Nat
      BY <1>4, <3>1, EmptySeq, UnitIs
    <3>3. ASSUME Len(nals) # Len(unit.nals)
          PROVE  FALSE
      <4>1. Len(nals) + 1 \in 1 .. Len(unit.nals)
        BY <3>1, <3>2, <3>3
      <4>2. unit.nals[Len(nals) + 1].at \in Nat /\ unit.nals[Len(nals) + 1].at >= 3
        BY <3>1, <4>1, UnitIs
      <4>3. code = unit.nals[Len(nals) + 1].at - 3
        BY <3>3 DEF MediaInv, SplitSoFar
      <4> QED BY <1>1, <4>2, <4>3
    <3> QED BY <3>2, <3>3
  <2>2. UNCHANGED <<nals, code, unit, seq, sent>>
    BY <1>4 DEF splitVars, vars
  <2>3. SplitSoFar'
    BY <1>1, <1>4, <2>1, <2>2 DEF MediaInv, SplitSoFar, Nal
  <2>4. SentSoFar'
    BY <1>1, <1>2, <1>4, <2>2 DEF MediaInv, SentSoFar
  <2>5. Numbered' /\ NoGapSeen'
    BY <1>1, <2>2 DEF MediaInv, Numbered, Latest, NoGapSeen
  <2>6. UnitFramed'
    BY <1>1, <1>2 DEF UnitFramed
  <2> QED BY <1>4, <2>2, <2>3, <2>4, <2>5, <2>6 DEF MediaInv, PCs
<1> QED BY <1>3, <1>4 DEF Offer

LEMMA RelayKeepsInv ==
  ASSUME MediaInv, Relay
  PROVE  pc' \in PCs /\ (unit' \in AccessUnits \/ unit' = NoUnit) /\ SplitSoFar' /\ SentSoFar'
         /\ Numbered' /\ UnitFramed' /\ NoGapSeen'
<1>1. /\ pc = "queued" /\ pc' = "send" /\ cur' = 1 /\ off' = 0 /\ out' = <<>>
      /\ UNCHANGED <<seq, nals, code, unit, viewer, last, sent>>
  BY DEF Relay, Packetize, splitVars, vars
<1>2. out = <<>> /\ viewer = Nothing
  BY <1>1 DEF MediaInv, SentSoFar
<1>3. Len(nals) \in Nat /\ Len(nals) > 0 /\ Len(nals) = Len(unit.nals)
  BY <1>1, LenProperties DEF MediaInv, SplitSoFar
<1>4. SplitSoFar'
  BY <1>1, <1>3 DEF MediaInv, SplitSoFar, Nal
<1>5. SentSoFar'
  <2>1. viewer.nals = <<>> /\ viewer.fu = <<>> /\ Len(<<>>) = 0 /\ 1 .. 0 = {}
    BY <1>2 DEF Nothing
  <2>2. cur' \in 1 .. Len(nals) /\ cur' - 1 = 0
    BY <1>1, <1>3
  <2> QED BY <1>1, <1>2, <2>1, <2>2 DEF MediaInv, SentSoFar
<1>6. Numbered' /\ NoGapSeen'
  BY <1>1, <1>2 DEF MediaInv, Numbered, Latest, NoGapSeen
<1>7. UnitFramed'
  BY <1>1 DEF UnitFramed
<1> QED BY <1>1, <1>4, <1>5, <1>6, <1>7 DEF MediaInv, PCs

LEMMA SendPacketKeepsInv ==
  ASSUME MediaInv, SendPacket
  PROVE  pc' \in PCs /\ (unit' \in AccessUnits \/ unit' = NoUnit) /\ SplitSoFar' /\ SentSoFar'
         /\ Numbered' /\ UnitFramed' /\ NoGapSeen'
<1>1. /\ pc = "send" /\ UNCHANGED <<nals, code, unit, last, sent>>
      /\ SendWhole(nals, sent) \/ SendPiece(nals, sent)
      /\ viewer' = IF out' = out THEN viewer ELSE Receive(viewer, out'[Len(out')])
      /\ pc' = IF cur' > Len(nals) THEN "sent" ELSE "send"
  BY DEF SendPacket, splitVars, vars
<1>2. SentSoFar' /\ Numbered' /\ UnitFramed' /\ NoGapSeen'
  <2>1. CASE SendWhole(nals, sent)
    BY <1>1, <2>1, SendWholeKeepsInv
  <2>2. CASE SendPiece(nals, sent)
    BY <1>1, <2>2, SendPieceKeepsInv
  <2> QED BY <1>1, <2>1, <2>2
<1>3. SplitSoFar'
  <2>1. pc' \in {"send", "sent"}
    BY <1>1
  <2> QED BY <1>1, <2>1 DEF MediaInv, SplitSoFar, Nal
<1>4. pc' \in PCs
  BY <1>1 DEF PCs
<1> QED BY <1>1, <1>2, <1>3, <1>4 DEF MediaInv

LEMMA WrittenKeepsInv ==
  ASSUME MediaInv, Written
  PROVE  pc' \in PCs /\ (unit' \in AccessUnits \/ unit' = NoUnit) /\ SplitSoFar' /\ SentSoFar'
         /\ Numbered' /\ UnitFramed' /\ NoGapSeen'
<1>1. /\ pc = "sent" /\ Done /\ out' = <<>> /\ cur' = 0 /\ off' = off /\ viewer' = Nothing
      /\ last' = Latest
  BY DEF Written, Latest
<1>2. off = 0
  BY <1>1 DEF MediaInv, SentSoFar
<1>3. code = -1
  BY <1>1 DEF MediaInv, SplitSoFar
<1> QED BY <1>1, <1>2, <1>3, DoneKeepsInv

LEMMA OthersKeepInv ==
  ASSUME MediaInv, DriverReconnects \/ UNCHANGED mediaVars
  PROVE  pc' \in PCs /\ (unit' \in AccessUnits \/ unit' = NoUnit) /\ SplitSoFar' /\ SentSoFar'
         /\ Numbered' /\ UnitFramed' /\ NoGapSeen'
<1>1. UNCHANGED <<seq, out, cur, off, nals, code, unit, viewer, last, sent, pc>>
  BY DEF DriverReconnects, Reconnect, mediaVars, vars, splitVars, packetizerVars
<1>2. SplitSoFar'
  BY <1>1 DEF MediaInv, SplitSoFar, Nal
<1>3. SentSoFar'
  BY <1>1 DEF MediaInv, SentSoFar
<1>4. Numbered' /\ UnitFramed' /\ NoGapSeen'
  BY <1>1 DEF MediaInv, Numbered, Latest, UnitFramed, NoGapSeen
<1> QED BY <1>1, <1>2, <1>3, <1>4 DEF MediaInv

LEMMA InitMedia == MediaInit => MediaInv
<1> SUFFICES ASSUME MediaInit
             PROVE  MediaInv
  OBVIOUS
<1>1. TypeOK
  BY InitMapper DEF MediaInit
<1>2. Rest /\ pc = "idle" /\ seq = 0 /\ last = SeqSpace - 1
  BY DEF MediaInit, SplitInit, PacketizerInit, Rest
<1>3. Numbered
  <2>1. out \in Seq(Packets) /\ Latest = last
    BY <1>2, EmptySeq DEF Rest, Latest
  <2>2. SeqSpace \in Nat \ {0} /\ (SeqSpace - 1) + 1 = SeqSpace /\ SeqSpace - 1 \in 0 .. SeqSpace - 1
    BY PacketizerAssumption
  <2>3. SeqSpace % SeqSpace = 0
    <3>1. SeqSpace \in SeqSpace .. 2 * SeqSpace - 1 /\ SeqSpace - SeqSpace = 0
      BY <2>2
    <3> QED BY <2>2, <3>1, ModOver
  <2> QED BY <1>2, <2>1, <2>2, <2>3 DEF Numbered
<1> QED BY <1>1, <1>2, <1>3, RestFits DEF MediaInv, PCs, Rest

LEMMA StepMedia == MediaInv /\ [MediaNext]_mediaVars => MediaInv'
<1> SUFFICES ASSUME MediaInv, [MediaNext]_mediaVars
             PROVE  MediaInv'
  OBVIOUS
<1>1. TypeOK'
  BY MapperSteps, StepMapper DEF MediaInv
<1>2. pc' \in PCs /\ (unit' \in AccessUnits \/ unit' = NoUnit) /\ SplitSoFar' /\ SentSoFar'
      /\ Numbered' /\ UnitFramed' /\ NoGapSeen'
  BY DeviceFrameKeepsInv, SplitNalKeepsInv, OfferKeepsInv, RelayKeepsInv, SendPacketKeepsInv,
     WrittenKeepsInv, OthersKeepInv DEF MediaNext
<1> QED BY <1>1, <1>2 DEF MediaInv

\* Wherever an access unit is, what has been split and sent of it is what the
\* invariant says.
THEOREM MediaInvariant == MediaSpec => []MediaInv
BY InitMedia, StepMedia, PTL DEF MediaSpec

LEMMA InvGives == MediaInv => MediaTypeOK /\ NalsArrive
<1> SUFFICES ASSUME MediaInv
             PROVE  MediaTypeOK /\ NalsArrive
  OBVIOUS
<1>1. /\ AnnexBUnit(unit) /\ Len(unit.nals) \in Nat /\ Len(unit.bytes) \in Nat
      /\ nals \in Seq(Seq(Byte)) /\ Len(nals) \in Nat /\ Len(nals) <= Len(unit.nals)
      /\ viewer.nals \in Seq(Seq(Byte))
  BY UnitFits, UnitIs, LenProperties DEF MediaInv, SplitSoFar, SentSoFar
<1>2. code \in -1 .. Len(unit.bytes)
  <2>1. CASE Len(nals) = Len(unit.nals)
    BY <1>1, <2>1 DEF MediaInv, SplitSoFar
  <2>2. CASE Len(nals) # Len(unit.nals)
    <3>1. Len(nals) + 1 \in 1 .. Len(unit.nals)
      BY <1>1, <2>2
    <3> DEFINE n == Len(nals) + 1
               a == unit.nals[n].at
               e == unit.nals[n].end
    <3>2. n \in 1 .. Len(unit.nals)
      BY <3>1
    <3> HIDE DEF n
    <3>3. a \in Nat /\ e \in Nat /\ a >= 3 /\ a < e /\ e <= Len(unit.bytes)
      BY <1>1, <3>2, UnitIs
    <3>4. code = a - 3
      BY <2>2 DEF MediaInv, SplitSoFar, n
    <3> HIDE DEF a, e
    <3> QED BY <1>1, <3>3, <3>4
  <2> QED BY <2>1, <2>2
<1>3. cur \in 0 .. Len(nals) + 1 /\ off \in Nat
  <2>1. CASE pc = "send"
    BY <1>1, <2>1 DEF MediaInv, SentSoFar
  <2>2. CASE pc = "sent"
    BY <1>1, <2>2 DEF MediaInv, SentSoFar
  <2>3. CASE pc \notin {"send", "sent"}
    BY <1>1, <2>3 DEF MediaInv, SentSoFar
  <2> QED BY <2>1, <2>2, <2>3
<1>4. MediaTypeOK
  BY <1>1, <1>2, <1>3, LatestIs DEF MediaInv, MediaTypeOK, Numbered
<1>5. ASSUME NEW n \in DOMAIN viewer.nals
      PROVE  n <= Len(unit.nals) /\ viewer.nals[n] = Nal(n)
  <2>1. n \in 1 .. Len(viewer.nals) /\ Len(viewer.nals) \in Nat
    BY <1>1, LenProperties
  <2>2. n <= Len(nals) /\ viewer.nals[n] = nals[n]
    BY <2>1 DEF MediaInv, SentSoFar
  <2>3. n \in 1 .. Len(nals)
    BY <1>1, <2>1, <2>2
  <2> QED BY <1>1, <2>2, <2>3 DEF MediaInv, SplitSoFar
<1>6. pc = "sent" => Len(viewer.nals) = Len(unit.nals) /\ viewer.fu = <<>>
  BY DEF MediaInv, SentSoFar, SplitSoFar
<1> QED BY <1>4, <1>5, <1>6 DEF NalsArrive

\* Every number, index and offset on the way is in its range, and the mapper's
\* state is.
THEOREM MediaTyped == MediaSpec => []MediaTypeOK
BY MediaInvariant, InvGives, PTL

\* What a viewer puts together is what the device sent, NAL unit by NAL unit,
\* for every access unit in Annex B and every MTU.
THEOREM NalsReachViewer == MediaSpec => []NalsArrive
BY MediaInvariant, InvGives, PTL

\* The marker is on the last packet of an access unit and on no other, all carry
\* the frame's timestamp, and none is longer than the MTU.
THEOREM UnitsAreFramed == MediaSpec => []UnitFramed
<1>1. MediaInv => UnitFramed
  BY DEF MediaInv
<1> QED BY <1>1, MediaInvariant, PTL

\* Sequence numbers have no gap, within an access unit and from one sent to the
\* next, whatever was dropped between them.
THEOREM NumbersHaveNoGap == MediaSpec => []NoGapSeen
<1>1. MediaInv => NoGapSeen
  BY DEF MediaInv
<1> QED BY <1>1, MediaInvariant, PTL

\* The mapper inside Media is TimestampMapper: what is proved of it holds there.
THEOREM MediaRunsMapper == MediaSpec => Spec
<1>1. MediaInit => Init
  BY DEF MediaInit
<1> QED BY <1>1, MapperSteps, PTL DEF MediaSpec, Spec

\* What a viewer is sent keeps to one timeline within a connection, however many
\* items were dropped and whatever the device's clock did.
THEOREM ViewerTimeForward == MediaSpec => MapperForward /\ ClocklessAdvance
BY MediaRunsMapper, MapperGoesForward, ClocklessFramesAdvance
=============================================================================
