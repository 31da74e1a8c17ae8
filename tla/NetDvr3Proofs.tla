--------------------------- MODULE NetDvr3Proofs ---------------------------
(***************************************************************************)
(* Proofs about the framing parser, for every stream of frames and garbage *)
(* in which no magic passes for a frame's (Unforged), and every size.  The *)
(* invariant relates the buffer to the stream it is a window of: where the *)
(* magics are in it, which frames the parser has passed, and what it did   *)
(* with each of them.                                                      *)
(***************************************************************************)
EXTENDS NetDvr3, FiniteSetTheorems, SequenceTheorems, WellFoundedInduction, TLAPS

-----------------------------------------------------------------------------
(* Numbers, and the operators on byte sequences.                            *)

\* A set of naturals has a least element: of the intervals that end in one of
\* them, one has no other strictly inside it.
LEMMA LeastNatural ==
  ASSUME NEW T \in SUBSET Nat, T # {}
  PROVE  /\ Min(T) \in T
         /\ \A y \in T : Min(T) <= y
<1> DEFINE Upto(n) == 0 .. n
           Uptos == {Upto(n) : n \in T}
<1>1. Uptos \subseteq FiniteSubsetsOf(Nat) /\ Uptos # {}
  <2>1. ASSUME NEW n \in T
        PROVE  Upto(n) \subseteq Nat /\ IsFiniteSet(Upto(n))
    BY FS_Interval
  <2> QED BY <2>1 DEF FiniteSubsetsOf
<1>2. PICK u \in Uptos : \A v \in Uptos : <<v, u>> \notin StrictSubsetOrdering(Nat)
  BY <1>1, FS_StrictSubsetOrderingWellFounded, WFMin
<1>3. PICK x \in T : u = Upto(x)
  BY <1>2
<1>4. ASSUME NEW y \in T
      PROVE  x <= y
  <2>1. SUFFICES ASSUME y < x
                 PROVE  FALSE
    OBVIOUS
  <2>2. Upto(y) \subseteq Upto(x) /\ Upto(y) # Upto(x)
    <3>1. x \in Upto(x) /\ x \notin Upto(y)
      BY <2>1
    <3> QED BY <2>1, <3>1
  <2>3. <<Upto(y), Upto(x)>> \in StrictSubsetOrdering(Nat)
    BY <1>1, <2>2 DEF StrictSubsetOrdering, FiniteSubsetsOf
  <2> QED BY <1>2, <1>3, <2>3
<1> QED BY <1>4 DEF Min

LEMMA LargestOfTwo ==
  ASSUME NEW a \in Int, NEW b \in Int
  PROVE  /\ Max({a, b}) \in {a, b} /\ Max({a, b}) >= a /\ Max({a, b}) >= b
<1>1. \E x \in {a, b} : \A y \in {a, b} : x >= y
  <2>1. CASE a >= b
    BY <2>1
  <2>2. CASE b >= a
    BY <2>2
  <2> QED BY <2>1, <2>2
<1> QED BY <1>1 DEF Max

LEMMA SmallerOfTwo ==
  ASSUME NEW a \in Int, NEW b \in Int
  PROVE  /\ Min({a, b}) \in {a, b} /\ Min({a, b}) <= a /\ Min({a, b}) <= b
<1>1. \E x \in {a, b} : \A y \in {a, b} : x <= y
  <2>1. CASE a <= b
    BY <2>1
  <2>2. CASE b <= a
    BY <2>2
  <2> QED BY <2>1, <2>2
<1> QED BY <1>1 DEF Min

LEMMA Sizes ==
  /\ Lead \in Nat /\ Lead > 0 /\ LenMod \in Nat /\ LenMod > 0
  /\ Chunk \in Nat /\ Chunk > 0 /\ MaxPreamble \in Nat /\ MaxFrame \in Nat
  /\ HeaderLen = Lead + 3 /\ Peek = Lead + 2 /\ StartLen = 1 /\ KeptTail = Lead + 1
  /\ Len(Magic) = 2
BY SizesAssumption DEF HeaderLen, Peek, StartLen, KeptTail, Magic

LEMMA LeadCancels ==
  ASSUME NEW a \in Int, NEW b \in Int, a + Lead = b + Lead
  PROVE  a = b
BY Sizes

LEMMA SliceIs ==
  ASSUME NEW s \in Seq(Int), NEW m \in Nat, NEW n \in Nat, m + n <= Len(s)
  PROVE  /\ SubSeq(s, m + 1, m + n) \in Seq(Int)
         /\ Len(SubSeq(s, m + 1, m + n)) = n
         /\ \A k \in 1 .. n : SubSeq(s, m + 1, m + n)[k] = s[m + k]
<1>1. /\ m + 1 \in 1 .. Len(s) + 1
      /\ m + n \in m + 1 - 1 .. Len(s)
      /\ m + n - (m + 1) + 1 = n
  BY LenProperties
<1>2. /\ SubSeq(s, m + 1, m + n) \in Seq(Int)
      /\ Len(SubSeq(s, m + 1, m + n)) = n
      /\ \A k \in 1 .. n : SubSeq(s, m + 1, m + n)[k] = s[m + 1 + k - 1]
  BY <1>1, SubSeqProperties
<1>3. \A k \in 1 .. n : m + 1 + k - 1 = m + k
  OBVIOUS
<1> QED BY <1>2, <1>3

LEMMA DropIs ==
  ASSUME NEW s \in Seq(Int), NEW n \in 0 .. Len(s)
  PROVE  /\ Drop(s, n) \in Seq(Int)
         /\ Len(Drop(s, n)) = Len(s) - n
         /\ \A k \in 1 .. Len(s) - n : Drop(s, n)[k] = s[n + k]
<1>1. n \in Nat /\ Len(s) - n \in Nat /\ n + (Len(s) - n) = Len(s)
  BY LenProperties
<1> DEFINE m == Len(s) - n
           t == SubSeq(s, n + 1, n + m)
<1>2. Drop(s, n) = t
  BY <1>1 DEF Drop
<1>3. m \in Nat /\ n + m <= Len(s)
  BY <1>1
<1> HIDE DEF m
<1>4. t \in Seq(Int) /\ Len(t) = m /\ \A k \in 1 .. m : t[k] = s[n + k]
  BY <1>1, <1>3, SliceIs
<1> HIDE DEF t
<1> QED BY <1>2, <1>4 DEF m

LEMMA ReceivedIs ==
  ASSUME NEW s \in Seq(Int), stream \in Seq(Int), read \in Nat,
         NEW n \in Nat, read + n <= Len(stream)
  PROVE  /\ Received(s, n) \in Seq(Int)
         /\ Len(Received(s, n)) = Len(s) + n
         /\ \A k \in 1 .. Len(s) + n :
              Received(s, n)[k] = IF k <= Len(s) THEN s[k] ELSE stream[read + (k - Len(s))]
<1> DEFINE t == SubSeq(stream, read + 1, read + n)
<1>1. t \in Seq(Int) /\ Len(t) = n /\ \A k \in 1 .. n : t[k] = stream[read + k]
  BY SliceIs
<1>2. Received(s, n) = s \o t
  BY DEF Received
<1> HIDE DEF t
<1>3. /\ s \o t \in Seq(Int) /\ Len(s \o t) = Len(s) + n
      /\ \A k \in 1 .. Len(s) + n :
           (s \o t)[k] = IF k <= Len(s) THEN s[k] ELSE t[k - Len(s)]
  BY <1>1, ConcatProperties
<1>4. \A k \in 1 .. Len(s) + n : ~(k <= Len(s)) => k - Len(s) \in 1 .. n
  BY LenProperties
<1> QED BY <1>1, <1>2, <1>3, <1>4

LEMMA MagicIs ==
  ASSUME NEW s \in Seq(Int), NEW i \in Nat, i + 2 <= Len(s)
  PROVE  MagicAt(s, i) <=> s[i + 1] = M1 /\ s[i + 2] = M2
<1> DEFINE n == 2
           t == SubSeq(s, i + 1, i + n)
<1>1. MagicAt(s, i) <=> t = <<M1, M2>>
  BY Sizes DEF MagicAt, Magic
<1>2. n \in Nat /\ i + n <= Len(s)
  OBVIOUS
<1> HIDE DEF n
<1>3. t \in Seq(Int) /\ Len(t) = n /\ \A k \in 1 .. n : t[k] = s[i + k]
  BY <1>2, SliceIs
<1> HIDE DEF t
<1>4. t \in Seq(Int) /\ Len(t) = 2 /\ t[1] = s[i + 1] /\ t[2] = s[i + 2]
  BY <1>3 DEF n
<1> QED BY <1>1, <1>4 DEF M1, M2

LEMMA FindIs ==
  ASSUME NEW s \in Seq(Int)
  PROVE  \/ /\ Find(s) = -1
            /\ \A i \in 0 .. Len(s) - 2 : ~MagicAt(s, i)
         \/ /\ Find(s) \in 0 .. Len(s) - 2
            /\ MagicAt(s, Find(s))
            /\ \A i \in 0 .. Find(s) - 1 : ~MagicAt(s, i)
<1> DEFINE at == {i \in 0 .. Len(s) - 2 : MagicAt(s, i)}
<1>1. Find(s) = IF at = {} THEN -1 ELSE Min(at)
  BY Sizes DEF Find
<1>2. Len(s) \in Nat
  BY LenProperties
<1>3. CASE at = {}
  BY <1>1, <1>3
<1>4. CASE at # {}
  <2>1. at \in SUBSET Nat
    BY <1>2
  <2> DEFINE least == Min(at)
  <2>2. least \in at /\ \A y \in at : least <= y
    BY <1>4, <2>1, LeastNatural
  <2>3. Find(s) = least
    BY <1>1, <1>4
  <2> HIDE DEF least
  <2>4. \A i \in 0 .. least - 1 : i \in 0 .. Len(s) - 2 /\ ~(least <= i)
    BY <1>2, <2>2
  <2>5. \A i \in 0 .. least - 1 : ~MagicAt(s, i)
    BY <2>2, <2>4
  <2> QED BY <2>2, <2>3, <2>5
<1> QED BY <1>3, <1>4

LEMMA ModIs ==
  ASSUME NEW n \in Int
  PROVE  /\ n % LenMod \in 0 .. LenMod - 1
         /\ (n % LenMod) % LenMod = n % LenMod
         /\ n \in Nat => n % LenMod <= n /\ (n % LenMod = n <=> n < LenMod)
BY Sizes

-----------------------------------------------------------------------------
(* The inductive invariant.                                                 *)

\* The segments lie in the stream, one behind the other and up to its end.
Segmented ==
  /\ stream \in Seq(Int)
  /\ sent \in Seq([frame : BOOLEAN, at : Nat, end : Nat])
  /\ \A i \in DOMAIN sent : sent[i].at < sent[i].end /\ sent[i].end <= Len(stream)
  /\ \A i, j \in DOMAIN sent : i < j => sent[i].end <= sent[j].at
  /\ \A i \in DOMAIN sent :
       sent[i].end = IF i = Len(sent) THEN Len(stream) ELSE sent[i + 1].at

\* A frame has its magic, its wrapped length and its start code where they belong.
Framed ==
  \A i \in DOMAIN sent : sent[i].frame =>
    /\ Length(i) \in Nat
    /\ stream[sent[i].at + Lead + 1] = M1
    /\ stream[sent[i].at + Lead + 2] = M2
    /\ stream[sent[i].at + HeaderLen] = Length(i) % LenMod
    /\ stream[sent[i].at + HeaderLen + 1] = StartCode

\* b holds the last bytes of the first r of the stream.
WindowOf(b, r) ==
  /\ r \in 0 .. Len(stream)
  /\ b \in Seq(Int) /\ Len(b) <= r
  /\ \A k \in 1 .. Len(b) : b[k] = stream[r - Len(b) + k]
Window == WindowOf(buf, read)

Counters == pc \in PCs /\ scanned \in Nat /\ resyncs \in Nat /\ resyncs <= At

\* What buf begins with in each place of frames().
AtHeader ==
  /\ pc = "connect" => stream = <<>> /\ sent = <<>>
  /\ pc \in {"header", "body", "yield"} => Len(buf) >= Peek /\ At + Lead \in Magics
  /\ pc = "body" => Len(buf) >= HeaderLen

\* What follows frame i is there, and not a header.
Refuted(i) == sent[i].end + Peek <= Len(stream) /\ sent[i].end + Lead \notin Magics

\* A clear frame whose first byte the parser has dropped was yielded, unless its
\* length wrapped or no header followed it.
Passed ==
  \A i \in DOMAIN sent :
    sent[i].frame /\ sent[i].at < At /\ Length(i) < LenMod /\ Clear(i)
    => AccessUnit(i) \in delivered \/ Refuted(i)

\* What was yielded lies behind the parser.
Behind == \A d \in delivered : d.at \in Nat /\ d.at < At

Inv == /\ Segmented /\ Framed /\ Unforged /\ Window /\ Counters /\ AtHeader
       /\ Passed /\ Behind /\ NoSplice /\ BufferBounded

-----------------------------------------------------------------------------
(* The window over the stream.                                              *)

LEMMA RoomIs ==
  Room \in Nat /\ Room >= MaxPreamble /\ Room >= HeaderLen + LenMod + Peek
<1>1. MaxPreamble \in Int /\ HeaderLen + StartLen + LenMod - 1 + Peek \in Int
  BY Sizes
<1> DEFINE m == HeaderLen + StartLen + LenMod - 1 + Peek
<1>2. Room \in {MaxPreamble, m} /\ Room >= MaxPreamble /\ Room >= m
  BY <1>1, LargestOfTwo DEF Room
<1>3. m = HeaderLen + LenMod + Peek /\ m \in Nat
  BY Sizes
<1> HIDE DEF m
<1> QED BY <1>2, <1>3, Sizes

LEMMA SegmentIs ==
  ASSUME Segmented, NEW i \in DOMAIN sent
  PROVE  /\ Len(sent) \in Nat /\ i \in 1 .. Len(sent)
         /\ sent[i].frame \in BOOLEAN /\ sent[i].at \in Nat /\ sent[i].end \in Nat
<1>1. Len(sent) \in Nat /\ DOMAIN sent = 1 .. Len(sent)
  BY LenProperties DEF Segmented
<1>2. sent[i] \in [frame : BOOLEAN, at : Nat, end : Nat]
  BY <1>1, ElementOfSeq DEF Segmented
<1> QED BY <1>1, <1>2

\* A magic of the stream by its two bytes.
LEMMA MagicsIs ==
  ASSUME stream \in Seq(Int)
  PROVE  /\ Len(stream) \in Nat /\ Magics \subseteq 0 .. Len(stream) - 2
         /\ \A p \in 0 .. Len(stream) - 2 :
              p \in Magics <=> stream[p + 1] = M1 /\ stream[p + 2] = M2
<1>1. Len(stream) \in Nat
  BY LenProperties
<1>2. Magics = {p \in 0 .. Len(stream) - 2 : MagicAt(stream, p)}
  BY Sizes DEF Magics
<1>3. ASSUME NEW p \in 0 .. Len(stream) - 2
      PROVE  MagicAt(stream, p) <=> stream[p + 1] = M1 /\ stream[p + 2] = M2
  <2>1. p \in Nat /\ p + 2 <= Len(stream)
    BY <1>1
  <2> QED BY <2>1, MagicIs
<1> QED BY <1>1, <1>2, <1>3

\* The end of a frame, and its magic among those of the stream.
LEMMA FrameIsIn ==
  ASSUME Segmented, Framed, NEW i \in DOMAIN sent, sent[i].frame
  PROVE  /\ sent[i].at \in Nat /\ sent[i].end \in Nat /\ Length(i) \in Nat
         /\ sent[i].end = sent[i].at + HeaderLen + 1 + Length(i)
         /\ sent[i].end <= Len(stream) /\ sent[i].at + Lead \in Magics
<1>1. /\ sent[i].at \in Nat /\ sent[i].end \in Nat /\ Length(i) \in Nat
      /\ sent[i].end <= Len(stream) /\ stream \in Seq(Int) /\ Len(stream) \in Nat
  BY SegmentIs, LenProperties DEF Segmented, Framed
<1>2. sent[i].end = sent[i].at + HeaderLen + 1 + Length(i)
  BY <1>1, Sizes DEF Length
<1>3. /\ sent[i].at + Lead \in 0 .. Len(stream) - 2
  <2> DEFINE length == Length(i)
             a == sent[i].at
             L == Len(stream)
  <2>1. length \in Nat /\ a \in Nat /\ L \in Nat /\ a + HeaderLen + 1 + length <= L
    BY <1>1, <1>2
  <2> HIDE DEF length, a, L
  <2>2. a + Lead \in 0 .. L - 2
    BY <2>1, Sizes
  <2> QED BY <2>2 DEF a, L
<1>4. sent[i].at + Lead \in Magics
  BY <1>1, <1>3, MagicsIs DEF Framed
<1> QED BY <1>1, <1>2, <1>4

\* Where no magic is, for a clear frame.
LEMMA ClearIs ==
  ASSUME Segmented, NEW i \in DOMAIN sent, Clear(i), NEW p \in Magics
  PROVE  p + 1 < sent[i].at \/ sent[i].at + Lead <= p
<1>1. sent[i].at \in Nat /\ p \in Int
  BY SegmentIs, MagicsIs DEF Segmented
<1>2. p \notin sent[i].at - 2 + 1 .. sent[i].at + Lead - 1
  BY Sizes DEF Clear
<1> QED BY <1>1, <1>2, Sizes

LEMMA WindowAt ==
  ASSUME NEW b, NEW r, WindowOf(b, r), NEW k \in 1 .. Len(b),
         NEW p, p = r - Len(b) + k
  PROVE  b[k] = stream[p]
BY DEF WindowOf

LEMMA DropWindow ==
  ASSUME NEW b, NEW r, WindowOf(b, r), NEW n \in 0 .. Len(b)
  PROVE  WindowOf(Drop(b, n), r) /\ Len(Drop(b, n)) = Len(b) - n
<1> DEFINE d == Drop(b, n)
<1>1. b \in Seq(Int) /\ Len(b) \in Nat
  BY LenProperties DEF WindowOf
<1>2. /\ d \in Seq(Int) /\ Len(d) = Len(b) - n
      /\ \A k \in 1 .. Len(b) - n : d[k] = b[n + k]
  BY <1>1, DropIs
<1> HIDE DEF d
<1>3. ASSUME NEW k \in 1 .. Len(d)
      PROVE  d[k] = stream[r - Len(d) + k]
  <2>1. n + k \in 1 .. Len(b) /\ r - Len(b) + (n + k) = r - Len(d) + k
    BY <1>1, <1>2 DEF WindowOf
  <2> QED BY <1>2, <2>1 DEF WindowOf
<1>4. Len(d) <= r
  BY <1>1, <1>2 DEF WindowOf
<1>5. WindowOf(d, r)
  BY <1>2, <1>3, <1>4 DEF WindowOf
<1> QED BY <1>2, <1>5 DEF d

LEMMA ReadWindow ==
  ASSUME stream \in Seq(Int), NEW b, WindowOf(b, read), NEW n \in Nat, n <= Left
  PROVE  WindowOf(Received(b, n), read + n) /\ Len(Received(b, n)) = Len(b) + n
<1> DEFINE d == Received(b, n)
<1>1. /\ b \in Seq(Int) /\ Len(b) \in Nat /\ Len(stream) \in Nat
      /\ read \in Nat /\ read + n <= Len(stream)
  BY LenProperties DEF WindowOf, Left
<1>2. /\ d \in Seq(Int) /\ Len(d) = Len(b) + n
      /\ \A k \in 1 .. Len(b) + n :
           d[k] = IF k <= Len(b) THEN b[k] ELSE stream[read + (k - Len(b))]
  BY <1>1, ReceivedIs
<1> HIDE DEF d
<1>3. ASSUME NEW k \in 1 .. Len(d)
      PROVE  d[k] = stream[(read + n) - Len(d) + k]
  <2>1. /\ (read + n) - Len(d) + k = read - Len(b) + k
        /\ (read + n) - Len(d) + k = read + (k - Len(b))
    BY <1>1, <1>2
  <2>2. k <= Len(b) => k \in 1 .. Len(b)
    BY <1>1, <1>2
  <2> QED BY <1>2, <2>1, <2>2 DEF WindowOf
<1>4. Len(d) <= read + n /\ read + n \in 0 .. Len(stream)
  BY <1>1, <1>2 DEF WindowOf
<1>5. WindowOf(d, read + n)
  BY <1>2, <1>3, <1>4 DEF WindowOf
<1> QED BY <1>2, <1>5 DEF d

\* A magic in the window is one of the stream's.
LEMMA MagicInWindow ==
  ASSUME stream \in Seq(Int), NEW b, NEW r, WindowOf(b, r), NEW k \in 0 .. Len(b) - 2
  PROVE  MagicAt(b, k) <=> r - Len(b) + k \in Magics
<1>1. /\ b \in Seq(Int) /\ Len(b) \in Nat /\ Len(stream) \in Nat /\ r \in Nat
      /\ k \in Nat /\ k + 2 <= Len(b) /\ Len(b) <= r /\ r <= Len(stream)
  BY LenProperties DEF WindowOf
<1>2. MagicAt(b, k) <=> b[k + 1] = M1 /\ b[k + 2] = M2
  BY <1>1, MagicIs
<1> DEFINE p == r - Len(b) + k
<1>3. b[k + 1] = stream[p + 1] /\ b[k + 2] = stream[p + 2]
  <2>1. k + 1 \in 1 .. Len(b) /\ k + 2 \in 1 .. Len(b)
    BY <1>1
  <2>2. r - Len(b) + (k + 1) = p + 1 /\ r - Len(b) + (k + 2) = p + 2
    BY <1>1
  <2> QED BY <2>1, <2>2, WindowAt
<1>4. p \in 0 .. Len(stream) - 2
  BY <1>1
<1> HIDE DEF p
<1>5. MagicAt(b, k) <=> p \in Magics
  BY <1>2, <1>3, <1>4, MagicsIs
<1> QED BY <1>5 DEF p

\* What find(MAGIC) tells of the stream.
LEMMA FindMagic ==
  ASSUME stream \in Seq(Int), NEW b, NEW r, WindowOf(b, r)
  PROVE  \/ /\ Find(b) = -1
            /\ \A p \in Magics : r - Len(b) <= p => r < p + 2
         \/ /\ Find(b) \in 0 .. Len(b) - 2 /\ r - Len(b) + Find(b) \in Magics
            /\ \A p \in Magics : r - Len(b) <= p => r - Len(b) + Find(b) <= p
<1>1. b \in Seq(Int) /\ Len(b) \in Nat /\ r \in Nat
  BY LenProperties DEF WindowOf
<1>2. ASSUME NEW p \in Magics, r - Len(b) <= p, p + 2 <= r
      PROVE  /\ p - (r - Len(b)) \in 0 .. Len(b) - 2
             /\ MagicAt(b, p - (r - Len(b)))
  <2> DEFINE k == p - (r - Len(b))
  <2>1. p \in Int
    BY MagicsIs
  <2>2. k \in 0 .. Len(b) - 2 /\ r - Len(b) + k = p
    BY <1>1, <1>2, <2>1
  <2> HIDE DEF k
  <2>3. MagicAt(b, k)
    BY <1>2, <2>2, MagicInWindow
  <2> QED BY <2>2, <2>3 DEF k
<1>3. CASE /\ Find(b) = -1
           /\ \A i \in 0 .. Len(b) - 2 : ~MagicAt(b, i)
  <2>1. ASSUME NEW p \in Magics, r - Len(b) <= p
        PROVE  r < p + 2
    <3>1. p \in Int /\ ~(p + 2 <= r)
      BY <1>2, <1>3, <2>1, MagicsIs
    <3> QED BY <1>1, <3>1
  <2> QED BY <1>3, <2>1
<1>4. CASE /\ Find(b) \in 0 .. Len(b) - 2
           /\ MagicAt(b, Find(b))
           /\ \A i \in 0 .. Find(b) - 1 : ~MagicAt(b, i)
  <2> DEFINE f == Find(b)
  <2>1. f \in 0 .. Len(b) - 2 /\ r - Len(b) + f \in Magics
    BY <1>4, MagicInWindow
  <2>2. ASSUME NEW p \in Magics, r - Len(b) <= p
        PROVE  r - Len(b) + f <= p
    <3> SUFFICES ASSUME ~(r - Len(b) + f <= p)
                 PROVE  FALSE
      OBVIOUS
    <3>1. p \in Int
      BY MagicsIs
    <3> DEFINE k == p - (r - Len(b))
    <3> HIDE DEF f
    <3>2. p + 2 <= r /\ k \in 0 .. f - 1
      BY <1>1, <2>1, <2>2, <3>1
    <3>3. MagicAt(b, k)
      BY <1>2, <2>2, <3>2
    <3> HIDE DEF k
    <3> QED BY <1>4, <3>2, <3>3 DEF f
  <2> QED BY <2>1, <2>2
<1> QED BY <1>1, <1>3, <1>4, FindIs

\* Segments are told apart by where they begin.
LEMMA Apart ==
  ASSUME Segmented, NEW i \in DOMAIN sent, NEW j \in DOMAIN sent
  PROVE  /\ sent[i].at < sent[j].at => i < j /\ sent[i].end <= sent[j].at
         /\ sent[i].at = sent[j].at => i = j
         /\ i < j => sent[i].at < sent[j].at
<1>1. i \in Int /\ j \in Int
  BY SegmentIs
<1>2. /\ sent[i].at \in Nat /\ sent[i].end \in Nat /\ sent[i].at < sent[i].end
      /\ sent[j].at \in Nat /\ sent[j].end \in Nat /\ sent[j].at < sent[j].end
  BY SegmentIs DEF Segmented
<1>3. /\ i < j => sent[i].end <= sent[j].at
      /\ j < i => sent[j].end <= sent[i].at
  BY DEF Segmented
<1>4. i < j \/ i = j \/ j < i
  BY <1>1
<1> QED BY <1>2, <1>3, <1>4

\* The bound on the buffer grows with the magics left behind.
LEMMA LimitIs ==
  ASSUME stream \in Seq(Int)
  PROVE  /\ IsFiniteSet(LeftBehind)
         /\ Limit \in Nat /\ Limit >= Room + Chunk
<1>1. Len(stream) \in Nat /\ LeftBehind \subseteq 0 .. Len(stream) - 2
  BY MagicsIs DEF LeftBehind
<1>2. IsFiniteSet(LeftBehind)
  <2>1. IsFiniteSet(0 .. Len(stream) - 2)
    BY <1>1, FS_Interval
  <2> QED BY <1>1, <2>1, FS_Subset
<1> DEFINE n == Cardinality(LeftBehind)
<1>3. n \in Nat
  BY <1>2, FS_CardinalityType
<1> HIDE DEF n
<1>4. Chunk * (n + 1) \in Nat /\ Chunk * (n + 1) >= Chunk
  BY <1>3, Sizes
<1> QED BY <1>2, <1>4, RoomIs, Sizes DEF Limit, n

LEMMA LimitGrows ==
  ASSUME stream \in Seq(Int), stream' \in Seq(Int), LeftBehind \subseteq LeftBehind'
  PROVE  /\ Limit' \in Nat /\ Limit' >= Limit
         /\ \A q \in LeftBehind' : q \notin LeftBehind => Limit' >= Limit + Chunk
<1> DEFINE n == Cardinality(LeftBehind)
           m == Cardinality(LeftBehind')
<1>1. IsFiniteSet(LeftBehind) /\ IsFiniteSet(LeftBehind')
  <2>1. Len(stream') \in Nat /\ LeftBehind' \subseteq 0 .. Len(stream') - 2
    <3>1. Len(stream') \in Nat
      BY LenProperties
    <3> QED BY <3>1, Sizes DEF LeftBehind, Magics
  <2>2. IsFiniteSet(0 .. Len(stream') - 2)
    BY <2>1, FS_Interval
  <2>3. IsFiniteSet(LeftBehind')
    BY <2>1, <2>2, FS_Subset
  <2> QED BY <2>3, LimitIs
<1>2. n \in Nat /\ m \in Nat /\ n <= m
  BY <1>1, FS_CardinalityType, FS_Subset
<1>3. ASSUME NEW q \in LeftBehind', q \notin LeftBehind
      PROVE  n + 1 <= m
  <2> DEFINE more == LeftBehind \cup {q}
  <2>1. IsFiniteSet(more) /\ Cardinality(more) = n + 1
    BY <1>1, <1>3, FS_AddElement
  <2>2. more \subseteq LeftBehind'
    BY <1>3
  <2> HIDE DEF more
  <2> QED BY <1>1, <2>1, <2>2, FS_Subset
<1>4. Limit = Room + Chunk * (n + 1) /\ Limit' = Room + Chunk * (m + 1)
  BY DEF Limit, Room
<1> HIDE DEF n, m
<1>5. PICK k \in Nat : m = n + k
  <2>1. m - n \in Nat /\ m = n + (m - n)
    BY <1>2
  <2> QED BY <2>1
<1>6. /\ Chunk * (m + 1) = Chunk * (n + 1) + Chunk * k
      /\ Chunk * (m + 1) \in Nat /\ Chunk * (n + 1) \in Nat /\ Chunk * k \in Nat
      /\ k >= 1 => Chunk * k >= Chunk
  BY <1>2, <1>5, Sizes
<1>7. Limit' \in Nat /\ Limit' >= Limit
  BY <1>4, <1>6, RoomIs
<1>8. n + 1 <= m => Limit' >= Limit + Chunk
  BY <1>2, <1>4, <1>5, <1>6, RoomIs, Sizes
<1> QED BY <1>3, <1>7, <1>8

-----------------------------------------------------------------------------
(* Steps that only move the parser.                                         *)

\* What every proof of a step starts from.
LEMMA State ==
  ASSUME Inv
  PROVE  /\ Segmented /\ Framed /\ WindowOf(buf, read) /\ stream \in Seq(Int)
         /\ buf \in Seq(Int) /\ Len(buf) \in Nat
         /\ read \in Nat /\ Len(stream) \in Nat /\ read <= Len(stream)
         /\ At \in Nat /\ At = read - Len(buf)
         /\ resyncs \in Nat /\ resyncs <= At /\ scanned \in Nat
         /\ Limit \in Nat /\ Limit >= Room + Chunk /\ Len(buf) <= Limit
<1>1. Segmented /\ Framed /\ WindowOf(buf, read) /\ stream \in Seq(Int)
  BY DEF Inv, Window, Segmented
<1>2. /\ buf \in Seq(Int) /\ Len(buf) \in Nat
      /\ read \in Nat /\ Len(stream) \in Nat /\ read <= Len(stream)
      /\ At \in Nat /\ At = read - Len(buf)
  BY <1>1, LenProperties DEF WindowOf, At
<1>3. resyncs \in Nat /\ resyncs <= At /\ scanned \in Nat
  BY DEF Inv, Counters
<1>4. Limit \in Nat /\ Limit >= Room + Chunk /\ Len(buf) <= Limit
  BY <1>1, LimitIs DEF Inv, BufferBounded
<1> QED BY <1>1, <1>2, <1>3, <1>4

\* While the device sends nothing the magics and frames stay what they are.
LEMMA StreamStays ==
  ASSUME UNCHANGED device
  PROVE  /\ Magics' = Magics
         /\ \A i : /\ Length(i)' = Length(i) /\ AccessUnit(i)' = AccessUnit(i)
                   /\ Clear(i)' = Clear(i) /\ Refuted(i)' = Refuted(i) /\ Sound(i)' = Sound(i)
<1>1. stream' = stream /\ sent' = sent
  BY DEF device
<1>2. Magics' = Magics
  BY <1>1 DEF Magics, MagicAt
<1> QED BY <1>1, <1>2 DEF Length, AccessUnit, Clear, Refuted, Sound

\* A step of the parser that passes the beginning of no frame it should yield.
LEMMA ParserMoves ==
  ASSUME Inv, UNCHANGED device, delivered \subseteq delivered', WindowOf(buf', read'), At <= At',
         \A i \in DOMAIN sent :
           sent[i].frame /\ At <= sent[i].at /\ sent[i].at < At' /\ Length(i) < LenMod /\ Clear(i)
           => AccessUnit(i) \in delivered' \/ Refuted(i)
  PROVE  /\ Segmented' /\ Framed' /\ Unforged' /\ Window' /\ Passed'
         /\ delivered' = delivered => Behind' /\ NoSplice'
         /\ LeftBehind \subseteq LeftBehind' /\ Limit' \in Nat /\ Limit' >= Limit
<1>1. stream' = stream /\ sent' = sent
  BY DEF device
<1>2. /\ Magics' = Magics
      /\ \A i : /\ Length(i)' = Length(i) /\ AccessUnit(i)' = AccessUnit(i)
                /\ Clear(i)' = Clear(i) /\ Refuted(i)' = Refuted(i) /\ Sound(i)' = Sound(i)
  BY StreamStays
<1>3. Segmented' /\ Framed' /\ Window' /\ (delivered' = delivered => NoSplice')
  BY <1>1, <1>2 DEF Inv, Segmented, Framed, Window, WindowOf, NoSplice
<1>4. Unforged'
  BY <1>1, <1>2 DEF Inv, Unforged, FalseMagics, EndTold
<1>5. At \in Int /\ At' \in Int
  BY LenProperties DEF Inv, Window, WindowOf, At, Segmented
<1>6. Passed'
  <2>1. SUFFICES ASSUME NEW i \in DOMAIN sent, sent[i].frame, sent[i].at < At',
                        Length(i) < LenMod, Clear(i)
                 PROVE  AccessUnit(i) \in delivered' \/ Refuted(i)
    BY <1>1, <1>2 DEF Passed
  <2>2. sent[i].at \in Nat
    BY SegmentIs DEF Inv
  <2>3. sent[i].at < At \/ At <= sent[i].at
    BY <1>5, <2>2
  <2> QED BY <2>1, <2>3 DEF Inv, Passed
<1>7. delivered' = delivered => Behind'
  BY <1>1, <1>5 DEF Inv, Behind
<1>8. LeftBehind \subseteq LeftBehind'
  <2>1. Magics \subseteq Int /\ Magics' = Magics
    BY <1>2, State, MagicsIs
  <2>2. ASSUME NEW p \in Int, p < At
        PROVE  p < At'
    BY <1>5, <2>2
  <2> QED BY <2>1, <2>2 DEF LeftBehind
<1>9. Limit' \in Nat /\ Limit' >= Limit
  BY <1>1, <1>8, State, LimitGrows
<1> QED BY <1>3, <1>4, <1>6, <1>7, <1>8, <1>9

\* A step that only moves pc.
LEMMA PcMoves ==
  ASSUME Inv, UNCHANGED <<device, read, buf, scanned, resyncs, delivered>>,
         pc' \in PCs, AtHeader'
  PROVE  Inv'
<1>1. UNCHANGED <<device, delivered>> /\ UNCHANGED <<read, buf, resyncs, scanned>>
  OBVIOUS
<1>2. At' = At /\ At \in Int
  BY <1>1, LenProperties DEF Inv, At, Window, WindowOf
<1>3. WindowOf(buf', read')
  BY <1>1 DEF Inv, Window
<1>4. \A i \in DOMAIN sent : ~(At <= sent[i].at /\ sent[i].at < At')
  BY <1>2, SegmentIs DEF Inv
<1>5. /\ Segmented' /\ Framed' /\ Unforged' /\ Window' /\ Passed' /\ Behind' /\ NoSplice'
      /\ Limit' \in Nat /\ Limit' >= Limit
  BY <1>1, <1>2, <1>3, <1>4, ParserMoves
<1>6. Counters'
  BY <1>1, <1>2 DEF Inv, Counters
<1>7. BufferBounded'
  BY <1>1, <1>5, State DEF BufferBounded
<1> QED BY <1>5, <1>6, <1>7 DEF Inv

LEMMA CloseKeepsInv ==
  ASSUME Inv, Close
  PROVE  Inv'
<1>1. AtHeader' /\ pc' \in PCs
  BY DEF Close, AtHeader, PCs
<1> QED BY <1>1, PcMoves DEF Close

LEMMA ResumeKeepsInv ==
  ASSUME Inv, Resume
  PROVE  Inv'
<1>1. Magics' = Magics /\ At' = At
  BY StreamStays DEF Resume, At
<1>2. AtHeader' /\ pc' \in PCs
  BY <1>1 DEF Resume, Inv, AtHeader, PCs
<1> QED BY <1>2, PcMoves DEF Resume

LEMMA ConnectKeepsInv ==
  ASSUME Inv, Connect
  PROVE  Inv'
<1>1. CASE Close
  BY <1>1, CloseKeepsInv
<1>2. CASE /\ \E n \in Preambles : stream' = Plain(n)
           /\ pc' = "preamble"
           /\ UNCHANGED <<sent, read, buf, scanned, resyncs, delivered>>
  <2>1. PICK n \in Preambles : stream' = Plain(n)
    BY <1>2
  <2>2. n \in Nat
    BY SizesAssumption
  <2>3. /\ stream' \in Seq(Int) /\ Len(stream') = n
        /\ DOMAIN stream' = 1 .. n /\ \A k \in 1 .. n : stream'[k] # M2
    <3>1. /\ Plain(n) \in Seq(Int) /\ Len(Plain(n)) = n
          /\ DOMAIN Plain(n) = 1 .. n /\ \A k \in 1 .. n : Plain(n)[k] = Other
      BY <2>2, IsASeq, LenProperties DEF Plain, Other
    <3> QED BY <2>1, <3>1 DEF Other, M2
  <2>4. stream = <<>> /\ sent = <<>>
    BY DEF Connect, Inv, AtHeader
  <2>5. read = 0 /\ Len(buf) = 0 /\ buf \in Seq(Int) /\ At = 0 /\ resyncs = 0
    BY <2>4, State, EmptySeq
  <2>6. sent' = <<>> /\ Len(sent') = 0 /\ DOMAIN sent' = {} /\ delivered' = delivered
    BY <1>2, <2>4
  <2>7. Magics' = {} /\ LeftBehind = {}
    <3>1. Magics' = {}
      <4>1. Magics' \subseteq 0 .. n - 2 /\
            \A p \in 0 .. n - 2 : p \in Magics' => stream'[p + 2] = M2
        <5>1. stream' \in Seq(Int)
          BY <2>3
        <5>2. ASSUME NEW p \in 0 .. n - 2, MagicAt(stream', p)
              PROVE  stream'[p + 2] = M2
          <6>1. p \in Nat /\ p + 2 <= Len(stream')
            BY <2>2, <2>3
          <6> QED BY <5>1, <5>2, <6>1, MagicIs
        <5> QED BY <2>3, <5>2, Sizes DEF Magics, MagicAt
      <4>2. \A p \in 0 .. n - 2 : p + 2 \in 1 .. n
        BY <2>2
      <4> QED BY <2>3, <4>1, <4>2
    <3>2. LeftBehind = {}
      <4>1. Magics \subseteq 0 .. 0 - 2 /\ ~ \E p \in 0 .. 0 - 2 : TRUE
        <5>1. stream \in Seq(Int) /\ Len(stream) = 0
          BY <2>4, EmptySeq, State
        <5> QED BY <5>1, MagicsIs
      <4> QED BY <4>1 DEF LeftBehind
    <3> QED BY <3>1, <3>2
  <2>8. Segmented' /\ Framed' /\ Unforged'
    BY <2>3, <2>6, <2>7 DEF Segmented, Framed, Unforged, FalseMagics
  <2>9. read' = 0 /\ buf' = buf /\ At' = 0
    BY <1>2, <2>5 DEF At
  <2>10. Window'
    BY <2>2, <2>3, <2>5, <2>9 DEF Window, WindowOf
  <2>11. delivered = {}
    BY <2>4 DEF Inv, NoSplice
  <2>12. Passed' /\ Behind' /\ NoSplice'
    BY <1>2, <2>6, <2>11 DEF Passed, Behind, NoSplice
  <2>13. Counters' /\ AtHeader'
    BY <1>2, <2>5, <2>9 DEF Inv, Counters, PCs, AtHeader
  <2>14. BufferBounded'
    <3>1. Limit' \in Nat
      BY <2>3, <2>7, State, LimitGrows
    <3> QED BY <2>5, <2>9, <3>1 DEF BufferBounded
  <2> QED BY <2>8, <2>10, <2>12, <2>13, <2>14 DEF Inv
<1> QED BY <1>1, <1>2 DEF Connect

LEMMA FindInBuf ==
  ASSUME Inv
  PROVE  \/ /\ Find(buf) = -1
            /\ \A p \in Magics : At <= p => read < p + 2
         \/ /\ Find(buf) \in 0 .. Len(buf) - 2 /\ At + Find(buf) \in Magics
            /\ \A p \in Magics : At <= p => At + Find(buf) <= p
<1>1. stream \in Seq(Int) /\ WindowOf(buf, read)
  BY State
<1> QED BY <1>1, FindMagic DEF At

\* The preamble's end and a resync's: buf is cut to the first header found.
LEMMA ToHeaderKeepsInv ==
  ASSUME Inv, Find(buf) >= Lead, buf' = Drop(buf, Find(buf) - Lead), pc' = "header",
         UNCHANGED <<device, read, scanned, resyncs, delivered>>
  PROVE  Inv'
<1> DEFINE n == Find(buf) - Lead
<1>1. /\ Segmented /\ Framed /\ WindowOf(buf, read)
      /\ Len(buf) \in Nat /\ read \in Nat /\ At \in Nat /\ At = read - Len(buf)
      /\ Limit \in Nat /\ Len(buf) <= Limit /\ resyncs \in Nat /\ resyncs <= At
  BY State
<1>2. /\ Find(buf) \in 0 .. Len(buf) - 2 /\ At + Find(buf) \in Magics
      /\ \A p \in Magics : At <= p => At + Find(buf) <= p
  BY FindInBuf, Sizes
<1>3. n \in 0 .. Len(buf) /\ Find(buf) = n + Lead /\ Len(buf) - n >= Peek
  <2> DEFINE found == Find(buf)
  <2>1. found \in 0 .. Len(buf) - 2 /\ found >= Lead /\ n = found - Lead
    BY <1>2
  <2> HIDE DEF found, n
  <2>2. n \in 0 .. Len(buf) /\ found = n + Lead /\ Len(buf) - n >= Peek
    BY <1>1, <2>1, Sizes
  <2> QED BY <2>2 DEF found
<1>4. buf' = Drop(buf, n) /\ read' = read /\ resyncs' = resyncs /\ Magics' = Magics
  BY StreamStays
<1> HIDE DEF n
<1>5. WindowOf(buf', read') /\ Len(buf') = Len(buf) - n
  <2>1. WindowOf(Drop(buf, n), read) /\ Len(Drop(buf, n)) = Len(buf) - n
    BY <1>1, <1>3, DropWindow
  <2> QED BY <1>4, <2>1
<1>6. At' = At + n
  BY <1>1, <1>3, <1>4, <1>5 DEF At
<1>7. ASSUME NEW i \in DOMAIN sent, sent[i].frame, At <= sent[i].at
      PROVE  At' <= sent[i].at
  <2>1. sent[i].at \in Nat /\ sent[i].at + Lead \in Magics
    BY <1>1, <1>7, FrameIsIn
  <2>2. At <= sent[i].at + Lead
    <3> DEFINE a == sent[i].at
    <3>1. a \in Nat /\ At <= a
      BY <1>7, <2>1
    <3> HIDE DEF a
    <3>2. At <= a + Lead
      BY <1>1, <3>1, Sizes
    <3> QED BY <3>2 DEF a
  <2>3. At + (n + Lead) <= sent[i].at + Lead
    BY <1>2, <1>3, <2>1, <2>2
  <2> QED BY <1>1, <1>3, <1>6, <2>1, <2>3, Sizes
<1>8. /\ Segmented' /\ Framed' /\ Unforged' /\ Window' /\ Passed' /\ Behind' /\ NoSplice'
      /\ Limit' \in Nat /\ Limit' >= Limit
  <2>1. At <= At'
    BY <1>1, <1>3, <1>6
  <2>2. \A i \in DOMAIN sent :
          ~(sent[i].frame /\ At <= sent[i].at /\ sent[i].at < At')
    BY <1>1, <1>3, <1>6, <1>7, SegmentIs
  <2> QED BY <1>5, <2>1, <2>2, ParserMoves
<1>9. AtHeader'
  <2>1. At' + Lead \in Magics'
    BY <1>1, <1>2, <1>3, <1>4, <1>6, Sizes
  <2>2. Len(buf') >= Peek
    BY <1>3, <1>5
  <2> QED BY <2>1, <2>2 DEF AtHeader
<1>10. Counters'
  BY <1>1, <1>3, <1>4, <1>6 DEF Inv, Counters, PCs
<1>11. BufferBounded'
  BY <1>1, <1>3, <1>5, <1>8 DEF BufferBounded
<1> QED BY <1>8, <1>9, <1>10, <1>11 DEF Inv

LEMMA PreambleEndsKeepsInv ==
  ASSUME Inv, PreambleEnds
  PROVE  Inv'
BY ToHeaderKeepsInv DEF PreambleEnds

LEMMA ResyncedKeepsInv ==
  ASSUME Inv, Resynced
  PROVE  Inv'
BY ToHeaderKeepsInv DEF Resynced, ToHeader

\* In the frame loop buf begins with a header, and its length is in range whatever
\* the magic stands in.
LEMMA HeaderInBuf ==
  ASSUME Inv, pc \in {"header", "body", "yield"}
  PROVE  /\ Len(buf) >= Peek /\ At + Lead \in Magics /\ HeaderOK
         /\ Len(buf) >= HeaderLen => PayloadLen \in 1 .. LenMod /\ PayloadLen <= MaxFrame
<1>1. /\ Segmented /\ WindowOf(buf, read) /\ stream \in Seq(Int)
      /\ buf \in Seq(Int) /\ Len(buf) \in Nat /\ read \in Nat /\ At = read - Len(buf)
  BY State
<1>2. Len(buf) >= Peek /\ At + Lead \in Magics
  BY DEF Inv, AtHeader
<1>3. HeaderOK
  <2>1. Lead \in 0 .. Len(buf) - 2 /\ read - Len(buf) + Lead = At + Lead
    BY <1>1, <1>2, Sizes
  <2> QED BY <1>1, <1>2, <2>1, MagicInWindow DEF HeaderOK
<1>4. ASSUME Len(buf) >= HeaderLen
      PROVE  PayloadLen \in 1 .. LenMod /\ PayloadLen <= MaxFrame
  <2>1. HeaderLen \in 1 .. Len(buf)
    BY <1>1, <1>4, Sizes
  <2>2. buf[HeaderLen] \in Int
    BY <1>1, <2>1, ElementOfSeq
  <2>3. buf[HeaderLen] % LenMod \in 0 .. LenMod - 1
    BY <2>2, ModIs
  <2> QED BY <2>3, Sizes, LengthAssumption DEF PayloadLen
<1> QED BY <1>2, <1>3, <1>4

\* A frame that buf begins with, and what its header says.
LEMMA FrameInBuf ==
  ASSUME Inv, Len(buf) >= HeaderLen,
         NEW i \in DOMAIN sent, sent[i].frame, sent[i].at = At
  PROVE  /\ PayloadLen = (Length(i) % LenMod) + 1
         /\ EndTold(i) = At + HeaderLen + PayloadLen
<1>1. /\ Segmented /\ Framed /\ WindowOf(buf, read)
      /\ Len(buf) \in Nat /\ read \in Nat /\ At \in Nat /\ At = read - Len(buf)
  BY State
<1>2. Length(i) \in Nat /\ stream[sent[i].at + HeaderLen] = Length(i) % LenMod
  BY <1>1 DEF Framed
<1>3. HeaderLen \in 1 .. Len(buf) /\ sent[i].at + HeaderLen = read - Len(buf) + HeaderLen
  BY <1>1, Sizes
<1>4. buf[HeaderLen] = Length(i) % LenMod
  BY <1>1, <1>2, <1>3, WindowAt
<1>5. PayloadLen = (Length(i) % LenMod) + 1
  BY <1>2, <1>4, ModIs, Sizes DEF PayloadLen
<1>6. EndTold(i) = At + HeaderLen + PayloadLen
  <2>1. Length(i) % LenMod \in Int
    BY <1>2, ModIs
  <2> QED BY <1>1, <1>5, <2>1, Sizes DEF EndTold
<1> QED BY <1>5, <1>6

LEMMA ReadKeepsInv ==
  ASSUME Inv, NEW n \in Nat, Read(n), pc \in {"preamble", "header", "body"},
         Len(buf) + n <= Limit
  PROVE  Inv'
<1>1. /\ Segmented /\ Framed /\ WindowOf(buf, read) /\ stream \in Seq(Int)
      /\ Len(buf) \in Nat /\ read \in Nat /\ At \in Nat /\ At = read - Len(buf)
      /\ Limit \in Nat
  BY State
<1>2. /\ n <= Left /\ buf' = Received(buf, n) /\ read' = read + n
      /\ UNCHANGED <<device, delivered>> /\ pc' = pc
      /\ scanned' = scanned /\ resyncs' = resyncs
  BY DEF Read
<1>3. WindowOf(buf', read') /\ Len(buf') = Len(buf) + n
  <2>1. /\ WindowOf(Received(buf, n), read + n)
        /\ Len(Received(buf, n)) = Len(buf) + n
    BY <1>1, <1>2, ReadWindow
  <2> QED BY <1>2, <2>1
<1>4. At' = At
  BY <1>1, <1>2, <1>3 DEF At
<1>5. /\ Segmented' /\ Framed' /\ Unforged' /\ Window' /\ Passed' /\ Behind' /\ NoSplice'
      /\ Limit' \in Nat /\ Limit' >= Limit
  <2>1. \A i \in DOMAIN sent : ~(At <= sent[i].at /\ sent[i].at < At')
    BY <1>1, <1>4, SegmentIs
  <2> QED BY <1>1, <1>2, <1>3, <1>4, <2>1, ParserMoves
<1>6. AtHeader'
  <2>1. Magics' = Magics
    BY <1>2, StreamStays
  <2>2. Len(buf') >= Len(buf)
    BY <1>1, <1>3
  <2> QED BY <1>1, <1>2, <1>3, <1>4, <2>1, <2>2, Sizes DEF Inv, AtHeader
<1>7. Counters'
  BY <1>2, <1>4 DEF Inv, Counters
<1>8. BufferBounded'
  BY <1>1, <1>3, <1>5 DEF BufferBounded
<1> QED BY <1>5, <1>6, <1>7, <1>8 DEF Inv

LEMMA PreambleReadKeepsInv ==
  ASSUME Inv, PreambleRead
  PROVE  Inv'
<1>1. CASE Close
  BY <1>1, CloseKeepsInv
<1>2. CASE /\ ~(Len(buf) > MaxPreamble \/ Left = 0)
           /\ \E n \in 1 .. Min({Chunk, Left}) : Read(n)
  <2>1. /\ Len(buf) \in Nat /\ Left \in Nat /\ Limit \in Nat /\ Limit >= Room + Chunk
    BY State DEF Left
  <2> DEFINE m == Min({Chunk, Left})
  <2>2. m <= Chunk /\ m \in Nat
    <3>1. Chunk \in Int /\ Left \in Int
      BY <2>1, Sizes
    <3>2. m \in {Chunk, Left} /\ m <= Chunk
      BY <3>1, SmallerOfTwo
    <3> HIDE DEF m
    <3> QED BY <2>1, <3>2, Sizes
  <2>3. PICK n \in 1 .. m : Read(n)
    BY <1>2
  <2>4. n \in Nat /\ n <= Chunk
    BY <2>2, Sizes
  <2>5. Len(buf) + n <= Limit
    BY <1>2, <2>1, <2>4, Sizes, RoomIs
  <2> QED BY <2>3, <2>4, <2>5, ReadKeepsInv DEF PreambleRead
<1> QED BY <1>1, <1>2 DEF PreambleRead

LEMMA FillKeepsInv ==
  ASSUME Inv, Fill
  PROVE  Inv'
<1> DEFINE n == Wanted - Len(buf)
<1>1. CASE ReadFails(n)
  BY <1>1, CloseKeepsInv DEF ReadFails
<1>2. CASE Read(n)
  <2>1. Len(buf) \in Nat /\ Limit \in Nat /\ Limit >= Room + Chunk
    BY State
  <2>2. Len(buf) < Wanted
    BY DEF Fill, Short
  <2>3. /\ pc \in {"header", "body"}
        /\ Wanted \in Nat /\ Wanted <= HeaderLen + LenMod + Peek
    <3>1. CASE pc = "header"
      BY <3>1, Sizes DEF Wanted
    <3>2. CASE pc = "body"
      <4>1. PayloadLen \in 1 .. LenMod
        BY <3>2, HeaderInBuf DEF Inv, AtHeader
      <4> QED BY <3>2, <4>1, Sizes DEF Wanted
    <3>3. CASE pc \notin {"header", "body"}
      BY <2>1, <2>2, <3>3 DEF Wanted
    <3> QED BY <3>1, <3>2, <3>3
  <2>4. n \in Nat /\ Len(buf) + n <= Limit
    BY <2>1, <2>2, <2>3, RoomIs, Sizes
  <2> QED BY <1>2, <2>3, <2>4, ReadKeepsInv
<1> QED BY <1>1, <1>2 DEF Fill

LEMMA ParseHeaderKeepsInv ==
  ASSUME Inv, ParseHeader
  PROVE  Inv'
<1>1. pc = "header" /\ Len(buf) >= HeaderLen
  BY State, Sizes, SMTT(30) DEF ParseHeader, Short, Wanted
<1>2. HeaderOK /\ PayloadLen <= MaxFrame
  BY <1>1, HeaderInBuf
<1>3. pc' = "body" /\ UNCHANGED <<device, read, buf, scanned, resyncs, delivered>>
  BY <1>2 DEF ParseHeader
<1>4. Magics' = Magics /\ At' = At
  BY <1>3, StreamStays DEF At
<1>5. AtHeader' /\ pc' \in PCs
  BY <1>1, <1>3, <1>4 DEF Inv, AtHeader, PCs
<1> QED BY <1>3, <1>5, PcMoves

\* The driver gives up the header it is at: if that is a frame's, then its length
\* wrapped, or what follows it is no header.
LEMMA StartResyncKeepsInv ==
  ASSUME Inv, pc = "body", StartResync,
         \A i \in DOMAIN sent :
           sent[i].frame /\ sent[i].at = At /\ Length(i) < LenMod => Refuted(i)
  PROVE  Inv'
<1>1. /\ Segmented /\ WindowOf(buf, read) /\ stream \in Seq(Int)
      /\ Len(buf) \in Nat /\ read \in Nat /\ At \in Nat /\ At = read - Len(buf)
      /\ resyncs \in Nat /\ resyncs <= At /\ Limit \in Nat /\ Len(buf) <= Limit
  BY State
<1>2. /\ pc' = "resync" /\ buf' = Drop(buf, Lead) /\ scanned' = 0 /\ resyncs' = resyncs + 1
      /\ UNCHANGED <<device, delivered>> /\ read' = read
  BY DEF StartResync, PastCandidate
<1>3. Lead \in 0 .. Len(buf) /\ At + Lead \in Magics
  BY <1>1, Sizes DEF Inv, AtHeader
<1>4. WindowOf(buf', read') /\ Len(buf') = Len(buf) - Lead
  <2>1. WindowOf(Drop(buf, Lead), read) /\ Len(Drop(buf, Lead)) = Len(buf) - Lead
    BY <1>1, <1>3, DropWindow
  <2> QED BY <1>2, <2>1
<1>5. At' = At + Lead
  BY <1>1, <1>2, <1>4, Sizes DEF At
<1>6. /\ Segmented' /\ Framed' /\ Unforged' /\ Window' /\ Passed' /\ Behind' /\ NoSplice'
      /\ Limit' \in Nat /\ Limit' >= Limit
  <2>1. At <= At'
    BY <1>1, <1>5, Sizes
  <2>2. ASSUME NEW i \in DOMAIN sent, sent[i].frame, At <= sent[i].at, sent[i].at < At',
               Length(i) < LenMod, Clear(i)
        PROVE  Refuted(i)
    <3>1. sent[i].at \in Nat
      BY <1>1, SegmentIs
    <3>2. At + Lead + 1 < sent[i].at \/ sent[i].at + Lead <= At + Lead
      BY <1>1, <1>3, <2>2, ClearIs
    <3>3. sent[i].at = At
      <4> DEFINE a == sent[i].at
      <4>1. At <= a /\ a < At + Lead /\ a \in Nat /\ At \in Nat
        BY <1>1, <1>5, <2>2, <3>1
      <4>2. At + Lead + 1 < a \/ a + Lead <= At + Lead
        BY <3>2
      <4> HIDE DEF a
      <4>3. a = At
        BY <4>1, <4>2, Sizes
      <4> QED BY <4>3 DEF a
    <3> QED BY <2>2, <3>3
  <2> QED BY <1>2, <1>4, <2>1, <2>2, ParserMoves
<1>7. Counters' /\ AtHeader'
  BY <1>1, <1>2, <1>5, Sizes DEF Counters, PCs, AtHeader
<1>8. BufferBounded'
  BY <1>1, <1>4, <1>6, Sizes DEF BufferBounded
<1> QED BY <1>6, <1>7, <1>8 DEF Inv

LEMMA DeliverKeepsInv ==
  ASSUME Inv, Deliver
  PROVE  Inv'
<1> DEFINE need == HeaderLen + PayloadLen
<1>1. /\ Segmented /\ Framed /\ WindowOf(buf, read) /\ stream \in Seq(Int)
      /\ Len(buf) \in Nat /\ read \in Nat /\ At \in Nat /\ At = read - Len(buf)
      /\ resyncs \in Nat /\ resyncs <= At /\ Limit \in Nat /\ Len(buf) <= Limit
      /\ Len(stream) \in Nat /\ read <= Len(stream)
  BY State
<1>2. pc = "body" /\ Len(buf) >= HeaderLen /\ At + Lead \in Magics /\ PayloadLen \in 1 .. LenMod
  <2>1. pc = "body" /\ Len(buf) >= HeaderLen
    BY DEF Deliver, Inv, AtHeader
  <2> QED BY <2>1, HeaderInBuf
<1>3. Len(buf) >= need + Peek /\ need \in Nat /\ need > HeaderLen /\ HeaderLen \in Nat
  <2>1. need \in Nat /\ need > HeaderLen /\ HeaderLen \in Nat
    BY <1>2, Sizes
  <2>2. Wanted = need + Peek
    BY <1>2 DEF Wanted
  <2>3. ~(Len(buf) < need + Peek)
    BY <2>2 DEF Deliver, Short
  <2> HIDE DEF need
  <2> QED BY <1>1, <2>1, <2>3, Sizes
<1> HIDE DEF need
<1>4. /\ need \in 0 .. Len(buf)
      /\ need + Lead \in 0 .. Len(buf) - 2 /\ read - Len(buf) + (need + Lead) = At + need + Lead
  BY <1>1, <1>3, Sizes
<1>5. MagicAt(buf, need + Lead) <=> At + need + Lead \in Magics
  BY <1>1, <1>4, MagicInWindow
<1>6. buf[HeaderLen + 1] = stream[At + HeaderLen + 1] /\ At + HeaderLen < Len(stream)
  <2>1. /\ HeaderLen + 1 \in 1 .. Len(buf)
        /\ At + HeaderLen + 1 = read - Len(buf) + (HeaderLen + 1)
    BY <1>1, <1>3, Sizes
  <2>2. At + HeaderLen < Len(stream)
    BY <1>1, <1>3, Sizes
  <2> DEFINE k == HeaderLen + 1
             p == At + HeaderLen + 1
  <2>3. k \in 1 .. Len(buf) /\ p = read - Len(buf) + k
    BY <2>1
  <2> HIDE DEF k, p
  <2>4. buf[k] = stream[p]
    BY <1>1, <2>3, WindowAt
  <2> QED BY <2>2, <2>4 DEF k, p
<1>7. \A i \in DOMAIN sent : sent[i].frame /\ sent[i].at = At =>
        /\ Length(i) \in Nat /\ PayloadLen = (Length(i) % LenMod) + 1
        /\ EndTold(i) = At + need /\ sent[i].end = At + HeaderLen + 1 + Length(i)
  <2> SUFFICES ASSUME NEW i \in DOMAIN sent, sent[i].frame, sent[i].at = At
               PROVE  /\ Length(i) \in Nat /\ PayloadLen = (Length(i) % LenMod) + 1
                      /\ EndTold(i) = At + need /\ sent[i].end = At + HeaderLen + 1 + Length(i)
    OBVIOUS
  <2>1. Length(i) \in Nat /\ sent[i].end = At + HeaderLen + 1 + Length(i)
    BY <1>1, FrameIsIn
  <2>2. /\ PayloadLen = (Length(i) % LenMod) + 1
        /\ EndTold(i) = At + HeaderLen + PayloadLen
    BY <1>2, FrameInBuf
  <2>3. At + HeaderLen + PayloadLen = At + need
    BY <1>1, <1>2, <1>3 DEF need
  <2> QED BY <2>1, <2>2, <2>3
<1>8. CASE Boundary(need)
  <2>1. /\ delivered' = delivered \cup {[at |-> At + HeaderLen, len |-> PayloadLen]}
        /\ buf' = Drop(buf, need) /\ pc' = "yield" /\ read' = read
        /\ scanned' = scanned /\ resyncs' = resyncs /\ UNCHANGED device
    BY <1>8 DEF Deliver, Taken, need
  <2>2. buf[HeaderLen + 1] = StartCode /\ At + need + Lead \in Magics
    BY <1>5, <1>8 DEF Boundary
  <2>3. PICK i \in DOMAIN sent : sent[i].frame /\ sent[i].at = At
    <3> DEFINE p == At + Lead
    <3>1. /\ p + HeaderLen - Lead = At + HeaderLen
          /\ p + HeaderLen - Lead + 1 = At + HeaderLen + 1
      BY <1>1, <1>3, Sizes
    <3>2. p \in Magics /\ p \notin FalseMagics
      BY <1>2, <1>6, <2>2, <3>1 DEF Inv, Unforged
    <3>3. PICK i \in DOMAIN sent : sent[i].frame /\ p = sent[i].at + Lead
      BY <3>2 DEF FalseMagics
    <3>4. sent[i].at \in Nat
      BY <1>1, SegmentIs
    <3>5. At + Lead = sent[i].at + Lead /\ At \in Int /\ sent[i].at \in Int
      BY <1>1, <3>3, <3>4
    <3> QED BY <3>3, <3>5, LeadCancels
  <2>4. /\ Length(i) \in Nat /\ PayloadLen = (Length(i) % LenMod) + 1
        /\ EndTold(i) = At + need /\ sent[i].end = At + HeaderLen + 1 + Length(i)
    BY <1>7, <2>3
  <2>5. Length(i) < LenMod
    <3> SUFFICES ASSUME Length(i) >= LenMod
                 PROVE  FALSE
      BY <2>4, Sizes
    <3> DEFINE p == At + need + Lead
    <3>1. p \in Magics /\ p = EndTold(i) + Lead
      BY <2>2, <2>4
    <3>2. p \notin FalseMagics
      BY <2>3, <3>1 DEF Inv, Unforged
    <3>3. PICK j \in DOMAIN sent : sent[j].frame /\ p = sent[j].at + Lead
      BY <3>1, <3>2 DEF FalseMagics
    <3>4. sent[j].at \in Nat /\ sent[j].at = At + need
      <4>1. sent[j].at \in Nat
        BY <1>1, SegmentIs
      <4>2. (At + need) + Lead = sent[j].at + Lead /\ At + need \in Int /\ sent[j].at \in Int
        BY <1>1, <1>3, <3>3, <4>1
      <4> QED BY <4>1, <4>2, LeadCancels
    <3>5. sent[i].end <= sent[j].at
      BY <1>1, <1>3, <2>3, <3>4, Apart
    <3> DEFINE length == Length(i)
               wrapped == length % LenMod
    <3>6. wrapped \in 0 .. LenMod - 1 /\ length \in Nat
      BY <2>4, ModIs
    <3>7. need = HeaderLen + (wrapped + 1)
      <4>1. need = HeaderLen + PayloadLen
        BY DEF need
      <4> QED BY <2>4, <4>1
    <3>8. At + HeaderLen + 1 + length <= At + need /\ length >= LenMod
      BY <2>4, <3>4, <3>5
    <3> HIDE DEF length, wrapped
    <3>9. length <= wrapped
      BY <1>1, <1>3, <3>6, <3>7, <3>8
    <3> QED BY <3>6, <3>8, <3>9, Sizes
  <2>6. sent[i].end = At + need /\ PayloadLen = Length(i) + 1
    <3>1. Length(i) % LenMod = Length(i)
      BY <2>4, <2>5, ModIs
    <3>2. PayloadLen = Length(i) + 1
      BY <2>4, <3>1
    <3>3. need = HeaderLen + PayloadLen
      BY DEF need
    <3> DEFINE length == Length(i)
    <3>4. /\ length \in Nat /\ need = HeaderLen + (length + 1)
          /\ sent[i].end = At + HeaderLen + 1 + length
      BY <2>4, <3>2, <3>3
    <3> HIDE DEF length
    <3>5. sent[i].end = At + need
      BY <1>1, <1>3, <3>4
    <3> QED BY <3>2, <3>5
  <2> DEFINE d == [at |-> At + HeaderLen, len |-> PayloadLen]
  <2>7. d = AccessUnit(i) /\ Sound(i)
    <3>1. sent[i].end - sent[i].at - HeaderLen = PayloadLen
      <4>1. sent[i].end - sent[i].at - HeaderLen = (At + need) - At - HeaderLen
        BY <2>3, <2>6
      <4>2. need = HeaderLen + PayloadLen
        BY DEF need
      <4> QED BY <1>1, <1>2, <1>3, <4>1, <4>2
    <3>2. sent[i].end + Lead \in Magics
      BY <2>2, <2>6
    <3> QED BY <2>3, <2>5, <3>1, <3>2 DEF AccessUnit, Sound
  <2>8. d \in delivered' /\ \A e \in delivered' : e \in delivered \/ e = d
    BY <2>1
  <2>9. d.at = At + HeaderLen
    OBVIOUS
  <2> HIDE DEF d
  <2>10. WindowOf(buf', read') /\ Len(buf') = Len(buf) - need
    <3>1. WindowOf(Drop(buf, need), read) /\ Len(Drop(buf, need)) = Len(buf) - need
      BY <1>1, <1>4, DropWindow
    <3> QED BY <2>1, <3>1
  <2>11. At' = At + need
    BY <1>1, <1>3, <2>1, <2>10 DEF At
  <2>12. /\ Segmented' /\ Framed' /\ Unforged' /\ Window' /\ Passed'
         /\ Limit' \in Nat /\ Limit' >= Limit
    <3>1. At <= At' /\ delivered \subseteq delivered'
      BY <1>1, <1>3, <2>1, <2>11
    <3>2. ASSUME NEW k \in DOMAIN sent, sent[k].frame, At <= sent[k].at, sent[k].at < At'
          PROVE  AccessUnit(k) \in delivered'
      <4>1. sent[k].at \in Nat
        BY <1>1, SegmentIs
      <4>2. ~(sent[i].at < sent[k].at)
        <5> SUFFICES ASSUME sent[i].at < sent[k].at
                     PROVE  FALSE
          OBVIOUS
        <5>1. sent[i].end <= sent[k].at
          BY <1>1, Apart
        <5> QED BY <1>1, <1>3, <2>6, <2>11, <3>2, <4>1, <5>1
      <4>3. k = i
        <5>1. sent[k].at = sent[i].at
          BY <1>1, <2>3, <3>2, <4>1, <4>2
        <5> QED BY <1>1, <5>1, Apart
      <4> QED BY <2>7, <2>8, <4>3
    <3> QED BY <2>1, <2>10, <3>1, <3>2, ParserMoves
  <2>13. NoSplice'
    <3>1. i \in 1 .. Len(sent) /\ sent' = sent
      BY <1>1, <2>1, SegmentIs DEF device
    <3>2. \A k : Sound(k)' = Sound(k) /\ AccessUnit(k)' = AccessUnit(k)
      BY <2>1, StreamStays
    <3> QED BY <2>7, <2>8, <3>1, <3>2 DEF Inv, NoSplice
  <2>14. Behind'
    <3>1. At \in Int /\ At' > At /\ d.at \in Nat /\ d.at < At'
      BY <1>1, <1>3, <2>9, <2>11
    <3>2. ASSUME NEW e \in delivered
          PROVE  e.at \in Nat /\ e.at < At'
      <4>1. e.at \in Nat /\ e.at < At
        BY DEF Inv, Behind
      <4> QED BY <1>1, <1>3, <2>11, <4>1
    <3> QED BY <2>8, <3>1, <3>2 DEF Behind
  <2>15. AtHeader'
    <3>1. Magics' = Magics
      BY <2>1, StreamStays
    <3>2. Len(buf') >= Peek
      BY <1>1, <1>3, <2>10, Sizes
    <3> QED BY <2>1, <2>2, <2>11, <3>1, <3>2 DEF AtHeader
  <2>16. Counters' /\ BufferBounded'
    <3>1. /\ resyncs' = resyncs /\ scanned' = scanned /\ pc' \in PCs
          /\ At' \in Nat /\ At <= At' /\ Len(buf') <= Len(buf)
      BY <1>1, <1>3, <2>1, <2>10, <2>11 DEF PCs
    <3>2. Counters'
      BY <1>1, <3>1 DEF Inv, Counters
    <3>3. BufferBounded'
      BY <1>1, <1>3, <2>10, <2>12, <3>1 DEF BufferBounded
    <3> QED BY <3>2, <3>3
  <2> QED BY <2>12, <2>13, <2>14, <2>15, <2>16 DEF Inv
<1>9. CASE ~Boundary(need)
  <2>1. StartResync
    BY <1>9 DEF Deliver, need
  <2>2. ASSUME NEW i \in DOMAIN sent, sent[i].frame, sent[i].at = At, Length(i) < LenMod
        PROVE  Refuted(i)
    <3>1. /\ Length(i) \in Nat /\ PayloadLen = (Length(i) % LenMod) + 1
          /\ sent[i].end = At + HeaderLen + 1 + Length(i)
      BY <1>7, <2>2
    <3>2. sent[i].end = At + need
      <4>1. PayloadLen = Length(i) + 1
        BY <2>2, <3>1, ModIs
      <4>2. need = HeaderLen + PayloadLen
        BY DEF need
      <4> DEFINE length == Length(i)
      <4>3. /\ length \in Nat /\ need = HeaderLen + (length + 1)
            /\ sent[i].end = At + HeaderLen + 1 + length
        BY <3>1, <4>1, <4>2
      <4> HIDE DEF length
      <4> QED BY <1>1, <1>3, <4>3
    <3>3. stream[sent[i].at + HeaderLen + 1] = StartCode
      BY <1>1, <2>2 DEF Framed
    <3>4. At + need + Lead \notin Magics
      BY <1>5, <1>6, <1>9, <2>2, <3>3 DEF Boundary
    <3>5. At + need + Peek <= Len(stream)
      BY <1>1, <1>3, Sizes
    <3> QED BY <3>2, <3>4, <3>5 DEF Refuted
  <2> QED BY <1>2, <2>1, <2>2, StartResyncKeepsInv
<1> QED BY <1>8, <1>9

\* One turn of _resync: what it cuts off begins no clear frame, and room for the chunk
\* is there already or is made by the magic that is skipped.
LEMMA RescanCuts ==
  ASSUME Inv, Find(buf) < Lead, NEW kept,
         kept = IF Find(buf) # -1 THEN Drop(buf, Find(buf) + Len(Magic)) ELSE Cut(buf)
  PROVE  \E n \in 0 .. Len(buf) :
           /\ WindowOf(kept, read) /\ Len(kept) = Len(buf) - n
           /\ \/ Len(kept) + Chunk <= Limit
              \/ \E q \in Magics : At <= q /\ q < At + n
           /\ \A i \in DOMAIN sent :
                sent[i].frame /\ Clear(i) /\ At <= sent[i].at => At + n <= sent[i].at
<1>1. /\ Segmented /\ Framed /\ WindowOf(buf, read) /\ stream \in Seq(Int)
      /\ Len(buf) \in Nat /\ read \in Nat /\ At \in Nat /\ At = read - Len(buf)
      /\ Limit \in Nat /\ Limit >= Room + Chunk
  BY State
<1>2. CASE /\ Find(buf) \in 0 .. Len(buf) - 2
           /\ At + Find(buf) \in Magics
  <2> DEFINE n == Find(buf) + 2
             q == At + Find(buf)
  <2>1. n \in 0 .. Len(buf) /\ q \in Magics /\ At <= q /\ q < At + n
        /\ q < At + Lead /\ q \in Nat /\ q + 2 = At + n
    <3> DEFINE found == Find(buf)
    <3>1. /\ found \in 0 .. Len(buf) - 2 /\ found < Lead
          /\ n = found + 2 /\ q = At + found
      BY <1>2
    <3> HIDE DEF found, n, q
    <3>2. n \in 0 .. Len(buf) /\ At <= q /\ q < At + n
      BY <1>1, <3>1
    <3>3. q < At + Lead /\ q \in Nat /\ q + 2 = At + n
      BY <1>1, <3>1, Sizes
    <3>4. q \in Magics
      BY <1>2, <3>1 DEF found
    <3> QED BY <3>2, <3>3, <3>4
  <2>2. kept = Drop(buf, n)
    BY <1>2, Sizes
  <2> HIDE DEF n, q
  <2>3. WindowOf(kept, read) /\ Len(kept) = Len(buf) - n
    BY <1>1, <2>1, <2>2, DropWindow
  <2>4. ASSUME NEW i \in DOMAIN sent, sent[i].frame, Clear(i), At <= sent[i].at
        PROVE  At + n <= sent[i].at
    <3> DEFINE a == sent[i].at
    <3>1. a \in Nat /\ At <= a
      BY <1>1, <2>4, SegmentIs
    <3>2. q + 1 < a \/ a + Lead <= q
      BY <1>1, <2>1, <2>4, ClearIs
    <3> HIDE DEF a
    <3>3. At + n <= a
      BY <1>1, <2>1, <3>1, <3>2, Sizes
    <3> QED BY <3>3 DEF a
  <2> QED BY <2>1, <2>3, <2>4
<1>3. CASE /\ Find(buf) = -1
           /\ \A p \in Magics : At <= p => read < p + 2
  <2> DEFINE n == IF Len(buf) > KeptTail THEN Len(buf) - KeptTail ELSE 0
  <2>1. /\ n \in 0 .. Len(buf) /\ Len(buf) - n <= Lead + 1
        /\ n = 0 \/ At + n = read - (Lead + 1)
    <3>1. CASE Len(buf) > KeptTail
      BY <1>1, <3>1, Sizes
    <3>2. CASE ~(Len(buf) > KeptTail)
      BY <1>1, <3>2, Sizes
    <3> QED BY <3>1, <3>2
  <2>2. WindowOf(kept, read) /\ Len(kept) = Len(buf) - n
    <3>1. CASE Len(buf) > KeptTail
      BY <1>1, <1>3, <2>1, <3>1, DropWindow DEF Cut
    <3>2. CASE ~(Len(buf) > KeptTail)
      BY <1>1, <1>3, <3>2 DEF Cut
    <3> QED BY <3>1, <3>2
  <2> HIDE DEF n
  <2>3. Len(kept) + Chunk <= Limit
    BY <1>1, <2>1, <2>2, RoomIs, Sizes
  <2>4. ASSUME NEW i \in DOMAIN sent, sent[i].frame, At <= sent[i].at
        PROVE  At + n <= sent[i].at
    <3> DEFINE a == sent[i].at
    <3>1. a \in Nat /\ a + Lead \in Magics /\ At <= a
      BY <1>1, <2>4, FrameIsIn
    <3> HIDE DEF a
    <3>2. read < a + Lead + 2
      BY <1>1, <1>3, <3>1, Sizes
    <3>3. At + n <= a
      BY <1>1, <2>1, <3>1, <3>2, Sizes
    <3> QED BY <3>3 DEF a
  <2> QED BY <2>1, <2>2, <2>3, <2>4
<1> QED BY <1>2, <1>3, FindInBuf

LEMMA RescanKeepsInv ==
  ASSUME Inv, Rescan
  PROVE  Inv'
<1> DEFINE i == Find(buf)
           kept == IF i # -1 THEN Drop(buf, i + Len(Magic)) ELSE Cut(buf)
<1>1. /\ Segmented /\ Framed /\ WindowOf(buf, read) /\ stream \in Seq(Int)
      /\ Len(buf) \in Nat /\ read \in Nat /\ At \in Nat /\ At = read - Len(buf)
      /\ resyncs \in Nat /\ resyncs <= At /\ scanned \in Nat
      /\ Limit \in Nat /\ Len(buf) <= Limit /\ Len(stream) \in Nat
  BY State
<1>2. /\ pc = "resync" /\ i < Lead
      /\ scanned' = IF i # -1 THEN scanned ELSE scanned + Len(buf) - Len(kept)
      /\ UNCHANGED <<device, delivered>> /\ resyncs' = resyncs
      /\ \/ pc' = "closed" /\ buf' = kept /\ read' = read
         \/ Chunk <= Left /\ buf' = Received(kept, Chunk) /\ read' = read + Chunk /\ pc' = "resync"
  <2>1. Left \in Int /\ Chunk \in Int
    BY <1>1, Sizes DEF Left
  <2> QED BY <2>1 DEF Rescan
<1> HIDE DEF i, kept
<1>3. PICK n \in 0 .. Len(buf) :
        /\ WindowOf(kept, read) /\ Len(kept) = Len(buf) - n
        /\ \/ Len(kept) + Chunk <= Limit
           \/ \E q \in Magics : At <= q /\ q < At + n
        /\ \A j \in DOMAIN sent :
             sent[j].frame /\ Clear(j) /\ At <= sent[j].at => At + n <= sent[j].at
  BY <1>2, RescanCuts DEF i, kept
<1>4. /\ WindowOf(buf', read') /\ At' = At + n
      /\ Len(buf') \in Nat /\ Len(buf') <= Len(kept) + Chunk
  <2>1. CASE buf' = kept /\ read' = read
    BY <1>1, <1>3, <2>1, Sizes DEF At
  <2>2. CASE Chunk <= Left /\ buf' = Received(kept, Chunk) /\ read' = read + Chunk
    <3>1. /\ WindowOf(Received(kept, Chunk), read + Chunk)
          /\ Len(Received(kept, Chunk)) = Len(kept) + Chunk
      BY <1>1, <1>3, <2>2, Sizes, ReadWindow
    <3>2. WindowOf(buf', read') /\ Len(buf') = Len(kept) + Chunk
      BY <2>2, <3>1
    <3>3. At' = (read + Chunk) - (Len(buf) - n + Chunk)
      BY <1>3, <2>2, <3>2 DEF At
    <3>4. At' = At + n /\ Len(kept) + Chunk \in Nat
      BY <1>1, <1>3, <3>3, Sizes
    <3> QED BY <3>2, <3>4
  <2> QED BY <1>2, <2>1, <2>2
<1>5. /\ Segmented' /\ Framed' /\ Unforged' /\ Window' /\ Passed' /\ Behind' /\ NoSplice'
      /\ LeftBehind \subseteq LeftBehind' /\ Limit' \in Nat /\ Limit' >= Limit
  <2>1. At <= At'
    BY <1>1, <1>4
  <2>2. \A j \in DOMAIN sent :
          ~(sent[j].frame /\ Clear(j) /\ At <= sent[j].at /\ sent[j].at < At')
    <3>1. \A j \in DOMAIN sent : sent[j].at \in Nat
      BY <1>1, SegmentIs
    <3>2. At' \in Nat /\ At' = At + n
      BY <1>1, <1>4
    <3> QED BY <1>3, <3>1, <3>2
  <2> QED BY <1>2, <1>4, <2>1, <2>2, ParserMoves
<1>6. BufferBounded'
  <2>1. CASE Len(kept) + Chunk <= Limit
    BY <1>1, <1>3, <1>4, <1>5, <2>1, Sizes DEF BufferBounded
  <2>2. CASE \E q \in Magics : At <= q /\ q < At + n
    <3>1. PICK q \in Magics : At <= q /\ q < At + n
      BY <2>2
    <3>2. Magics' = Magics /\ stream' = stream /\ q \in Int
      BY <1>1, <1>2, StreamStays, MagicsIs DEF device
    <3>3. q \in LeftBehind' /\ q \notin LeftBehind
      BY <1>1, <1>4, <3>1, <3>2 DEF LeftBehind
    <3>4. Limit' >= Limit + Chunk
      BY <1>1, <1>5, <3>2, <3>3, LimitGrows
    <3> QED BY <1>1, <1>3, <1>4, <1>5, <3>4, Sizes DEF BufferBounded
  <2> QED BY <1>3, <2>1, <2>2
<1>7. AtHeader' /\ Counters'
  BY <1>1, <1>2, <1>3, <1>4 DEF AtHeader, Counters, PCs
<1> QED BY <1>5, <1>6, <1>7 DEF Inv

-----------------------------------------------------------------------------
(* What the device sends.                                                   *)

LEMMA BytesAre ==
  ASSUME NEW s \in Seq(Bytes)
  PROVE  s \in Seq(Int) /\ Len(s) \in Nat
<1>1. Bytes \subseteq Int
  BY DEF Bytes, Other, M1, M2, StartCode
<1> QED BY <1>1, SeqMonotonic, LenProperties

LEMMA JoinIs ==
  ASSUME NEW s \in Seq(Int), NEW t \in Seq(Int)
  PROVE  /\ s \o t \in Seq(Int) /\ Len(s) \in Nat /\ Len(t) \in Nat
         /\ Len(s \o t) = Len(s) + Len(t)
         /\ \A k \in 1 .. Len(s) : (s \o t)[k] = s[k]
         /\ \A k \in 1 .. Len(t) : (s \o t)[Len(s) + k] = t[k]
<1>1. Len(s) \in Nat /\ Len(t) \in Nat
  BY LenProperties
<1> DEFINE st == s \o t
<1>2. /\ st \in Seq(Int) /\ Len(st) = Len(s) + Len(t)
      /\ \A k \in 1 .. Len(s) + Len(t) : st[k] = IF k <= Len(s) THEN s[k] ELSE t[k - Len(s)]
  BY ConcatProperties
<1> HIDE DEF st
<1>3. ASSUME NEW k \in 1 .. Len(s)
      PROVE  st[k] = s[k]
  <2>1. k \in 1 .. Len(s) + Len(t) /\ k <= Len(s)
    BY <1>1
  <2> QED BY <1>2, <2>1
<1>4. ASSUME NEW k \in 1 .. Len(t)
      PROVE  st[Len(s) + k] = t[k]
  <2> DEFINE p == Len(s) + k
  <2>1. p \in 1 .. Len(s) + Len(t) /\ ~(p <= Len(s)) /\ p - Len(s) = k
    BY <1>1
  <2> HIDE DEF p
  <2>2. st[p] = t[k]
    BY <1>2, <2>1
  <2> QED BY <2>2 DEF p
<1> QED BY <1>1, <1>2, <1>3, <1>4 DEF st

\* What stands where in a frame.
LEMMA FrameIs ==
  ASSUME NEW l \in Leads, NEW b \in Bodies
  PROVE  /\ Frame(l, b) \in Seq(Int) /\ Len(b) \in Nat
         /\ Len(Frame(l, b)) = HeaderLen + 1 + Len(b)
         /\ Frame(l, b)[Lead + 1] = M1 /\ Frame(l, b)[Lead + 2] = M2
         /\ Frame(l, b)[HeaderLen] = Len(b) % LenMod
         /\ Frame(l, b)[HeaderLen + 1] = StartCode
<1>1. /\ l \in Seq(Int) /\ Len(l) = Lead /\ Lead \in Nat
      /\ b \in Seq(Int) /\ Len(b) \in Nat
  BY ContentAssumption, BytesAre, Sizes
<1> DEFINE n == Len(b) % LenMod
           told == <<n, StartCode>>
           lm == l \o Magic
           h == lm \o told
           f == h \o b
<1>2. n \in Int
  BY <1>1, ModIs
<1> HIDE DEF n
<1>3. /\ Magic \in Seq(Int) /\ Len(Magic) = 2 /\ Magic[1] = M1 /\ Magic[2] = M2
      /\ told \in Seq(Int) /\ Len(told) = 2 /\ told[1] = n /\ told[2] = StartCode
  BY <1>2 DEF Magic, M1, M2, StartCode
<1> HIDE DEF told
<1>4. /\ lm \in Seq(Int) /\ Len(lm) = Lead + 2
      /\ \A k \in 1 .. 2 : lm[Lead + k] = Magic[k]
  <2>1. /\ lm \in Seq(Int) /\ Len(lm) = Len(l) + Len(Magic)
        /\ \A k \in 1 .. Len(Magic) : lm[Len(l) + k] = Magic[k]
    BY <1>1, <1>3, JoinIs
  <2> HIDE DEF lm
  <2> QED BY <1>1, <1>3, <2>1
<1> HIDE DEF lm
<1>5. /\ h \in Seq(Int) /\ Len(h) = Lead + 4
      /\ \A k \in 1 .. Lead + 2 : h[k] = lm[k]
      /\ \A k \in 1 .. 2 : h[(Lead + 2) + k] = told[k]
  <2>1. /\ h \in Seq(Int) /\ Len(h) = Len(lm) + Len(told)
        /\ \A k \in 1 .. Len(lm) : h[k] = lm[k]
        /\ \A k \in 1 .. Len(told) : h[Len(lm) + k] = told[k]
    BY <1>3, <1>4, JoinIs
  <2> HIDE DEF h
  <2> QED BY <1>1, <1>3, <1>4, <2>1
<1> HIDE DEF h
<1>6. /\ f \in Seq(Int) /\ Len(f) = Lead + 4 + Len(b)
      /\ \A k \in 1 .. Lead + 4 : f[k] = h[k]
  <2>1. /\ f \in Seq(Int) /\ Len(f) = Len(h) + Len(b)
        /\ \A k \in 1 .. Len(h) : f[k] = h[k]
    BY <1>1, <1>5, JoinIs
  <2> HIDE DEF f
  <2> QED BY <1>1, <1>5, <2>1
<1> HIDE DEF f
<1>7. Frame(l, b) = f
  BY DEF Frame, f, h, lm, told, n
<1>8. lm[Lead + 1] = M1 /\ lm[Lead + 2] = M2
  BY <1>3, <1>4
<1>9. h[(Lead + 2) + 1] = n /\ h[(Lead + 2) + 2] = StartCode
  BY <1>3, <1>5
<1>10. f[Lead + 1] = h[Lead + 1] /\ f[Lead + 2] = h[Lead + 2]
       /\ f[(Lead + 2) + 1] = h[(Lead + 2) + 1] /\ f[(Lead + 2) + 2] = h[(Lead + 2) + 2]
  <2>1. {Lead + 1, Lead + 2, (Lead + 2) + 1, (Lead + 2) + 2} \subseteq 1 .. Lead + 4
    BY <1>1
  <2> QED BY <1>6, <2>1
<1>11. h[Lead + 1] = lm[Lead + 1] /\ h[Lead + 2] = lm[Lead + 2]
  <2>1. {Lead + 1, Lead + 2} \subseteq 1 .. Lead + 2
    BY <1>1
  <2> QED BY <1>5, <2>1
<1>12. HeaderLen = (Lead + 2) + 1 /\ HeaderLen + 1 = (Lead + 2) + 2
       /\ HeaderLen + 1 + Len(b) = Lead + 4 + Len(b)
  BY <1>1, Sizes
<1> QED BY <1>1, <1>6, <1>7, <1>8, <1>9, <1>10, <1>11, <1>12 DEF n

\* A segment is never empty, and a frame's is that of an access unit.
LEMMA SegmentsAre ==
  ASSUME NEW s \in Segments
  PROVE  /\ s.bytes \in Seq(Int) /\ Len(s.bytes) \in Nat /\ Len(s.bytes) > 0
         /\ s.frame \in BOOLEAN
         /\ s.frame => \E l \in Leads, b \in Bodies : s.bytes = Frame(l, b)
<1>1. CASE \E l \in Leads, b \in Bodies : s = [frame |-> TRUE, bytes |-> Frame(l, b)]
  <2>1. PICK l \in Leads, b \in Bodies : s = [frame |-> TRUE, bytes |-> Frame(l, b)]
    BY <1>1
  <2>2. s.bytes = Frame(l, b) /\ s.frame = TRUE
    BY <2>1
  <2>3. Frame(l, b) \in Seq(Int) /\ Len(Frame(l, b)) \in Nat /\ Len(Frame(l, b)) > 0
    <3>1. Frame(l, b) \in Seq(Int) /\ Len(b) \in Nat
          /\ Len(Frame(l, b)) = HeaderLen + 1 + Len(b)
      BY FrameIs
    <3> QED BY <3>1, Sizes
  <2> QED BY <2>2, <2>3
<1>2. CASE \E g \in Garbage : s = [frame |-> FALSE, bytes |-> g]
  <2>1. PICK g \in Garbage : s = [frame |-> FALSE, bytes |-> g]
    BY <1>2
  <2>2. g \in Seq(Bytes) /\ g # <<>> /\ s.bytes = g /\ s.frame = FALSE
    BY <2>1, ContentAssumption
  <2>3. g \in Seq(Int) /\ Len(g) \in Nat /\ Len(g) > 0
    <3>1. Len(g) \in Nat \ {0}
      BY <2>2, EmptySeq
    <3> QED BY <2>2, <3>1, BytesAre
  <2> QED BY <2>2, <2>3
<1> QED BY <1>1, <1>2 DEF Segments

\* A segment's bytes behind the others.
LEMMA Sending ==
  ASSUME Inv, DeviceSends
  PROVE  \E b \in Seq(Int), f \in BOOLEAN :
           /\ Len(b) \in Nat /\ Len(b) > 0
           /\ f => \E l \in Leads, c \in Bodies : b = Frame(l, c)
           /\ stream' \in Seq(Int) /\ Len(stream') = Len(stream) + Len(b)
           /\ \A k \in 1 .. Len(stream) : stream'[k] = stream[k]
           /\ \A k \in 1 .. Len(b) : stream'[Len(stream) + k] = b[k]
           /\ sent' \in Seq([frame : BOOLEAN, at : Nat, end : Nat])
           /\ Len(sent') = Len(sent) + 1
           /\ \A i \in 1 .. Len(sent) : sent'[i] = sent[i]
           /\ sent'[Len(sent) + 1] = [frame |-> f, at |-> Len(stream),
                                      end |-> Len(stream) + Len(b)]
<1>1. PICK s \in Segments :
        /\ stream' = stream \o s.bytes
        /\ sent' = Append(sent, [frame |-> s.frame, at |-> Len(stream),
                                 end |-> Len(stream) + Len(s.bytes)])
  BY DEF DeviceSends
<1> DEFINE b == s.bytes
           f == s.frame
           new == [frame |-> f, at |-> Len(stream), end |-> Len(stream) + Len(b)]
<1>2. /\ b \in Seq(Int) /\ Len(b) \in Nat /\ Len(b) > 0 /\ f \in BOOLEAN
      /\ f => \E l \in Leads, c \in Bodies : b = Frame(l, c)
  BY SegmentsAre
<1>3. stream' = stream \o b /\ sent' = Append(sent, new)
  BY <1>1
<1> HIDE DEF b, f
<1>4. /\ stream \in Seq(Int) /\ Len(stream) \in Nat /\ Len(sent) \in Nat
      /\ sent \in Seq([frame : BOOLEAN, at : Nat, end : Nat])
  BY State, LenProperties DEF Segmented
<1>5. /\ stream' \in Seq(Int) /\ Len(stream') = Len(stream) + Len(b)
      /\ \A k \in 1 .. Len(stream) : stream'[k] = stream[k]
      /\ \A k \in 1 .. Len(b) : stream'[Len(stream) + k] = b[k]
  BY <1>2, <1>3, <1>4, JoinIs
<1>6. new \in [frame : BOOLEAN, at : Nat, end : Nat]
  BY <1>2, <1>4
<1> HIDE DEF new
<1>7. /\ sent' \in Seq([frame : BOOLEAN, at : Nat, end : Nat])
      /\ Len(sent') = Len(sent) + 1 /\ sent'[Len(sent) + 1] = new
      /\ \A i \in 1 .. Len(sent) : sent'[i] = sent[i]
  BY <1>3, <1>4, <1>6, AppendProperties
<1> QED BY <1>2, <1>5, <1>7 DEF new

\* What is known of the bytes and frames that are there stays so.
LEMMA SendingKeeps ==
  ASSUME Inv, DeviceSends
  PROVE  /\ Magics \subseteq Magics'
         /\ \A p \in Magics' : p + 2 <= Len(stream) => p \in Magics
         /\ At' = At
         /\ \A i \in 1 .. Len(sent) :
              /\ sent'[i] = sent[i]
              /\ AccessUnit(i)' = AccessUnit(i) /\ Length(i)' = Length(i)
              /\ sent[i].frame => (Clear(i)' <=> Clear(i))
              /\ Refuted(i) => Refuted(i)'
              /\ Sound(i) => Sound(i)'
<1> DEFINE L == Len(stream)
<1>1. PICK b \in Seq(Int), f \in BOOLEAN :
        /\ Len(b) \in Nat /\ Len(b) > 0
        /\ f => \E l \in Leads, c \in Bodies : b = Frame(l, c)
        /\ stream' \in Seq(Int) /\ Len(stream') = Len(stream) + Len(b)
        /\ \A k \in 1 .. Len(stream) : stream'[k] = stream[k]
        /\ \A k \in 1 .. Len(b) : stream'[Len(stream) + k] = b[k]
        /\ sent' \in Seq([frame : BOOLEAN, at : Nat, end : Nat])
        /\ Len(sent') = Len(sent) + 1
        /\ \A i \in 1 .. Len(sent) : sent'[i] = sent[i]
        /\ sent'[Len(sent) + 1] = [frame |-> f, at |-> Len(stream),
                                   end |-> Len(stream) + Len(b)]
  BY Sending
<1>2. /\ Segmented /\ Framed /\ stream \in Seq(Int) /\ L \in Nat /\ At' = At
      /\ UNCHANGED <<read, buf>>
  BY State DEF DeviceSends, At
<1>3. ASSUME NEW p \in Nat, p + 2 <= L
      PROVE  p \in Magics' <=> p \in Magics
  <2>1. p \in 0 .. L - 2 /\ p \in 0 .. Len(stream') - 2
    BY <1>1, <1>2, <1>3
  <2>2. p \in Magics' <=> MagicAt(stream', p)
    BY <2>1, Sizes DEF Magics
  <2>3. MagicAt(stream', p) <=> stream'[p + 1] = M1 /\ stream'[p + 2] = M2
    <3>1. p + 2 <= Len(stream')
      BY <1>1, <1>2, <1>3
    <3> QED BY <1>1, <3>1, MagicIs
  <2>4. p \in Magics <=> stream[p + 1] = M1 /\ stream[p + 2] = M2
    BY <1>2, <2>1, MagicsIs
  <2>5. p + 1 \in 1 .. L /\ p + 2 \in 1 .. L
    BY <1>2, <1>3
  <2>6. stream'[p + 1] = stream[p + 1] /\ stream'[p + 2] = stream[p + 2]
    BY <1>1, <2>5
  <2> QED BY <2>2, <2>3, <2>4, <2>6
<1>4. Magics \subseteq Magics'
  <2>1. ASSUME NEW p \in Magics
        PROVE  p \in Nat /\ p + 2 <= L
    BY <1>2, MagicsIs
  <2> QED BY <1>3, <2>1
<1>5. ASSUME NEW p \in Magics', p + 2 <= L
      PROVE  p \in Magics
  <2>1. p \in Nat
    BY <1>1, <1>2, Sizes DEF Magics
  <2> QED BY <1>3, <1>5, <2>1
<1>6. ASSUME NEW i \in 1 .. Len(sent)
      PROVE  /\ sent'[i] = sent[i]
             /\ AccessUnit(i)' = AccessUnit(i) /\ Length(i)' = Length(i)
             /\ sent[i].frame => (Clear(i)' <=> Clear(i))
             /\ Refuted(i) => Refuted(i)'
             /\ Sound(i) => Sound(i)'
  <2>1. sent'[i] = sent[i] /\ i \in DOMAIN sent
    BY <1>1, <1>2, LenProperties DEF Segmented
  <2>2. AccessUnit(i)' = AccessUnit(i) /\ Length(i)' = Length(i)
    BY <2>1 DEF AccessUnit, Length
  <2>3. Sound(i) => Sound(i)'
    BY <1>4, <2>1, <2>2 DEF Sound
  <2>4. Refuted(i) => Refuted(i)'
    <3> SUFFICES ASSUME Refuted(i)
                 PROVE  Refuted(i)'
      OBVIOUS
    <3> DEFINE e == sent[i].end
    <3>1. e \in Nat /\ e + Peek <= L /\ e + Lead \notin Magics
      BY <1>2, <2>1, SegmentIs DEF Refuted
    <3>2. e = sent'[i].end
      BY <2>1
    <3> HIDE DEF e
    <3>3. (e + Lead) + 2 <= L /\ e + Peek <= Len(stream')
      BY <1>1, <1>2, <3>1, Sizes
    <3>4. e + Lead \notin Magics'
      BY <1>5, <3>1, <3>3
    <3> QED BY <3>2, <3>3, <3>4 DEF Refuted
  <2>5. ASSUME sent[i].frame
        PROVE  Clear(i)' <=> Clear(i)
    <3> DEFINE a == sent[i].at
    <3>1. a \in Nat /\ a + Lead \in Magics
      BY <1>2, <2>1, <2>5, FrameIsIn
    <3>2. a = sent'[i].at
      BY <2>1
    <3> HIDE DEF a
    <3>3. a + Lead + 2 <= L
      BY <1>2, <3>1, MagicsIs, Sizes
    <3>4. ASSUME NEW p \in a - 2 + 1 .. a + Lead - 1
          PROVE  p \in Magics' <=> p \in Magics
      <4>1. p \in Int /\ p + 2 <= L
        BY <1>2, <3>1, <3>3, Sizes
      <4> QED BY <1>4, <1>5, <4>1
    <3>5. Clear(i) <=> \A p \in a - 2 + 1 .. a + Lead - 1 : p \notin Magics
      BY Sizes DEF Clear, a
    <3>6. Clear(i)' <=> \A p \in a - 2 + 1 .. a + Lead - 1 : p \notin Magics'
      BY <3>2, Sizes DEF Clear
    <3> QED BY <3>4, <3>5, <3>6
  <2> QED BY <2>1, <2>2, <2>3, <2>4, <2>5
<1> QED BY <1>2, <1>4, <1>5, <1>6

\* What is sent goes behind everything that is known of the buffer.
LEMMA DeviceSendsKeepsInv ==
  ASSUME Inv, DeviceSends
  PROVE  Inv'
<1> DEFINE L == Len(stream)
           M == Len(sent)
<1>1. PICK b \in Seq(Int), f \in BOOLEAN :
        /\ Len(b) \in Nat /\ Len(b) > 0
        /\ f => \E l \in Leads, c \in Bodies : b = Frame(l, c)
        /\ stream' \in Seq(Int) /\ Len(stream') = L + Len(b)
        /\ \A k \in 1 .. L : stream'[k] = stream[k]
        /\ \A k \in 1 .. Len(b) : stream'[L + k] = b[k]
        /\ sent' \in Seq([frame : BOOLEAN, at : Nat, end : Nat])
        /\ Len(sent') = M + 1
        /\ \A i \in 1 .. M : sent'[i] = sent[i]
        /\ sent'[M + 1] = [frame |-> f, at |-> L, end |-> L + Len(b)]
  BY Sending
<1>2. /\ Segmented /\ Framed /\ WindowOf(buf, read) /\ stream \in Seq(Int)
      /\ sent \in Seq([frame : BOOLEAN, at : Nat, end : Nat])
      /\ Len(buf) \in Nat /\ read \in Nat /\ At \in Nat /\ At = read - Len(buf)
      /\ L \in Nat /\ read <= L /\ M \in Nat /\ DOMAIN sent = 1 .. M
      /\ DOMAIN sent' = 1 .. M + 1
  BY <1>1, State, LenProperties DEF Segmented
<1> HIDE DEF L, M
<1>3. M \in Nat /\ L \in Nat /\ Len(b) \in Nat /\ Len(b) > 0
  BY <1>1, <1>2
<1>4. /\ \A i \in 1 .. M : /\ sent'[i].frame = sent[i].frame
                          /\ sent'[i].at = sent[i].at /\ sent'[i].end = sent[i].end
                          /\ sent[i].at \in Nat /\ sent[i].end \in Nat
                          /\ sent[i].at < sent[i].end /\ sent[i].end <= L
      /\ sent'[M + 1].frame = f
      /\ sent'[M + 1].at = L /\ sent'[M + 1].end = L + Len(b)
  <2>1. \A i \in 1 .. M : /\ sent[i].at \in Nat /\ sent[i].end \in Nat
                          /\ sent[i].at < sent[i].end /\ sent[i].end <= L
    BY <1>2, SegmentIs DEF Segmented, L
  <2>2. /\ sent'[M + 1].frame = f
        /\ sent'[M + 1].at = L /\ sent'[M + 1].end = L + Len(b)
    BY <1>1
  <2>3. \A i \in 1 .. M : sent'[i] = sent[i]
    BY <1>1
  <2> QED BY <2>1, <2>2, <2>3
<1>5. \A i \in 1 .. M + 1 : i \in 1 .. M \/ i = M + 1
  BY <1>3
<1>6. Segmented'
  <2>1. ASSUME NEW i \in 1 .. M + 1
        PROVE  sent'[i].at < sent'[i].end /\ sent'[i].end <= L + Len(b)
    <3>1. CASE i \in 1 .. M
      BY <1>3, <1>4, <3>1
    <3>2. CASE i = M + 1
      BY <1>3, <1>4, <3>2
    <3> QED BY <1>5, <3>1, <3>2
  <2>2. ASSUME NEW i \in 1 .. M + 1, NEW j \in 1 .. M + 1, i < j
        PROVE  sent'[i].end <= sent'[j].at
    <3>1. i \in 1 .. M
      BY <1>3, <2>2
    <3>2. CASE j \in 1 .. M
      <4>1. sent[i].end <= sent[j].at
        BY <1>2, <2>2, <3>1, <3>2 DEF Segmented
      <4> QED BY <1>4, <3>1, <3>2, <4>1
    <3>3. CASE j = M + 1
      BY <1>4, <3>1, <3>3
    <3> QED BY <1>5, <3>2, <3>3
  <2>3. ASSUME NEW i \in 1 .. M + 1
        PROVE  sent'[i].end = IF i = M + 1 THEN L + Len(b) ELSE sent'[i + 1].at
    <3>1. CASE i \in 1 .. M
      <4>1. sent[i].end = IF i = M THEN L ELSE sent[i + 1].at
        BY <1>2, <3>1 DEF Segmented, L, M
      <4>2. CASE i = M
        BY <1>3, <1>4, <4>1, <4>2
      <4>3. CASE i # M
        <5>1. i + 1 \in 1 .. M /\ i # M + 1
          BY <1>3, <3>1, <4>3
        <5> QED BY <1>4, <3>1, <4>1, <4>3, <5>1
      <4> QED BY <4>2, <4>3
    <3>2. CASE i = M + 1
      BY <1>4, <3>2
    <3> QED BY <1>5, <3>1, <3>2
  <2> QED BY <1>1, <1>3, <2>1, <2>2, <2>3, LenProperties DEF Segmented, L, M
<1>7. /\ Magics \subseteq Magics' /\ At' = At
      /\ \A i \in 1 .. M :
           /\ AccessUnit(i)' = AccessUnit(i) /\ Length(i)' = Length(i)
           /\ sent[i].frame => (Clear(i)' <=> Clear(i))
           /\ Refuted(i) => Refuted(i)'
           /\ Sound(i) => Sound(i)'
  BY SendingKeeps DEF M
<1>8. /\ pc \notin {"connect", "closed"} /\ Unforged'
      /\ UNCHANGED <<read, buf, pc, scanned, resyncs, delivered>>
  BY DEF DeviceSends
<1>9. Framed'
  <2>1. ASSUME NEW i \in 1 .. M, sent[i].frame
        PROVE  /\ Length(i)' \in Nat
               /\ stream'[sent'[i].at + Lead + 1] = M1
               /\ stream'[sent'[i].at + Lead + 2] = M2
               /\ stream'[sent'[i].at + HeaderLen] = Length(i)' % LenMod
               /\ stream'[sent'[i].at + HeaderLen + 1] = StartCode
    <3>1. /\ Length(i) \in Nat
          /\ stream[sent[i].at + Lead + 1] = M1
          /\ stream[sent[i].at + Lead + 2] = M2
          /\ stream[sent[i].at + HeaderLen] = Length(i) % LenMod
          /\ stream[sent[i].at + HeaderLen + 1] = StartCode
      BY <1>2, <2>1 DEF Framed
    <3>2. {sent[i].at + Lead + 1, sent[i].at + Lead + 2, sent[i].at + HeaderLen,
           sent[i].at + HeaderLen + 1} \subseteq 1 .. L
      <4>1. sent[i].end = sent[i].at + HeaderLen + 1 + Length(i)
        BY <1>4, Sizes DEF Length
      <4>2. /\ sent[i].at \in Nat /\ sent[i].end <= L /\ L \in Nat
            /\ Length(i) \in Nat
        BY <1>3, <1>4, <3>1
      <4> DEFINE length == Length(i)
      <4> HIDE DEF length
      <4>3. /\ sent[i].at + Lead + 1 \in 1 .. L /\ sent[i].at + Lead + 2 \in 1 .. L
            /\ sent[i].at + HeaderLen \in 1 .. L /\ sent[i].at + HeaderLen + 1 \in 1 .. L
        <5> DEFINE a == sent[i].at
        <5>1. a \in Nat /\ a + HeaderLen + 1 + length <= L /\ length \in Nat
          BY <4>1, <4>2 DEF length
        <5> HIDE DEF a
        <5>2. a + Lead + 1 \in 1 .. L /\ a + Lead + 2 \in 1 .. L
          BY <1>3, <5>1, Sizes
        <5>3. a + HeaderLen \in 1 .. L /\ a + HeaderLen + 1 \in 1 .. L
          BY <1>3, <5>1, Sizes
        <5> QED BY <5>2, <5>3 DEF a
      <4> QED BY <4>3
    <3>3. Length(i)' = Length(i) /\ sent'[i].at = sent[i].at
      BY <1>4, <1>7
    <3>4. \A k \in {sent[i].at + Lead + 1, sent[i].at + Lead + 2, sent[i].at + HeaderLen,
                    sent[i].at + HeaderLen + 1} : stream'[k] = stream[k]
      BY <1>1, <3>2
    <3> QED BY <3>1, <3>3, <3>4, Zenon
  <2>2. ASSUME f, NEW i, i = M + 1
        PROVE  /\ Length(i)' \in Nat
               /\ stream'[L + Lead + 1] = M1 /\ stream'[L + Lead + 2] = M2
               /\ stream'[L + HeaderLen] = Length(i)' % LenMod
               /\ stream'[L + HeaderLen + 1] = StartCode
    <3>1. PICK l \in Leads, c \in Bodies : b = Frame(l, c)
      BY <1>1, <2>2
    <3> DEFINE n == Len(c)
    <3>2. n \in Nat /\ Len(b) = HeaderLen + 1 + n
      BY <3>1, FrameIs
    <3>3. Length(i)' = n
      <4>1. Length(i)' = L + Len(b) - L - HeaderLen - StartLen
        <5>1. sent'[i].at = L /\ sent'[i].end = L + Len(b)
          BY <1>4, <2>2
        <5> QED BY <1>3, <5>1, Sizes DEF Length
      <4> HIDE DEF n
      <4> QED BY <1>3, <3>2, <4>1, Sizes
    <3>4. /\ b[Lead + 1] = M1 /\ b[Lead + 2] = M2
          /\ b[HeaderLen] = n % LenMod /\ b[HeaderLen + 1] = StartCode
      BY <3>1, FrameIs
    <3> HIDE DEF n
    <3>5. {Lead + 1, Lead + 2, HeaderLen, HeaderLen + 1} \subseteq 1 .. Len(b)
      BY <3>2, Sizes
    <3>6. /\ stream'[L + (Lead + 1)] = M1 /\ stream'[L + (Lead + 2)] = M2
          /\ stream'[L + HeaderLen] = n % LenMod /\ stream'[L + (HeaderLen + 1)] = StartCode
      BY <1>1, <3>4, <3>5
    <3>7. /\ L + (Lead + 1) = L + Lead + 1 /\ L + (Lead + 2) = L + Lead + 2
          /\ L + (HeaderLen + 1) = L + HeaderLen + 1
      BY <1>3, Sizes
    <3> QED BY <3>2, <3>3, <3>6, <3>7
  <2>3. ASSUME NEW i \in 1 .. M + 1, sent'[i].frame
        PROVE  /\ Length(i)' \in Nat
               /\ stream'[sent'[i].at + Lead + 1] = M1
               /\ stream'[sent'[i].at + Lead + 2] = M2
               /\ stream'[sent'[i].at + HeaderLen] = Length(i)' % LenMod
               /\ stream'[sent'[i].at + HeaderLen + 1] = StartCode
    <3>1. CASE i \in 1 .. M
      BY <1>4, <2>1, <2>3, <3>1
    <3>2. CASE i = M + 1
      BY <1>4, <2>2, <2>3, <3>2
    <3> QED BY <1>5, <3>1, <3>2
  <2> QED BY <1>2, <2>3 DEF Framed
<1>10. Window'
  <2>1. ASSUME NEW k \in 1 .. Len(buf)
        PROVE  buf[k] = stream'[read - Len(buf) + k]
    <3>1. read - Len(buf) + k \in 1 .. L
      BY <1>2, <1>3
    <3> QED BY <1>1, <1>2, <3>1 DEF WindowOf
  <2>2. read \in 0 .. Len(stream') /\ buf \in Seq(Int) /\ Len(buf) <= read
    BY <1>1, <1>2, <1>3 DEF WindowOf
  <2> QED BY <1>8, <2>1, <2>2 DEF Window, WindowOf
<1>11. Counters' /\ AtHeader' /\ Behind'
  BY <1>7, <1>8 DEF Inv, Counters, AtHeader, Behind
<1>12. Passed'
  <2>1. SUFFICES ASSUME NEW i \in 1 .. M + 1, sent'[i].frame, sent'[i].at < At,
                        Length(i)' < LenMod, Clear(i)'
                 PROVE  AccessUnit(i)' \in delivered \/ Refuted(i)'
    BY <1>2, <1>7, <1>8 DEF Passed
  <2>2. i \in 1 .. M
    <3>1. i # M + 1
      BY <1>2, <1>3, <1>4, <2>1
    <3> QED BY <1>5, <3>1
  <2>3. i \in DOMAIN sent /\ sent[i].frame /\ sent[i].at < At /\ Length(i) < LenMod /\ Clear(i)
    BY <1>2, <1>4, <1>7, <2>1, <2>2
  <2>4. AccessUnit(i) \in delivered \/ Refuted(i)
    BY <2>3 DEF Inv, Passed
  <2> QED BY <1>7, <2>2, <2>4
<1>13. NoSplice'
  <2>1. ASSUME NEW d \in delivered
        PROVE  \E i \in 1 .. M + 1 : Sound(i)' /\ d = AccessUnit(i)'
    <3>1. PICK i \in 1 .. M : Sound(i) /\ d = AccessUnit(i)
      BY DEF Inv, NoSplice, M
    <3>2. i \in 1 .. M + 1 /\ Sound(i)' /\ AccessUnit(i)' = AccessUnit(i)
      BY <1>3, <1>7, <3>1
    <3> QED BY <3>1, <3>2
  <2> QED BY <1>1, <1>8, <2>1 DEF NoSplice
<1>14. BufferBounded'
  <2>1. LeftBehind \subseteq LeftBehind'
    BY <1>7 DEF LeftBehind
  <2>2. Limit' \in Nat /\ Limit' >= Limit
    BY <1>1, <1>2, <2>1, LimitGrows
  <2> QED BY <1>2, <1>8, <2>2, State DEF BufferBounded
<1> QED BY <1>6, <1>8, <1>9, <1>10, <1>11, <1>12, <1>13, <1>14 DEF Inv

-----------------------------------------------------------------------------
(* The theorems.                                                            *)

\* Nothing was sent, nothing read.
LEMMA InitInv == Init => Inv
<1> SUFFICES ASSUME Init
             PROVE  Inv
  OBVIOUS
<1>1. /\ stream = <<>> /\ sent = <<>> /\ read = 0 /\ buf = <<>> /\ pc = "connect"
      /\ scanned = 0 /\ resyncs = 0 /\ delivered = {}
  BY DEF Init
<1>2. Len(stream) = 0 /\ Len(sent) = 0 /\ Len(buf) = 0 /\ At = 0
  <2>1. Len(<<>>) = 0
    OBVIOUS
  <2>2. Len(stream) = 0 /\ Len(sent) = 0 /\ Len(buf) = 0
    BY <1>1, <2>1
  <2>3. read = 0
    BY <1>1
  <2> QED BY <2>2, <2>3 DEF At
<1>3. stream \in Seq(Int) /\ buf \in Seq(Int)
      /\ sent \in Seq([frame : BOOLEAN, at : Nat, end : Nat])
  BY <1>1
<1>4. Segmented /\ Framed /\ Window
  BY <1>1, <1>2, <1>3 DEF Segmented, Framed, Window, WindowOf
<1>5. Counters /\ AtHeader /\ Passed /\ Behind /\ NoSplice
  BY <1>1, <1>2 DEF Counters, PCs, AtHeader, Passed, Behind, NoSplice
<1>6. BufferBounded
  BY <1>1, <1>2, <1>3, LimitIs, RoomIs, Sizes DEF BufferBounded
<1>7. Unforged
  <2>1. Magics = {}
    <3>1. Magics \subseteq 0 .. 0 - 2 /\ ~ \E p \in 0 .. 0 - 2 : TRUE
      BY <1>2, <1>3, MagicsIs
    <3> QED BY <3>1
  <2> QED BY <2>1 DEF Unforged, FalseMagics
<1> QED BY <1>4, <1>5, <1>6, <1>7 DEF Inv

\* One lemma per action.
LEMMA NextKeepsInv == Inv /\ [Next]_vars => Inv'
<1> SUFFICES ASSUME Inv, [Next]_vars
             PROVE  Inv'
  OBVIOUS
<1>1. CASE Connect
  BY <1>1, ConnectKeepsInv
<1>2. CASE DeviceSends
  BY <1>2, DeviceSendsKeepsInv
<1>3. CASE PreambleEnds
  BY <1>3, PreambleEndsKeepsInv
<1>4. CASE PreambleRead
  BY <1>4, PreambleReadKeepsInv
<1>5. CASE Fill
  BY <1>5, FillKeepsInv
<1>6. CASE ParseHeader
  BY <1>6, ParseHeaderKeepsInv
<1>7. CASE Deliver
  BY <1>7, DeliverKeepsInv
<1>8. CASE Resume
  BY <1>8, ResumeKeepsInv
<1>9. CASE Resynced
  BY <1>9, ResyncedKeepsInv
<1>10. CASE Rescan
  BY <1>10, RescanKeepsInv
<1>11. CASE Abandoned
  BY <1>11, CloseKeepsInv DEF Abandoned
<1>12. CASE UNCHANGED vars
  <2>1. UNCHANGED <<device, read, buf, scanned, resyncs, delivered, pc>>
    BY <1>12 DEF vars
  <2>2. Magics' = Magics /\ At' = At
    BY <2>1, StreamStays DEF At
  <2>3. AtHeader' /\ pc' \in PCs
    BY <2>1, <2>2 DEF device, Inv, Counters, AtHeader
  <2> QED BY <2>1, <2>3, PcMoves
<1> QED BY <1>1, <1>2, <1>3, <1>4, <1>5, <1>6, <1>7, <1>8, <1>9, <1>10, <1>11, <1>12 DEF Next

\* Whatever the device sends and however its bytes are split over reads, the
\* parser stays where the invariant has it.
THEOREM Invariant == Spec => []Inv
BY InitInv, NextKeepsInv, PTL DEF Spec

\* What the properties ask is part of the invariant or follows from it.
LEMMA InvImplies == Inv => TypeOK /\ SoundKept /\ HeaderUnderMagic
<1> SUFFICES ASSUME Inv
             PROVE  TypeOK /\ SoundKept /\ HeaderUnderMagic
  OBVIOUS
<1>1. /\ Segmented /\ Framed /\ At \in Nat /\ resyncs \in Nat /\ scanned \in Nat
      /\ Len(buf) \in Nat /\ read \in Nat /\ Len(stream) \in Nat /\ At = read - Len(buf)
      /\ read <= Len(stream)
  BY State
<1>2. ASSUME NEW d \in delivered
      PROVE  d.at \in 1 .. Len(stream) /\ d.len \in 1 .. LenMod
  <2>1. PICK i \in 1 .. Len(sent) : Sound(i) /\ d = AccessUnit(i)
    BY <1>2 DEF Inv, NoSplice
  <2>2. i \in DOMAIN sent
    BY <1>1, <2>1, LenProperties DEF Segmented
  <2>3. sent[i].at \in Nat /\ sent[i].end \in Nat /\ sent[i].end <= Len(stream)
    BY <1>1, <2>2, SegmentIs DEF Segmented
  <2>4. Length(i) \in Nat /\ d.at = sent[i].at + HeaderLen
        /\ d.len = sent[i].end - sent[i].at - HeaderLen /\ Length(i) < LenMod
    BY <1>1, <2>1, <2>2 DEF Framed, Sound, AccessUnit
  <2>5. sent[i].end = sent[i].at + HeaderLen + 1 + Length(i)
    BY <2>3, Sizes DEF Length
  <2>6. d.at \in 1 .. Len(stream)
    <3> DEFINE a == sent[i].at
               length == Length(i)
    <3>1. /\ a \in Nat /\ length \in Nat /\ d.at = a + HeaderLen
          /\ a + HeaderLen + 1 + length <= Len(stream)
      BY <2>3, <2>4, <2>5
    <3> HIDE DEF a, length
    <3> QED BY <1>1, <3>1, Sizes
  <2>7. d.len = Length(i) + 1
    BY <2>3, <2>4, <2>5, Sizes
  <2> QED BY <2>4, <2>6, <2>7, Sizes
<1>3. TypeOK
  <2>1. Len(buf) <= read /\ read \in 0 .. Len(stream)
    BY <1>1
  <2>2. resyncs \in 0 .. At
    BY <1>1, State
  <2> QED BY <1>1, <1>2, <2>1, <2>2 DEF TypeOK, Inv, Counters
<1>4. SoundKept
  <2>1. SUFFICES ASSUME NEW i \in 1 .. Len(sent), Sound(i), Clear(i), sent[i].at < At
                 PROVE  AccessUnit(i) \in delivered
    BY DEF SoundKept
  <2>2. i \in DOMAIN sent
    BY <1>1, LenProperties DEF Segmented
  <2>3. sent[i].frame /\ Length(i) < LenMod /\ ~Refuted(i)
    BY <2>1 DEF Sound, Refuted
  <2> QED BY <2>1, <2>2, <2>3 DEF Inv, Passed
<1>5. HeaderUnderMagic
  <2>1. SUFFICES ASSUME pc = "header", Len(buf) >= Peek
                 PROVE  HeaderOK
    BY DEF HeaderUnderMagic
  <2> QED BY <2>1, HeaderInBuf
<1> QED BY <1>3, <1>4, <1>5

\* Every position and length is in its range: nothing is cut from behind the
\* buffer's end, and every resync has left a byte behind.
THEOREM ParserTyped == Spec => []TypeOK
BY Invariant, InvImplies, PTL

\* frames() yields whole access units only, never the end of one and the
\* beginning of the next, and nothing cut at a false magic: without a forged frame
\* a length that wrapped or was never one does not pass Boundary.
THEOREM NothingSpliced == Spec => []NoSplice
<1>1. Inv => NoSplice
  BY DEF Inv
<1> QED BY <1>1, Invariant, PTL

\* frames() and _resync pass no sound frame without yielding it, wherever else magics
\* stand, unless one stands in the frame's lead or runs into it (netdvr3.py 209-212).
THEOREM SoundFramesKept == Spec => []SoundKept
BY Invariant, InvImplies, PTL

\* Whoever enters the frame loop (preamble, resync, the last frame) leaves a header
\* that parse_frame_header accepts at the front of the buffer.
THEOREM HeadersUnderMagic == Spec => []HeaderUnderMagic
BY Invariant, InvImplies, PTL

\* The buffer holds no more than the preamble or one frame needs, and one chunk
\* for each magic that the parser has left behind.
THEOREM BufferStaysBounded == Spec => []BufferBounded
<1>1. Inv => BufferBounded
  BY DEF Inv
<1> QED BY <1>1, Invariant, PTL

\* A payload begins behind where the parser stands, and the earlier ones before it.
LEMMA YieldsBehind ==
  ASSUME Inv, [Next]_vars, pc = "body", pc' = "yield"
  PROVE  \E d \in delivered' : \A e \in delivered : e.at < d.at
<1>1. delivered' = delivered \cup {[at |-> At + HeaderLen, len |-> PayloadLen]}
  BY DEF Next, vars, Connect, DeviceSends, PreambleEnds, PreambleRead, Fill, Read, ReadFails,
         Close, ParseHeader, StartResync, Deliver, Resume, Resynced, Rescan, Abandoned
<1> DEFINE d == [at |-> At + HeaderLen, len |-> PayloadLen]
<1>2. d \in delivered' /\ d.at = At + HeaderLen
  BY <1>1
<1>3. At \in Nat /\ \A e \in delivered : e.at \in Nat /\ e.at < At
  BY State DEF Inv, Behind
<1> HIDE DEF d
<1> QED BY <1>2, <1>3, Sizes

\* Frames are yielded in the order they were sent, none twice.
THEOREM InOrder == Spec => YieldedInOrder
<1>1. Inv /\ [Next]_vars =>
        [pc = "body" /\ pc' = "yield" =>
           \E d \in delivered' : \A e \in delivered : e.at < d.at]_vars
  BY YieldsBehind
<1> QED BY <1>1, Invariant, PTL DEF Spec, YieldedInOrder

-----------------------------------------------------------------------------
(* The generator is a FrameSource: a unit's number is its place in sent.     *)

Hidden == {i \in Whole : ~Clear(i)}
Yielded == {i \in Whole : AccessUnit(i) \in delivered}
SentBounded == Len(sent) <= MaxSegments
Stage == CASE pc = "yield" -> "handed" [] pc = "closed" -> "ended" [] OTHER -> "fetching"

LEMMA SourceStutters ==
  ASSUME UNCHANGED <<sent, delivered>>, UNCHANGED stream \/ sent = <<>>
  PROVE  /\ Whole' = Whole /\ Hidden' = Hidden /\ Yielded' = Yielded
         /\ Stage' = Stage => UNCHANGED Source!sourceVars
<1>1. Whole' = Whole /\ Hidden' = Hidden /\ Yielded' = Yielded
  <2>1. CASE UNCHANGED stream
    <3>1. UNCHANGED device
      BY <2>1 DEF device
    <3>2. \A i : Sound(i)' = Sound(i) /\ Clear(i)' = Clear(i) /\ AccessUnit(i)' = AccessUnit(i)
      BY <3>1, StreamStays
    <3> QED BY <3>2 DEF Whole, Hidden, Yielded
  <2>2. CASE sent = <<>>
    <3>1. Len(sent) = 0 /\ sent' = <<>> /\ Len(sent') = 0
      BY <2>2, EmptySeq
    <3>2. Whole = {} /\ Whole' = {}
      BY <3>1 DEF Whole
    <3> QED BY <3>2 DEF Hidden, Yielded
  <2> QED BY <2>1, <2>2
<1> QED BY <1>1 DEF Source!sourceVars, Hidden, Yielded, Stage

LEMMA SoundIs ==
  ASSUME Inv, NEW i \in Whole
  PROVE  /\ i \in DOMAIN sent /\ i \in 1 .. Len(sent) /\ Len(sent) \in Nat
         /\ sent[i].frame /\ sent[i].at \in Nat
         /\ Length(i) < LenMod /\ ~Refuted(i) /\ AccessUnit(i).at = sent[i].at + HeaderLen
<1>1. Segmented /\ i \in 1 .. Len(sent) /\ Sound(i) /\ Len(sent) \in Nat
  BY State, LenProperties DEF Whole, Segmented
<1>2. i \in DOMAIN sent
  BY <1>1, LenProperties DEF Segmented
<1> QED BY <1>1, <1>2, SegmentIs DEF Sound, Refuted, AccessUnit

\* No two frames have the same access unit.
LEMMA UnitsDiffer ==
  ASSUME Inv, NEW i \in DOMAIN sent, NEW j \in DOMAIN sent, AccessUnit(i) = AccessUnit(j)
  PROVE  i = j
<1>1. Segmented /\ sent[i].at \in Nat /\ sent[j].at \in Nat
  BY State, SegmentIs
<1>2. sent[i].at + HeaderLen = sent[j].at + HeaderLen
  BY DEF AccessUnit
<1>3. sent[i].at = sent[j].at
  BY <1>1, <1>2, Sizes
<1> QED BY <1>1, <1>3, Apart

\* What the device sends may make one frame sound, the last of those that are there:
\* the magic behind it has only now come to its end.
LEMMA SoundBySending ==
  ASSUME Inv, DeviceSends, NEW i \in Whole', i \notin Whole
  PROVE  /\ i \in 1 .. Len(sent) /\ AccessUnit(i) \notin delivered
         /\ \A j \in DOMAIN sent : sent[j].frame => j <= i
<1>1. /\ Segmented /\ Framed /\ stream \in Seq(Int) /\ Len(stream) \in Nat
      /\ Len(sent) \in Nat /\ DOMAIN sent = 1 .. Len(sent)
  BY State, LenProperties DEF Segmented
<1>2. /\ \A p \in Magics' : p + 2 <= Len(stream) => p \in Magics
      /\ \A k \in 1 .. Len(sent) : sent'[k] = sent[k] /\ Length(k)' = Length(k)
  BY SendingKeeps
<1>3. PICK b \in Seq(Int), f \in BOOLEAN :
        /\ Len(b) \in Nat /\ Len(b) > 0
        /\ f => \E l \in Leads, c \in Bodies : b = Frame(l, c)
        /\ stream' \in Seq(Int) /\ Len(stream') = Len(stream) + Len(b)
        /\ \A k \in 1 .. Len(stream) : stream'[k] = stream[k]
        /\ \A k \in 1 .. Len(b) : stream'[Len(stream) + k] = b[k]
        /\ sent' \in Seq([frame : BOOLEAN, at : Nat, end : Nat])
        /\ Len(sent') = Len(sent) + 1
        /\ \A k \in 1 .. Len(sent) : sent'[k] = sent[k]
        /\ sent'[Len(sent) + 1] = [frame |-> f, at |-> Len(stream),
                                   end |-> Len(stream) + Len(b)]
  BY Sending
<1>4. i \in 1 .. Len(sent) + 1 /\ Sound(i)'
  BY <1>3 DEF Whole
<1>5. i # Len(sent) + 1
  <2> SUFFICES ASSUME i = Len(sent) + 1
               PROVE  FALSE
    OBVIOUS
  <2>1. sent'[i].end = Len(stream')
    BY <1>3
  <2>2. Len(stream') + Lead \in Magics' /\ Len(stream') \in Nat
    BY <1>1, <1>3, <1>4, <2>1 DEF Sound
  <2>3. Len(stream') + Lead <= Len(stream') - 2
    BY <2>2, Sizes DEF Magics
  <2> QED BY <2>2, <2>3, Sizes
<1>6. i \in 1 .. Len(sent) /\ i \in DOMAIN sent
  BY <1>1, <1>4, <1>5
<1> DEFINE e == sent[i].end
<1>7. sent[i].frame /\ e \in Nat /\ e + Peek > Len(stream)
  <2>1. sent'[i] = sent[i] /\ Length(i)' = Length(i)
    BY <1>2, <1>6
  <2>2. sent[i].frame /\ Length(i) < LenMod /\ e + Lead \in Magics'
    BY <1>4, <2>1 DEF Sound
  <2>3. ~Sound(i)
    BY <1>6 DEF Whole
  <2>4. e + Lead \notin Magics
    BY <2>2, <2>3 DEF Sound
  <2>5. e \in Nat
    BY <1>1, <1>6, SegmentIs
  <2> HIDE DEF e
  <2>6. ~((e + Lead) + 2 <= Len(stream))
    BY <1>2, <2>2, <2>4
  <2> QED BY <1>1, <2>2, <2>5, <2>6, Sizes
<1>8. ASSUME NEW j \in DOMAIN sent, sent[j].frame
      PROVE  j <= i
  <2> SUFFICES ASSUME ~(j <= i)
               PROVE  FALSE
    OBVIOUS
  <2>1. i \in Int /\ j \in Int /\ i < j
    BY <1>1, <1>6
  <2>2. e <= sent[j].at
    BY <1>1, <1>6, <2>1 DEF Segmented
  <2> DEFINE a == sent[j].at
  <2>3. a \in Nat /\ a + Lead \in Magics
    BY <1>1, <1>8, FrameIsIn
  <2>4. a + Lead + 2 <= Len(stream)
    BY <1>1, <2>3, MagicsIs, Sizes
  <2> HIDE DEF e, a
  <2>5. e <= a
    BY <2>2 DEF a
  <2> QED BY <1>1, <1>7, <2>3, <2>4, <2>5, Sizes
<1>9. AccessUnit(i) \notin delivered
  <2> SUFFICES ASSUME AccessUnit(i) \in delivered
               PROVE  FALSE
    OBVIOUS
  <2>1. PICK j \in 1 .. Len(sent) : Sound(j) /\ AccessUnit(i) = AccessUnit(j)
    BY DEF Inv, NoSplice
  <2>2. j = i
    BY <1>1, <1>6, <2>1, UnitsDiffer
  <2> QED BY <2>1, <2>2 DEF Whole
<1> QED BY <1>6, <1>8, <1>9

LEMMA SendingIsSends ==
  ASSUME Inv, DeviceSends
  PROVE  (\E i \in 1 .. MaxSegments : Source!Sends(i)) \/ UNCHANGED Source!sourceVars
<1>1. /\ Len(sent) \in Nat /\ Len(sent') = Len(sent) + 1 /\ DOMAIN sent = 1 .. Len(sent)
      /\ Len(sent) < MaxSegments /\ MaxSegments \in Nat
  BY Sending, State, LenProperties, SizesAssumption DEF Segmented, DeviceSends
<1>2. delivered' = delivered /\ Stage' = Stage /\ Stage # "ended"
  BY DEF DeviceSends, Stage
<1>3. ASSUME NEW i \in Whole
      PROVE  i \in Whole' /\ AccessUnit(i)' = AccessUnit(i) /\ (Clear(i)' <=> Clear(i))
  <2>1. i \in 1 .. Len(sent) /\ i \in 1 .. Len(sent') /\ sent[i].frame /\ Sound(i)
    BY <1>1, SoundIs DEF Whole
  <2> QED BY <2>1, SendingKeeps DEF Whole
<1>4. CASE Whole' = Whole
  <2>1. Hidden' = Hidden /\ Yielded' = Yielded
    BY <1>2, <1>3, <1>4 DEF Hidden, Yielded
  <2> QED BY <1>2, <1>4, <2>1 DEF Source!sourceVars, Hidden, Yielded, Stage
<1>5. CASE Whole' # Whole
  <2>1. PICK i \in Whole' : i \notin Whole
    BY <1>3, <1>5
  <2>2. /\ i \in 1 .. Len(sent) /\ AccessUnit(i) \notin delivered
        /\ \A j \in DOMAIN sent : sent[j].frame => j <= i
    BY <2>1, SoundBySending
  <2>3. AccessUnit(i)' = AccessUnit(i)
    BY <2>2, SendingKeeps
  <2>4. \A j \in Whole : j < i
    <3>1. ASSUME NEW j \in Whole
          PROVE  j \in Int /\ j <= i /\ j # i
      BY <2>1, <2>2, SoundIs
    <3> QED BY <2>2, <3>1
  <2>5. Whole' = Whole \cup {i}
    <3>1. ASSUME NEW j \in Whole', j \notin Whole
          PROVE  j = i
      <4>1. /\ j \in 1 .. Len(sent)
            /\ \A k \in DOMAIN sent : sent[k].frame => k <= j
        BY <3>1, SoundBySending
      <4>2. sent[i].frame /\ sent[j].frame
        <5>1. Sound(i)' /\ Sound(j)' /\ sent'[i] = sent[i] /\ sent'[j] = sent[j]
          BY <2>1, <2>2, <3>1, <4>1, SendingKeeps DEF Whole
        <5> QED BY <5>1 DEF Sound
      <4>3. i <= j /\ j <= i
        BY <1>1, <2>2, <4>1, <4>2
      <4> QED BY <2>2, <4>1, <4>3
    <3> QED BY <1>3, <2>1, <3>1
  <2>6. Yielded' = Yielded
    <3>1. \A j \in Whole : AccessUnit(j)' = AccessUnit(j)
      BY <1>3
    <3>2. AccessUnit(i)' \notin delivered'
      BY <1>2, <2>2, <2>3
    <3> QED BY <1>2, <2>5, <3>1, <3>2 DEF Yielded
  <2>7. Hidden' \in {Hidden, Hidden \cup {i}}
    <3>1. \A j \in Whole : Clear(j)' <=> Clear(j)
      BY <1>3
    <3>2. CASE Clear(i)'
      <4>1. Hidden' = Hidden
        BY <2>5, <3>1, <3>2 DEF Hidden
      <4> QED BY <4>1
    <3>3. CASE ~Clear(i)'
      <4>1. Hidden' = Hidden \cup {i}
        BY <2>5, <3>1, <3>3 DEF Hidden
      <4> QED BY <4>1
    <3> QED BY <3>2, <3>3
  <2>8. i \in 1 .. MaxSegments
    BY <1>1, <2>2
  <2>9. Source!Sends(i)
    BY <1>2, <2>4, <2>5, <2>6, <2>7 DEF Source!Sends, Hidden, Yielded, Stage
  <2> QED BY <2>8, <2>9
<1> QED BY <1>4, <1>5

\* A payload is the access unit of a sound frame behind every one yielded, and those
\* between them are hidden.
LEMMA DeliveringIsYield ==
  ASSUME Inv, Inv', SentBounded, Deliver, pc' = "yield"
  PROVE  \E i \in 1 .. MaxSegments : Source!Yield(i)
<1> DEFINE d == [at |-> At + HeaderLen, len |-> PayloadLen]
<1>1. delivered' = delivered \cup {d} /\ UNCHANGED device /\ pc = "body"
  BY DEF Deliver, StartResync
<1>2. /\ Whole' = Whole /\ Hidden' = Hidden
      /\ \A i : Sound(i)' = Sound(i) /\ AccessUnit(i)' = AccessUnit(i)
  <2>1. /\ sent' = sent
        /\ \A i : /\ Sound(i)' = Sound(i) /\ Clear(i)' = Clear(i)
                  /\ AccessUnit(i)' = AccessUnit(i)
    BY <1>1, StreamStays DEF device
  <2> QED BY <2>1 DEF Whole, Hidden
<1>3. PICK i \in Whole : d = AccessUnit(i)
  <2>1. PICK i \in 1 .. Len(sent') : Sound(i)' /\ d = AccessUnit(i)'
    BY <1>1 DEF Inv, NoSplice
  <2> QED BY <1>1, <1>2, <2>1 DEF Whole, device
<1>4. At \in Nat /\ d.at = At + HeaderLen /\ sent[i].at = At
  <2>1. At \in Nat /\ d.at = At + HeaderLen
    BY State
  <2>2. d.at = sent[i].at + HeaderLen /\ sent[i].at \in Nat
    BY <1>3, SoundIs
  <2> HIDE DEF d
  <2> QED BY <2>1, <2>2, Sizes
<1>5. \A j \in Whole : AccessUnit(j) = d => j = i
  BY <1>3, SoundIs, UnitsDiffer
<1> HIDE DEF d
<1>6. Yielded' = Yielded \cup {i}
  BY <1>1, <1>2, <1>3, <1>5 DEF Yielded
<1>7. Segmented
  BY State
<1>8. ASSUME NEW j \in Yielded
      PROVE  j < i
  <2>1. j \in Whole /\ AccessUnit(j) \in delivered
    BY DEF Yielded
  <2>2. j \in DOMAIN sent /\ i \in DOMAIN sent /\ sent[j].at \in Nat
        /\ sent[j].at + HeaderLen < At
    BY <2>1, SoundIs DEF Inv, Behind
  <2>3. sent[j].at < sent[i].at
    BY <1>4, <2>2, Sizes
  <2> QED BY <1>7, <2>2, <2>3, Apart
<1>9. ASSUME NEW j \in Whole \ (Yielded \cup Hidden)
      PROVE  i <= j
  <2> SUFFICES ASSUME ~(i <= j)
               PROVE  FALSE
    OBVIOUS
  <2>1. /\ j \in DOMAIN sent /\ i \in DOMAIN sent /\ j < i
        /\ sent[j].frame /\ Length(j) < LenMod /\ ~Refuted(j)
    BY SoundIs
  <2>2. sent[j].at < At
    BY <1>4, <1>7, <2>1, Apart
  <2>3. Clear(j) /\ AccessUnit(j) \notin delivered
    BY DEF Hidden, Yielded
  <2> QED BY <2>1, <2>2, <2>3 DEF Inv, Passed
<1>10. Stage = "fetching" /\ Stage' = "handed"
  BY <1>1 DEF Stage
<1>11. Source!Yield(i)
  BY <1>2, <1>3, <1>6, <1>8, <1>9, <1>10 DEF Source!Yield, Hidden, Yielded, Stage
<1>12. i \in 1 .. MaxSegments
  BY SoundIs, SizesAssumption DEF SentBounded
<1> QED BY <1>11, <1>12

LEMMA StepSource ==
  ASSUME Inv, Inv', SentBounded, [Next]_vars
  PROVE  [Source!SourceNext]_(Source!sourceVars)
<1>1. CASE DeviceSends
  BY <1>1, SendingIsSends DEF Source!SourceNext
<1>2. CASE Deliver /\ pc' = "yield"
  BY <1>2, DeliveringIsYield DEF Source!SourceNext
<1>3. ASSUME UNCHANGED <<sent, delivered>>, UNCHANGED stream \/ sent = <<>>
      PROVE  /\ Stage' = Stage => UNCHANGED Source!sourceVars
             /\ Stage = "handed" /\ Stage' = "fetching" => Source!Asked
             /\ Stage # "ended" /\ Stage' = "ended" => Source!Ends
  BY <1>3, SourceStutters DEF Source!Asked, Source!Ends, Hidden, Yielded, Stage
<1>4. CASE Resume
  <2>1. UNCHANGED <<stream, sent, delivered>> /\ Stage = "handed" /\ Stage' = "fetching"
    BY <1>4 DEF Resume, device, Stage
  <2> QED BY <1>3, <2>1 DEF Source!SourceNext
<1>5. CASE Close /\ pc # "closed"
  <2>1. UNCHANGED <<stream, sent, delivered>> /\ Stage # "ended" /\ Stage' = "ended"
    BY <1>5 DEF Close, device, Stage
  <2> QED BY <1>3, <2>1 DEF Source!SourceNext
<1>6. CASE Rescan /\ pc' = "closed"
  <2>1. UNCHANGED <<stream, sent, delivered>> /\ Stage # "ended" /\ Stage' = "ended"
    BY <1>6 DEF Rescan, device, Stage
  <2> QED BY <1>3, <2>1 DEF Source!SourceNext
<1>7. CASE \/ UNCHANGED vars \/ PreambleEnds \/ ParseHeader \/ Resynced
           \/ pc' # "closed" /\ (PreambleRead \/ Fill \/ Rescan)
           \/ pc' # "yield" /\ Deliver
  <2>1. UNCHANGED <<stream, sent, delivered>> /\ Stage' = Stage
    BY <1>7 DEF vars, device, PreambleEnds, PreambleRead, Fill, Short, Wanted, Read,
       ReadFails, Close, ParseHeader, Deliver, StartResync, Resynced, Rescan, Stage
  <2> QED BY <1>3, <2>1
<1>8. CASE Connect /\ pc' # "closed"
  <2>1. sent = <<>> /\ UNCHANGED <<sent, delivered>> /\ Stage' = Stage
    BY <1>8 DEF Inv, AtHeader, Connect, Close, Stage
  <2> QED BY <1>3, <2>1
<1>9. Connect \/ PreambleRead \/ Fill => pc' # "closed" \/ (Close /\ pc # "closed")
  BY DEF Connect, PreambleRead, Fill, Short, Wanted, Read, ReadFails, Close
<1> QED BY <1>1, <1>2, <1>4, <1>5, <1>6, <1>7, <1>8, <1>9 DEF Next, Abandoned

LEMMA StepSentBounded == Inv /\ SentBounded /\ [Next]_vars => SentBounded'
<1> SUFFICES ASSUME Inv, SentBounded, [Next]_vars PROVE SentBounded'
  OBVIOUS
<1>1. CASE UNCHANGED sent
  BY <1>1 DEF SentBounded
<1>2. CASE DeviceSends
  <2>1. Len(sent) \in Nat /\ Len(sent) < MaxSegments /\ MaxSegments \in Nat
    BY <1>2, State, LenProperties, SizesAssumption DEF DeviceSends, Segmented
  <2>2. Len(sent') = Len(sent) + 1
    BY <1>2, Sending
  <2> QED BY <2>1, <2>2 DEF SentBounded
<1> QED BY <1>1, <1>2 DEF Next, vars, device, Connect, PreambleEnds, PreambleRead, Fill, Read,
     ReadFails, Close, ParseHeader, StartResync, Deliver, Resume, Resynced, Rescan, Abandoned

LEMMA InitSource == Init => Source!SourceInit /\ SentBounded
<1> SUFFICES ASSUME Init PROVE Source!SourceInit /\ SentBounded
  OBVIOUS
<1>1. sent = <<>> /\ delivered = {} /\ pc = "connect"
  BY DEF Init
<1>2. Whole = {}
  BY <1>1, EmptySeq DEF Whole
<1> QED BY <1>1, <1>2, SizesAssumption, EmptySeq DEF Source!SourceInit, SentBounded

\* drivers/base.py 46-51 and netdvr3.py 18-20: frames() hands the hub the access units
\* it can know to be whole, each at most once and in the device's order, one for each
\* time it is resumed, whatever magics stand in payloads and garbage between them, as
\* long as none forges a frame (Unforged).  It leaves out only units with a magic in
\* their lead or running into it, and once over it yields nothing.
THEOREM ParserIsFrameSource == Spec => ImplementsFrameSource
<1>1. Inv /\ Inv' /\ SentBounded /\ [Next]_vars => [Source!SourceNext]_(Source!sourceVars)
  BY StepSource
<1> QED BY <1>1, InitSource, StepSentBounded, Invariant, PTL DEF Spec, ImplementsFrameSource, Source!SourceSpec
=============================================================================
