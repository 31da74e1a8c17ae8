----------------------------- MODULE RtspProofs -----------------------------
(***************************************************************************)
(* Proofs about RtspServer for any number of connections and any limit.    *)
(***************************************************************************)
EXTENDS RtspServer, FiniteSetTheorems, TLAPS

-----------------------------------------------------------------------------
(* What holds of one connection between two steps: its one UDP socket is     *)
(* the one it knows, and the lock is where its two tasks think it is.        *)

\* states of the request loop in which no UDP socket is bound
Unbound == {"absent", "accepted", "binding", "wait_closed", "gone"}

OwnSocket(s) == s.sockets = IF s.udp THEN 1 ELSE 0
LoopLock(s) == /\ s.loop = "drain" => s.lock = "loop"
               /\ s.lock = "loop" => s.loop \in {"send", "drain"}
PumpLock(s) == /\ s.pump = "drain" => s.lock = "pump"
               /\ s.lock = "pump" => s.pump \in {"lock", "drain", "erring"}

Sound == {s \in Connection : /\ OwnSocket(s) /\ (s.loop \in Unbound => ~s.udp)
                             /\ LoopLock(s) /\ PumpLock(s)}

\* the request loop does not hold the lock, wherever it is going
Free == {s \in Connection : OwnSocket(s) /\ s.lock # "loop" /\ PumpLock(s)}

LEMMA FieldTypes ==
  ASSUME NEW s \in Connection
  PROVE  /\ \A l \in LoopStates : [s EXCEPT !.loop = l] \in Connection
         /\ \A k \in Thens : [s EXCEPT !.then = k] \in Connection
         /\ \A k \in CloserStates : [s EXCEPT !.closer = k] \in Connection
         /\ \A p \in PumpStates : [s EXCEPT !.pump = p] \in Connection
         /\ \A l \in {"free", "loop", "pump"} : [s EXCEPT !.lock = l] \in Connection
         /\ \A k \in {"none", "open", "closing", "closed"} : [s EXCEPT !.sock = k] \in Connection
         /\ \A b \in BOOLEAN : /\ [s EXCEPT !.cancelled = b] \in Connection
                               /\ [s EXCEPT !.stalled = b] \in Connection
                               /\ [s EXCEPT !.stream = b] \in Connection
                               /\ [s EXCEPT !.tcp = b] \in Connection
                               /\ [s EXCEPT !.udp = b] \in Connection
         /\ \A R \in SUBSET {"own", "orphan"} : [s EXCEPT !.registered = R] \in Connection
BY DEF Connection

LEMMA ReleasedType ==
  ASSUME NEW s \in Connection
  PROVE  [s EXCEPT !.tcp = FALSE, !.udp = FALSE, !.sockets = 0] \in Connection
<1> DEFINE r == [s EXCEPT !.tcp = FALSE, !.udp = FALSE]
<1>1. r \in Connection
  BY DEF Connection
<1> HIDE DEF r
<1>2. [r EXCEPT !.sockets = 0] \in Connection
  BY <1>1 DEF Connection
<1> QED BY <1>2 DEF r

LEMMA FreeSound ==
  ASSUME NEW s \in Free, NEW l \in LoopStates \ {"drain"}, l \in Unbound => ~s.udp
  PROVE  [s EXCEPT !.loop = l] \in Sound
<1>1. s \in Connection /\ OwnSocket(s) /\ s.lock # "loop" /\ PumpLock(s)
  BY DEF Free
<1>2. [s EXCEPT !.loop = l] \in Connection
  BY <1>1, FieldTypes
<1> QED BY <1>1, <1>2 DEF Connection, Sound, OwnSocket, LoopLock, PumpLock, Unbound

LEMMA SoundFree ==
  ASSUME NEW s \in Sound, s.loop \notin {"send", "drain"}
  PROVE  s \in Free
BY DEF Sound, Free, LoopLock

\* Each piece of a handler keeps a connection Free, and takes it back to Sound.

LEMMA ThenFree ==
  ASSUME NEW s \in Free, NEW k \in Thens
  PROVE  LET r == [s EXCEPT !.then = k]
         IN r \in Free /\ r.loop = s.loop /\ r.udp = s.udp /\ r.pump = s.pump
<1>1. s \in Connection
  BY DEF Free
<1>2. [s EXCEPT !.then = k] \in Connection
  BY <1>1, FieldTypes
<1> QED BY <1>1, <1>2 DEF Connection, Free, OwnSocket, PumpLock

LEMMA CloseWriterFree ==
  ASSUME NEW s \in Free
  PROVE  LET r == CloseWriter(s)
         IN r \in Free /\ r.loop = s.loop /\ r.udp = s.udp /\ r.pump = s.pump
<1>1. s \in Connection /\ s.sock \in {"none", "open", "closing", "closed"}
  BY DEF Free, Connection
<1>2. CloseWriter(s) \in Connection
  BY <1>1, FieldTypes DEF CloseWriter
<1> QED BY <1>1, <1>2 DEF Connection, Free, OwnSocket, PumpLock, CloseWriter

LEMMA ReleaseFree ==
  ASSUME NEW s \in Free
  PROVE  LET r == ReleaseTransport(s)
         IN r \in Free /\ r.loop = s.loop /\ r.udp = FALSE /\ r.pump = s.pump
<1> DEFINE r == [s EXCEPT !.tcp = FALSE, !.udp = FALSE, !.sockets = 0]
<1>1. s \in Connection /\ OwnSocket(s)
  BY DEF Free
<1>2. r = ReleaseTransport(s)
  <2>1. (IF s.udp THEN s.sockets - 1 ELSE s.sockets) = 0
    BY <1>1 DEF OwnSocket
  <2> QED BY <1>1, <2>1 DEF ReleaseTransport, Connection
<1>3. r \in Connection
  BY <1>1, ReleasedType
<1>4. r \in Free /\ r.loop = s.loop /\ r.udp = FALSE /\ r.pump = s.pump
  BY <1>1, <1>3 DEF Connection, Free, OwnSocket, PumpLock
<1> QED BY <1>2, <1>4

LEMMA CancelFree ==
  ASSUME NEW s \in Free
  PROVE  LET r == CancelPump(s)
         IN r \in Free /\ r.loop = s.loop /\ r.udp = s.udp /\ r.pump = s.pump
<1>1. s \in Connection
  BY DEF Free
<1>2. CancelPump(s) \in Connection
  BY <1>1, FieldTypes DEF CancelPump
<1> QED BY <1>1, <1>2 DEF Connection, Free, OwnSocket, PumpLock, CancelPump

LEMMA ForgetFree ==
  ASSUME NEW s \in Free, PumpOver(s)
  PROVE  LET r == ForgetPump(s)
         IN r \in Free /\ r.loop = s.loop /\ r.udp = s.udp /\ r.pump = "none"
<1>1. s \in Connection
  BY DEF Free
<1>2. ForgetPump(s) \in Connection
  BY <1>1, FieldTypes DEF ForgetPump, PumpStates
<1> QED BY <1>1, <1>2 DEF Connection, Free, OwnSocket, PumpLock, ForgetPump, PumpOver

LEMMA LoopReleasesFree ==
  ASSUME NEW s \in Sound, s.loop = "drain"
  PROVE  LET r == LoopReleases(s)
         IN r \in Free /\ r.loop = s.loop /\ r.udp = s.udp /\ r.pump = s.pump
<1>1. s \in Connection
  BY DEF Sound
<1>2. LoopReleases(s) \in Connection
  BY <1>1, FieldTypes DEF LoopReleases
<1> QED BY <1>1, <1>2 DEF Connection, Sound, Free, OwnSocket, LoopLock, PumpLock, LoopReleases

-----------------------------------------------------------------------------
LEMMA RespondSound ==
  ASSUME NEW s \in Free, NEW k \in Thens
  PROVE  Respond(s, k) \in Sound
<1> DEFINE r == [s EXCEPT !.then = k]
<1>1. r \in Free /\ r \in Connection
  BY ThenFree DEF Free
<1>2. CASE s.lock = "free"
  <2> DEFINE q == [s EXCEPT !.lock = "loop", !.loop = "drain", !.then = k]
  <2>1. q \in Connection
    BY FieldTypes DEF Free, LoopStates
  <2>2. q \in Sound
    BY <1>2, <2>1 DEF Connection, Free, Sound, OwnSocket, LoopLock, PumpLock, Unbound
  <2> QED BY <1>2, <2>2 DEF Respond
<1>3. CASE s.lock # "free"
  <2> DEFINE q == [s EXCEPT !.loop = "send", !.then = k]
  <2>1. q \in Connection
    BY FieldTypes DEF Free, LoopStates
  <2>2. q \in Sound
    BY <1>3, <2>1 DEF Connection, Free, Sound, OwnSocket, LoopLock, PumpLock, Unbound
  <2> QED BY <1>3, <2>2 DEF Respond
<1> QED BY <1>2, <1>3

LEMMA LoopShutSound ==
  ASSUME NEW s \in Free
  PROVE  LoopShut(s) \in Sound
<1> DEFINE r == CloseWriter(ReleaseTransport(s))
<1>1. r \in Free /\ ~r.udp
  BY ReleaseFree, CloseWriterFree
<1> HIDE DEF r
<1>2. [r EXCEPT !.loop = "wait_closed"] \in Sound
  BY <1>1, FreeSound DEF LoopStates
<1> QED BY <1>2 DEF LoopShut, r

LEMMA LoopCloseSound ==
  ASSUME NEW s \in Free
  PROVE  LoopClose(s) \in Sound
<1>1. CASE s.pump = "none"
  BY <1>1, LoopShutSound DEF LoopClose
<1>2. CASE s.pump # "none"
  <2> DEFINE r == CancelPump(s)
  <2>1. r \in Free
    BY CancelFree
  <2> HIDE DEF r
  <2>2. [r EXCEPT !.loop = "close_play"] \in Sound
    BY <2>1, FreeSound DEF LoopStates, Unbound
  <2> QED BY <1>2, <2>2 DEF LoopClose, r
<1> QED BY <1>1, <1>2

LEMMA TornDownSound ==
  ASSUME NEW s \in Free
  PROVE  TornDown(s) \in Sound
<1> DEFINE r == ReleaseTransport(s)
<1>1. r \in Free
  BY ReleaseFree
<1> HIDE DEF r
<1> DEFINE q == [r EXCEPT !.stream = FALSE]
<1>2. q \in Free
  <2>1. q \in Connection
    BY <1>1, FieldTypes DEF Free
  <2> QED BY <1>1, <2>1 DEF Connection, Free, OwnSocket, PumpLock
<1> HIDE DEF q
<1>3. [q EXCEPT !.loop = "idle"] \in Sound
  BY <1>2, FreeSound DEF LoopStates, Unbound
<1> QED BY <1>3 DEF TornDown, q, r

LEMMA TeardownSound ==
  ASSUME NEW s \in Free
  PROVE  Teardown(s) \in Sound
<1>1. CASE s.pump = "none"
  BY <1>1, TornDownSound DEF Teardown
<1>2. CASE s.pump # "none"
  <2> DEFINE r == CancelPump(s)
  <2>1. r \in Free
    BY CancelFree
  <2> HIDE DEF r
  <2>2. [r EXCEPT !.loop = "stop_play"] \in Sound
    BY <2>1, FreeSound DEF LoopStates, Unbound
  <2> QED BY <1>2, <2>2 DEF Teardown, r
<1> QED BY <1>1, <1>2

LEMMA StartPlaySound ==
  ASSUME NEW s \in Free
  PROVE  StartPlay(s) \in Sound
<1>1. CASE s.pump # "none"
  BY <1>1, FreeSound DEF StartPlay, LoopStates, Unbound
<1>2. CASE s.pump = "none"
  <2> DEFINE R == IF "own" \in s.registered THEN {"own", "orphan"} ELSE s.registered \cup {"own"}
             r == [s EXCEPT !.loop = "idle", !.pump = "unstarted", !.registered = R]
  <2>1. s \in Connection /\ s.registered \in SUBSET {"own", "orphan"}
    BY DEF Free, Connection
  <2>2. R \in SUBSET {"own", "orphan"}
    BY <2>1
  <2>3. StartPlay(s) = r
    BY <1>2, <2>1 DEF StartPlay, Connection
  <2> HIDE DEF R
  <2>4. r \in Connection
    BY <2>1, <2>2, FieldTypes DEF LoopStates, PumpStates
  <2>5. r \in Sound
    BY <1>2, <2>1, <2>4 DEF Connection, Free, Sound, OwnSocket, LoopLock, PumpLock, Unbound
  <2> QED BY <2>3, <2>5
<1> QED BY <1>1, <1>2

\* after a response: the next request, PLAY, TEARDOWN or close()
LEMMA AfterResponseSound ==
  ASSUME NEW s \in Free
  PROVE  AfterResponse(s) \in Sound
<1> DEFINE r == [s EXCEPT !.then = "next"]
<1>1. r \in Free
  BY ThenFree DEF Thens
<1>2. s.then \in Thens
  BY DEF Free, Connection
<1> HIDE DEF r
<1>3. /\ [r EXCEPT !.loop = "idle"] \in Sound
      /\ StartPlay(r) \in Sound /\ Teardown(r) \in Sound /\ LoopClose(r) \in Sound
  BY <1>1, FreeSound, StartPlaySound, TeardownSound, LoopCloseSound DEF LoopStates, Unbound
<1> QED BY <1>2, <1>3 DEF AfterResponse, Thens, r

\* the finally of the pump gives back the lock it held or was granted
LEMMA PumpFinallySound ==
  ASSUME NEW s \in Sound
  PROVE  PumpFinally(s) \in Sound
<1> DEFINE R == IF s.stream THEN s.registered \ {"own"} ELSE s.registered
           l == IF s.lock # "pump" THEN s.lock ELSE IF s.loop = "send" THEN "loop" ELSE "free"
           r == [s EXCEPT !.lock = l, !.pump = "done", !.cancelled = FALSE, !.registered = R]
<1>1. s \in Connection
  BY DEF Sound
<1>2. R \in SUBSET {"own", "orphan"} /\ l \in {"free", "loop", "pump"} /\ l # "pump"
  BY <1>1 DEF Connection
<1>3. PumpFinally(s) = r
  BY <1>1 DEF PumpFinally, PumpReleases, Connection
<1>4. /\ s.loop = "drain" => l = "loop"
      /\ l = "loop" => s.loop \in {"send", "drain"}
  BY DEF Sound, LoopLock
<1> HIDE DEF R, l
<1>5. r \in Connection
  BY <1>1, <1>2, FieldTypes DEF PumpStates
<1>6. r \in Sound
  BY <1>1, <1>2, <1>4, <1>5 DEF Connection, Sound, OwnSocket, LoopLock, PumpLock
<1> QED BY <1>3, <1>6

-----------------------------------------------------------------------------
(* Every step.  A connection's own step takes it from Sound to Sound.        *)

\* a field that Sound does not look at
LEMMA AsideSound ==
  ASSUME NEW s \in Sound
  PROVE  /\ \A k \in {"none", "open", "closing", "closed"} : [s EXCEPT !.sock = k] \in Sound
         /\ \A k \in CloserStates : [s EXCEPT !.closer = k] \in Sound
         /\ \A b \in BOOLEAN : [s EXCEPT !.stalled = b] \in Sound
         /\ \A b \in BOOLEAN : [s EXCEPT !.cancelled = b] \in Sound
<1>1. s \in Connection
  BY DEF Sound
<1>2. ASSUME NEW k \in {"none", "open", "closing", "closed"} PROVE [s EXCEPT !.sock = k] \in Sound
  <2>1. [s EXCEPT !.sock = k] \in Connection
    BY <1>1, <1>2, FieldTypes
  <2> QED BY <1>1, <2>1 DEF Connection, Sound, OwnSocket, LoopLock, PumpLock
<1>3. ASSUME NEW k \in CloserStates PROVE [s EXCEPT !.closer = k] \in Sound
  <2>1. [s EXCEPT !.closer = k] \in Connection
    BY <1>1, <1>3, FieldTypes
  <2> QED BY <1>1, <2>1 DEF Connection, Sound, OwnSocket, LoopLock, PumpLock
<1>4. ASSUME NEW b \in BOOLEAN
      PROVE  [s EXCEPT !.stalled = b] \in Sound /\ [s EXCEPT !.cancelled = b] \in Sound
  <2>1. [s EXCEPT !.stalled = b] \in Connection /\ [s EXCEPT !.cancelled = b] \in Connection
    BY <1>1, <1>4, FieldTypes
  <2> QED BY <1>1, <2>1 DEF Connection, Sound, OwnSocket, LoopLock, PumpLock
<1> QED BY <1>2, <1>3, <1>4

LEMMA CloseWriterSound ==
  ASSUME NEW s \in Sound
  PROVE  CloseWriter(s) \in Sound /\ CloseWriter(s).udp = s.udp
<1>1. s \in Connection /\ s.sock \in {"none", "open", "closing", "closed"}
  BY DEF Sound, Connection
<1> QED BY <1>1, AsideSound DEF CloseWriter, Connection

\* stop()'s close() of a connection
LEMMA CloserShutSound ==
  ASSUME NEW s \in Sound
  PROVE  CloserShut(s) \in Sound
<1> DEFINE r == [s EXCEPT !.tcp = FALSE, !.udp = FALSE, !.sockets = 0]
<1>1. s \in Connection /\ OwnSocket(s)
  BY DEF Sound
<1>2. r = ReleaseTransport(s)
  <2>1. (IF s.udp THEN s.sockets - 1 ELSE s.sockets) = 0
    BY <1>1 DEF OwnSocket
  <2> QED BY <1>1, <2>1 DEF ReleaseTransport, Connection
<1>3. r \in Connection
  BY <1>1, ReleasedType
<1>4. r \in Sound
  BY <1>1, <1>3 DEF Connection, Sound, OwnSocket, LoopLock, PumpLock
<1> HIDE DEF r
<1> QED BY <1>2, <1>4, CloseWriterSound, AsideSound DEF CloserShut, CloserStates

\* A step to another state of the request loop that has no socket of its own
LEMMA LoopMoves ==
  ASSUME NEW s \in Sound, s.loop \notin {"send", "drain"},
         NEW l \in LoopStates \ {"drain"}, l \in Unbound => ~s.udp
  PROVE  [s EXCEPT !.loop = l] \in Sound
BY SoundFree, FreeSound

LEMMA ResetupFree ==
  ASSUME NEW s \in Sound, s.loop \notin {"send", "drain"}
  PROVE  Resetup(s) \in Free /\ ~Resetup(s).udp
<1> DEFINE r == ReleaseTransport(s)
<1>1. r \in Free /\ r.udp = FALSE
  BY SoundFree, ReleaseFree
<1> HIDE DEF r
<1>2. [r EXCEPT !.stream = TRUE] \in Connection
  BY <1>1, FieldTypes DEF Free
<1>3. [r EXCEPT !.stream = TRUE] \in Free /\ ~[r EXCEPT !.stream = TRUE].udp
  BY <1>1, <1>2 DEF Connection, Free, OwnSocket, PumpLock
<1> QED BY <1>3 DEF Resetup, r

\* the pump's steps that keep its lock or leave it alone
LEMMA PumpMoves ==
  ASSUME NEW s \in Sound, NEW p \in PumpStates,
         p = "drain" => s.lock = "pump", s.lock = "pump" => p \in {"lock", "drain", "erring"}
  PROVE  [s EXCEPT !.pump = p] \in Sound
<1>1. [s EXCEPT !.pump = p] \in Connection
  BY FieldTypes DEF Sound
<1> QED BY <1>1 DEF Connection, Sound, OwnSocket, LoopLock, PumpLock

\* ... and those that take it
LEMMA PumpTakesLock ==
  ASSUME NEW s \in Sound, s.lock = "free", NEW p \in {"drain", "erring"}
  PROVE  [s EXCEPT !.pump = p, !.lock = "pump"] \in Sound
<1>1. s \in Connection /\ p \in PumpStates
  BY DEF Sound, PumpStates
<1>2. [s EXCEPT !.pump = p, !.lock = "pump"] \in Connection
  BY <1>1, FieldTypes
<1> QED BY <1>1, <1>2 DEF Connection, Sound, OwnSocket, LoopLock, PumpLock

\* what one step of connection c makes of it
LEMMA ConnectionStep ==
  ASSUME NEW c \in Conns, conn \in [Conns -> Sound],
         \/ Accept(c) \/ Request(c) \/ Describe(c) \/ ReadFails(c) \/ LoopStep(c)
         \/ DescribeEnds(c) \/ PumpFrame(c) \/ PumpCrash(c) \/ PumpStep(c) \/ Stall(c)
         \/ ClientLost(c) \/ SocketCloses(c) \/ CloserStep(c)
  PROVE  \E r \in Sound : Become(c, r)
<1> DEFINE s == conn[c]
<1>1. s \in Sound /\ s \in Connection
  BY DEF Sound
<1>2. ASSUME s.loop \notin {"send", "drain"} PROVE s \in Free
  BY <1>1, <1>2, SoundFree
<1>3. CASE Accept(c)
  <2>1. [s EXCEPT !.loop = "accepted"] \in Sound
    BY <1>1, <1>3, LoopMoves DEF Accept, LoopStates, Unbound, Sound
  <2>2. [s EXCEPT !.loop = "accepted", !.sock = "open"] \in Sound
    BY <2>1, AsideSound
  <2> QED BY <1>3, <2>2 DEF Accept
<1>4. CASE Request(c)
  <2>1. s \in Free /\ Resetup(s) \in Free /\ ~Resetup(s).udp /\ ReleaseTransport(s) \in Free
    BY <1>1, <1>2, <1>4, ResetupFree, ReleaseFree DEF Request, Reads, Plain, Malformed,
       SetupRefused, SetupTcp, SetupUnsupported, SetupUdp, Play, TeardownRequest
  <2>2. [Resetup(s) EXCEPT !.tcp = TRUE] \in Free
    <3>1. [Resetup(s) EXCEPT !.tcp = TRUE] \in Connection
      BY <2>1, FieldTypes DEF Free
    <3> QED BY <2>1, <3>1 DEF Connection, Free, OwnSocket, PumpLock
  <2>3. [Resetup(s) EXCEPT !.loop = "binding"] \in Sound
    BY <2>1, FreeSound DEF LoopStates, Unbound
  <2>4. \A q \in Free, k \in Thens : Respond(q, k) \in Sound
    BY RespondSound
  <2>5. CASE Plain(c) \/ Malformed(c) \/ TeardownRequest(c)
    BY <2>1, <2>4, <2>5 DEF Plain, Malformed, TeardownRequest, Thens
  <2>6. CASE SetupRefused(c) \/ Play(c)
    BY <2>1, <2>4, <2>6 DEF SetupRefused, Play, Thens
  <2>7. CASE SetupTcp(c) \/ SetupUnsupported(c) \/ SetupUdp(c)
    BY <2>1, <2>2, <2>3, <2>4, <2>7 DEF SetupTcp, SetupUnsupported, SetupUdp, Thens
  <2> QED BY <1>4, <2>5, <2>6, <2>7 DEF Request
<1>5. CASE Describe(c)
  <2>1. [s EXCEPT !.loop = "describing"] \in Sound
    BY <1>1, <1>5, LoopMoves DEF Describe, Reads, LoopStates, Unbound
  <2> QED BY <1>5, <2>1 DEF Describe
<1>6. CASE ReadFails(c) \/ SdpFails(c) \/ BindFails(c)
  <2>1. LoopClose(s) \in Sound
    BY <1>2, <1>6, LoopCloseSound DEF ReadFails, SdpFails, BindFails, Reads
  <2> QED BY <1>6, <2>1 DEF ReadFails, SdpFails, BindFails
<1>7. CASE DescribeDone(c)
  BY <1>2, <1>7, RespondSound DEF DescribeDone, Thens
<1>8. CASE ClientStart(c)
  <2>1. ~s.udp /\ s.loop = "accepted" /\ CloseWriter(s) \in Sound /\ ~CloseWriter(s).udp
    BY <1>1, <1>8, CloseWriterSound DEF ClientStart, Sound, Unbound
  <2>2. CloseWriter(s).loop = "accepted"
    BY <1>1, <2>1 DEF CloseWriter, Connection
  <2>3. [CloseWriter(s) EXCEPT !.loop = "gone"] \in Sound
    BY <2>1, <2>2, LoopMoves DEF LoopStates
  <2>4. [s EXCEPT !.loop = "idle"] \in Sound
    BY <1>1, <2>1, LoopMoves DEF LoopStates, Unbound
  <2> QED BY <1>8, <2>3, <2>4 DEF ClientStart
<1>9. CASE Bound(c)
  <2> DEFINE r == [s EXCEPT !.udp = TRUE, !.sockets = @ + 1]
  <2>1. s \in Free /\ s.sockets = 0
    BY <1>1, <1>2, <1>9 DEF Bound, Sound, Unbound, OwnSocket
  <2>2. r = [s EXCEPT !.udp = TRUE, !.sockets = 1]
    BY <1>1, <2>1 DEF Connection
  <2> HIDE DEF r
  <2>3. r \in Connection
    <3> DEFINE q == [s EXCEPT !.udp = TRUE]
    <3>1. q \in Connection
      BY <1>1 DEF Connection
    <3>2. r = [q EXCEPT !.sockets = 1]
      BY <1>1, <2>2 DEF Connection
    <3> HIDE DEF q
    <3> QED BY <3>1, <3>2 DEF Connection
  <2>4. r \in Free
    BY <1>1, <2>1, <2>2, <2>3, ZenonT(40) DEF Connection, Free, OwnSocket, PumpLock
  <2>5. Respond(r, "next") \in Sound
    BY <2>4, RespondSound DEF Thens
  <2> QED BY <1>9, <2>5 DEF Bound, r
<1>10. CASE LoopGetsLock(c)
  <2>1. [s EXCEPT !.loop = "drain"] \in Connection
    BY <1>1, FieldTypes DEF LoopStates
  <2>2. [s EXCEPT !.loop = "drain"] \in Sound
    BY <1>1, <1>10, <2>1 DEF LoopGetsLock, Connection, Sound, OwnSocket, LoopLock, PumpLock,
       Unbound
  <2> QED BY <1>10, <2>2 DEF LoopGetsLock
<1>11. CASE Drained(c)
  <2>1. AfterResponse(LoopReleases(s)) \in Sound
    BY <1>1, <1>11, LoopReleasesFree, AfterResponseSound DEF Drained
  <2> QED BY <1>11, <2>1 DEF Drained
<1>12. CASE DrainFails(c)
  <2>1. [LoopReleases(s) EXCEPT !.then = "next"] \in Free
    BY <1>1, <1>12, LoopReleasesFree, ThenFree DEF DrainFails, Thens
  <2>2. LoopClose([LoopReleases(s) EXCEPT !.then = "next"]) \in Sound
    BY <2>1, LoopCloseSound
  <2>3. Respond(LoopReleases(s), "end") \in Sound
    BY <1>1, <1>12, LoopReleasesFree, RespondSound DEF DrainFails, Thens
  <2> QED BY <1>12, <2>2, <2>3 DEF DrainFails
<1>13. CASE PlayStopped(c)
  <2>1. ForgetPump(s) \in Free
    BY <1>2, <1>13, ForgetFree DEF PlayStopped
  <2>2. TornDown(ForgetPump(s)) \in Sound /\ LoopShut(ForgetPump(s)) \in Sound
    BY <2>1, TornDownSound, LoopShutSound
  <2> QED BY <1>13, <2>2 DEF PlayStopped
<1>14. CASE Gone(c)
  <2>1. [s EXCEPT !.loop = "gone"] \in Sound
    BY <1>1, <1>14, LoopMoves DEF Gone, LoopStates, Unbound, Sound
  <2> QED BY <1>14, <2>1 DEF Gone
<1>15. CASE PumpStart(c) \/ PumpGetsLock(c)
  <2>1. PICK p \in {"waiting", "drain"} :
          /\ Become(c, [s EXCEPT !.pump = p])
          /\ p = "waiting" => s.pump = "unstarted"
          /\ p = "drain" => s.lock = "pump"
    BY <1>15 DEF PumpStart, PumpGetsLock
  <2>2. [s EXCEPT !.pump = p] \in Sound
    BY <1>1, <2>1, PumpMoves DEF PumpStates, Sound, PumpLock
  <2> QED BY <2>1, <2>2
<1>16. CASE PumpFrame(c)
  <2>1. CASE s.lock = "free"
    BY <1>1, <1>16, <2>1, PumpTakesLock DEF PumpFrame
  <2>2. CASE s.lock # "free"
    <3>1. [s EXCEPT !.pump = "lock"] \in Sound
      BY <1>1, PumpMoves DEF PumpStates
    <3> QED BY <1>16, <2>2, <3>1 DEF PumpFrame
  <2> QED BY <2>1, <2>2
<1>17. CASE PumpCrash(c)
  <2>1. CASE s.lock = "free"
    <3>1. [s EXCEPT !.pump = "erring", !.lock = "pump"] \in Sound
      BY <1>1, <2>1, PumpTakesLock
    <3>2. Become(c, [s EXCEPT !.pump = "erring", !.lock = "pump"])
      BY <1>1, <1>17, <2>1 DEF PumpCrash, Crashed, Connection
    <3> QED BY <3>1, <3>2
  <2>2. CASE s.lock # "free"
    <3>1. [s EXCEPT !.pump = "erring"] \in Sound
      BY <1>1, PumpMoves DEF PumpStates
    <3>2. Become(c, [s EXCEPT !.pump = "erring"])
      BY <1>1, <1>17, <2>2 DEF PumpCrash, Crashed, Connection
    <3> QED BY <3>1, <3>2
  <2> QED BY <2>1, <2>2
<1>18. CASE PumpDrained(c)
  <2>1. PumpFinally(s) \in Sound
    BY <1>1, PumpFinallySound
  <2>2. [PumpReleases(s) EXCEPT !.pump = "waiting"] \in Sound
    <3> DEFINE l == IF s.loop = "send" THEN "loop" ELSE "free"
               r == [s EXCEPT !.lock = l, !.pump = "waiting"]
    <3>1. [PumpReleases(s) EXCEPT !.pump = "waiting"] = r
      BY <1>1, <1>18 DEF PumpDrained, PumpReleases, Sound, PumpLock, Connection
    <3>2. r \in Connection
      BY <1>1, FieldTypes DEF PumpStates
    <3>3. r \in Sound
      BY <1>1, <1>18, <3>2, ZenonT(40)
         DEF PumpDrained, Connection, Sound, OwnSocket, LoopLock, PumpLock
    <3> QED BY <3>1, <3>3
  <2>3. Crashed(PumpReleases(s)) \in Sound
    <3> DEFINE l == IF s.loop = "send" THEN "loop" ELSE "pump"
               r == [s EXCEPT !.lock = l, !.pump = "erring"]
    <3>1. Crashed(PumpReleases(s)) = r
      BY <1>1, <1>18 DEF PumpDrained, PumpReleases, Crashed, Sound, PumpLock, Connection
    <3>2. r \in Connection
      BY <1>1, FieldTypes DEF PumpStates
    <3>3. r \in Sound
      BY <1>1, <1>18, <3>2, ZenonT(40)
         DEF PumpDrained, Connection, Sound, OwnSocket, LoopLock, PumpLock
    <3> QED BY <3>1, <3>3
  <2> QED BY <1>18, <2>1, <2>2, <2>3 DEF PumpDrained
<1>19. CASE PumpErring(c)
  <2>1. PumpFinally(CloseWriter(s)) \in Sound
    BY <1>1, CloseWriterSound, PumpFinallySound
  <2> QED BY <1>19, <2>1 DEF PumpErring
<1>20. CASE PumpCancelled(c)
  <2>1. PumpFinally(s) \in Sound
    BY <1>1, PumpFinallySound
  <2>2. CASE s.pump = "unstarted"
    <3>1. [s EXCEPT !.pump = "done"] \in Sound
      BY <1>1, <2>2, PumpMoves DEF PumpStates, Sound, PumpLock
    <3>2. [s EXCEPT !.pump = "done", !.cancelled = FALSE] \in Sound
      BY <3>1, AsideSound
    <3> QED BY <1>20, <2>2, <3>2 DEF PumpCancelled
  <2> QED BY <1>20, <2>1, <2>2 DEF PumpCancelled
<1>21. CASE Stall(c)
  <2>1. [s EXCEPT !.stalled = ~@] \in Sound
    BY <1>1, AsideSound DEF Connection
  <2> QED BY <1>21, <2>1 DEF Stall
<1>22. CASE ClientLost(c) \/ SocketCloses(c)
  <2>1. [s EXCEPT !.sock = "closed"] \in Sound
    BY <1>1, AsideSound
  <2> QED BY <1>22, <2>1 DEF ClientLost, SocketCloses
<1>23. CASE CloserStep(c)
  <2>1. CloserShut(s) \in Sound
    BY <1>1, CloserShutSound
  <2>2. CancelPump(s) \in Sound /\ [CancelPump(s) EXCEPT !.closer = "stop_play"] \in Sound
    BY <1>1, AsideSound DEF CancelPump, CloserStates
  <2>3. [s EXCEPT !.closer = "done"] \in Sound
    BY <1>1, AsideSound DEF CloserStates
  <2>4. ASSUME PumpOver(s) PROVE CloserShut(ForgetPump(s)) \in Sound
    <3>1. [s EXCEPT !.pump = "none"] \in Sound
      BY <1>1, <2>4, PumpMoves DEF PumpOver, PumpStates, Sound, PumpLock
    <3>2. ForgetPump(s) \in Sound
      BY <3>1, AsideSound DEF ForgetPump
    <3> QED BY <3>2, CloserShutSound
  <2> QED BY <1>23, <2>1, <2>2, <2>3, <2>4 DEF CloserStep, CloserStart, CloserPlayStopped,
       CloserDone
<1> QED BY <1>3, <1>4, <1>5, <1>6, <1>7, <1>8, <1>9, <1>10, <1>11, <1>12, <1>13, <1>14,
       <1>15, <1>16, <1>17, <1>18, <1>19, <1>20, <1>21, <1>22, <1>23
     DEF LoopStep, DescribeEnds, PumpStep

-----------------------------------------------------------------------------
ConnOK == conn \in [Conns -> Sound] /\ server \in {"up", "stopping", "stopped"}

LEMMA InitConnOK == Init => ConnOK
<1>1. Absent \in Connection
  BY DEF Absent, Connection, LoopStates, Thens, CloserStates, PumpStates
<1>2. Absent \in Sound
  BY <1>1 DEF Absent, Sound, OwnSocket, LoopLock, PumpLock
<1> QED BY <1>2 DEF Init, ConnOK

LEMMA StepConnOK == ConnOK /\ [Next]_vars => ConnOK'
<1> SUFFICES ASSUME ConnOK, [Next]_vars PROVE ConnOK'
  OBVIOUS
<1>1. CASE \E c \in Conns :
             \/ Accept(c) \/ Request(c) \/ Describe(c) \/ ReadFails(c) \/ LoopStep(c)
             \/ DescribeEnds(c) \/ PumpFrame(c) \/ PumpCrash(c) \/ PumpStep(c) \/ Stall(c)
             \/ ClientLost(c) \/ SocketCloses(c) \/ CloserStep(c)
  <2>1. PICK c \in Conns : \E r \in Sound : Become(c, r)
    BY <1>1, ConnectionStep DEF ConnOK
  <2>2. PICK r \in Sound : Become(c, r)
    BY <2>1
  <2> QED BY <2>2 DEF ConnOK, Become
<1>2. CASE StopBegin
  <2>1. \A c \in Conns : conn[c] \in Sound /\ [conn[c] EXCEPT !.closer = "scheduled"] \in Sound
    BY AsideSound DEF ConnOK, CloserStates
  <2> QED BY <1>2, <2>1 DEF StopBegin, ConnOK
<1>3. CASE StopEnd \/ Ended \/ UNCHANGED vars
  BY <1>3 DEF StopEnd, Ended, vars, ConnOK
<1> QED BY <1>1, <1>2, <1>3 DEF Next, Client

\* Every connection keeps to Sound, whoever acts on it.
THEOREM ConnectionsSound == Spec => []ConnOK
BY InitConnOK, StepConnOK, PTL DEF Spec

LEMMA ConnOKType == ConnOK => TypeOK
BY DEF ConnOK, TypeOK, Sound

\* The state of every connection is one the code can be in: in particular no more
\* than two UDP sockets are ever bound for one, however often SETUP is repeated.
THEOREM ServerTyped == Spec => []TypeOK
BY ConnectionsSound, ConnOKType, PTL

LEMMA ConnOKLock == ConnOK => LockHeld
BY DEF ConnOK, LockHeld, Sound, LoopLock, PumpLock, Connection

\* Whatever request loop, pump, cancellations and stop() do to a connection, its
\* write lock has one holder, and that holder is going to release it.
THEOREM WriteLockHeld == Spec => []LockHeld
BY ConnectionsSound, ConnOKLock, PTL

LEMMA ConnOKSockets == ConnOK => SocketsOwned
BY DEF ConnOK, SocketsOwned, Sound, OwnSocket, Unbound

\* No UDP socket is leaked: a connection knows the one it has bound, and has none
\* once it is gone.
THEOREM NoSocketLeaks == Spec => []SocketsOwned
BY ConnectionsSound, ConnOKSockets, PTL

-----------------------------------------------------------------------------
(* The flood guard.  Only _client adds a connection to _conns.               *)

Outside == {"absent", "accepted", "gone"}

LEMMA StaysOutside ==
  ASSUME ConnOK, NEW c \in Conns, conn[c].loop \in Outside,
         \/ Accept(c) \/ Request(c) \/ Describe(c) \/ ReadFails(c)
         \/ LoopStep(c) /\ ~ClientStart(c)
         \/ DescribeEnds(c) \/ PumpFrame(c) \/ PumpCrash(c) \/ PumpStep(c) \/ Stall(c)
         \/ ClientLost(c) \/ SocketCloses(c) \/ CloserStep(c)
  PROVE  \E r : Become(c, r) /\ r.loop \in Outside
<1> DEFINE s == conn[c]
<1>1. s \in Connection /\ s.loop \in Outside
  BY DEF ConnOK, Sound
<1>2. /\ ~Request(c) /\ ~Describe(c) /\ ~ReadFails(c) /\ ~DescribeEnds(c)
      /\ ~(LoopStep(c) /\ ~ClientStart(c))
  BY <1>1 DEF Outside, Request, Reads, Plain, Malformed, SetupRefused, SetupTcp,
     SetupUnsupported, SetupUdp, Play, TeardownRequest, Describe, ReadFails, DescribeEnds,
     DescribeDone, SdpFails, LoopStep, Bound, BindFails, LoopGetsLock, Drained, DrainFails,
     PlayStopped, Gone
<1>3. CASE Accept(c)
  <2>1. [s EXCEPT !.loop = "accepted", !.sock = "open"].loop = "accepted"
    BY <1>1 DEF Connection
  <2> QED BY <1>3, <2>1 DEF Accept, Outside
<1>4. \A q \in Connection : /\ PumpReleases(q).loop = q.loop /\ PumpFinally(q).loop = q.loop
                            /\ CloseWriter(q).loop = q.loop /\ CloserShut(q).loop = q.loop
  BY DEF PumpReleases, PumpFinally, CloseWriter, CloserShut, ReleaseTransport, Connection
<1>5. CloseWriter(s) \in Connection /\ ForgetPump(s) \in Connection /\ ForgetPump(s).loop = s.loop
  <2>1. CloseWriter(s) \in Connection
    BY CloseWriterSound DEF ConnOK, Sound
  <2>2. ForgetPump(s) \in Connection
    BY <1>1, FieldTypes DEF ForgetPump, PumpStates
  <2> QED BY <1>1, <2>1, <2>2 DEF ForgetPump, Connection
<1>6. CASE PumpFrame(c) \/ PumpCrash(c)
  <2>1. \A p, l : /\ [s EXCEPT !.pump = p, !.lock = l].loop = s.loop
                  /\ [s EXCEPT !.pump = p].loop = s.loop
    BY <1>1 DEF Connection
  <2>2. PICK p, l : Become(c, [s EXCEPT !.pump = p, !.lock = l]) \/ Become(c, [s EXCEPT !.pump = p])
    BY <1>6 DEF PumpFrame, PumpCrash, Crashed
  <2> QED BY <1>1, <2>1, <2>2
<1>7. CASE PumpStart(c) \/ PumpGetsLock(c)
  <2>1. \A p : [s EXCEPT !.pump = p].loop = s.loop
    BY <1>1 DEF Connection
  <2> QED BY <1>1, <1>7, <2>1 DEF PumpStart, PumpGetsLock
<1>8. CASE PumpDrained(c)
  <2>1. [PumpReleases(s) EXCEPT !.pump = "waiting"].loop = s.loop
    BY <1>1 DEF PumpReleases, Connection
  <2>2. Crashed(PumpReleases(s)).loop = s.loop
    BY <1>1 DEF Crashed, PumpReleases, Connection
  <2> QED BY <1>1, <1>4, <1>8, <2>1, <2>2 DEF PumpDrained
<1>9. CASE PumpErring(c)
  BY <1>1, <1>4, <1>5, <1>9 DEF PumpErring
<1>10. CASE PumpCancelled(c)
  <2>1. [s EXCEPT !.pump = "done", !.cancelled = FALSE].loop = s.loop
    BY <1>1 DEF Connection
  <2> QED BY <1>1, <1>4, <1>10, <2>1 DEF PumpCancelled
<1>11. CASE Stall(c) \/ ClientLost(c) \/ SocketCloses(c)
  BY <1>1, <1>11 DEF Stall, ClientLost, SocketCloses, Connection
<1>12. CASE CloserStep(c)
  <2>1. [CancelPump(s) EXCEPT !.closer = "stop_play"].loop = s.loop
    BY <1>1 DEF CancelPump, Connection
  <2>2. [s EXCEPT !.closer = "done"].loop = s.loop
    BY <1>1 DEF Connection
  <2>3. CloserShut(ForgetPump(s)).loop = s.loop /\ CloserShut(s).loop = s.loop
    BY <1>1, <1>4, <1>5
  <2> QED BY <1>1, <1>12, <2>1, <2>2, <2>3 DEF CloserStep, CloserStart, CloserPlayStopped,
       CloserDone
<1> QED BY <1>2, <1>3, <1>6, <1>7, <1>8, <1>9, <1>10, <1>11, <1>12 DEF PumpStep

Limited == IsFiniteSet(Known) /\ Cardinality(Known) <= MaxConnections

LEMMA InitLimited == Init => Limited
<1> SUFFICES ASSUME Init PROVE Limited
  OBVIOUS
<1>1. Known = {}
  BY DEF Init, Known, Absent
<1> QED BY <1>1, FS_EmptySet, ConnsAssumption DEF Limited

LEMMA SubsetLimited ==
  ASSUME Limited, Known' \subseteq Known
  PROVE  Limited'
<1>1. /\ IsFiniteSet(Known') /\ Cardinality(Known') <= Cardinality(Known)
      /\ Cardinality(Known) \in Nat /\ Cardinality(Known') \in Nat
  BY FS_Subset, FS_CardinalityType DEF Limited
<1> QED BY <1>1, ConnsAssumption DEF Limited

LEMMA StepLimited == ConnOK /\ Limited /\ [Next]_vars => Limited'
<1> SUFFICES ASSUME ConnOK, Limited, [Next]_vars PROVE Limited'
  OBVIOUS
<1>1. ASSUME NEW c \in Conns, NEW r, Become(c, r), r.loop \in Outside \/ conn[c].loop \notin Outside
      PROVE  Limited'
  <2>1. Known' \subseteq Known
    BY <1>1 DEF Known, Become, Outside, ConnOK
  <2> QED BY <2>1, SubsetLimited
<1>2. ASSUME NEW c \in Conns, ClientStart(c) PROVE Limited'
  <2>1. CASE Full
    <3>1. [CloseWriter(conn[c]) EXCEPT !.loop = "gone"].loop \in Outside
      BY DEF CloseWriter, Outside, ConnOK, Sound, Connection
    <3> QED BY <1>1, <1>2, <2>1, <3>1 DEF ClientStart
  <2>2. CASE ~Full
    <3>1. Known' \subseteq Known \cup {c}
      BY <1>2, <2>2 DEF ClientStart, Become, Known, ConnOK
    <3>2. c \notin Known
      BY <1>2 DEF ClientStart, Known
    <3>3. /\ IsFiniteSet(Known \cup {c})
          /\ Cardinality(Known \cup {c}) = Cardinality(Known) + 1
      BY <3>2, FS_AddElement DEF Limited
    <3>4. /\ IsFiniteSet(Known') /\ Cardinality(Known') <= Cardinality(Known) + 1
          /\ Cardinality(Known) \in Nat /\ Cardinality(Known') \in Nat
      BY <3>1, <3>3, FS_Subset, FS_CardinalityType DEF Limited
    <3> QED BY <2>2, <3>4, ConnsAssumption DEF Full, Limited
  <2> QED BY <2>1, <2>2
<1>3. ASSUME NEW c \in Conns,
             \/ Accept(c) \/ Request(c) \/ Describe(c) \/ ReadFails(c)
             \/ LoopStep(c) /\ ~ClientStart(c)
             \/ DescribeEnds(c) \/ PumpFrame(c) \/ PumpCrash(c) \/ PumpStep(c) \/ Stall(c)
             \/ ClientLost(c) \/ SocketCloses(c) \/ CloserStep(c)
      PROVE  Limited'
  <2>1. \E r \in Sound : Become(c, r)
    BY <1>3, ConnectionStep DEF ConnOK
  <2> QED BY <1>1, <1>3, <2>1, StaysOutside
<1>4. CASE StopBegin
  <2>1. Known' \subseteq Known
    BY <1>4 DEF StopBegin, Known, ConnOK, Sound, Connection
  <2> QED BY <2>1, SubsetLimited
<1>5. CASE StopEnd \/ Ended \/ UNCHANGED vars
  BY <1>5, SubsetLimited DEF StopEnd, Ended, vars, Known
<1> QED BY <1>2, <1>3, <1>4, <1>5 DEF Next, Client

\* The flood guard holds for every limit and any number of clients: _client tests
\* the size of _conns and adds to it without an await between.
THEOREM FloodGuard == Spec => []AtMostMax
<1>1. Spec => []ConnOK
  BY ConnectionsSound
<1>2. Limited => AtMostMax
  BY DEF Limited, AtMostMax
<1> QED BY <1>1, <1>2, InitLimited, StepLimited, PTL DEF Spec
=============================================================================
