----------------------------- MODULE PumpProofs -----------------------------
(***************************************************************************)
(* Proofs about the media pump of RtspServer: that what is subscribed is   *)
(* drained, that a pump has its transport, and that a dead pump's          *)
(* connection is on its way out, for any number of connections.            *)
(***************************************************************************)
EXTENDS RtspProofs

-----------------------------------------------------------------------------
(* The invariant of one connection; the lock plays no part in it.            *)

\* a pump is cancelled only by someone who then waits for it, and is dead on an
\* open socket only if somebody is about to close that
Wary(s) ==
  /\ s.loop \in {"absent", "accepted"} => s.pump = "none"
  /\ s.cancelled => ~PumpOver(s)
  /\ s.cancelled /\ s.closer = "none" => s.loop \in {"stop_play", "close_play"}
  /\ s.pump = "done" /\ s.closer = "none"
       /\ s.loop \in {"idle", "describing", "binding", "send", "drain"} => s.sock # "open"
  /\ s.then # "next" => s.loop \in {"send", "drain"}

\* before stop(): a pump that runs, or that the response being sent announces, has
\* a stream and a transport
Playing(s) ==
  /\ s.closer = "none"
  /\ s.then = "play" \/ ~PumpOver(s) => s.stream /\ (s.tcp \/ s.udp)

\* and, where a new pump starts before the next request is read, whatever is
\* registered with the hub has a pump that will run its finally
Registered(s) ==
  /\ s.registered # {} => s.registered = {"own"} /\ ~PumpOver(s)
  /\ s.pump = "unstarted" => s.loop = "idle" /\ ~s.cancelled

Tidy(s, up) == Wary(s) /\ (up => Playing(s) /\ (Python311 => Registered(s)))

-----------------------------------------------------------------------------
(* What each piece of a handler leaves alone.                                *)

SamePump(r, s) == r.pump = s.pump /\ r.cancelled = s.cancelled /\ r.registered = s.registered
SameTransport(r, s) == r.stream = s.stream /\ r.tcp = s.tcp /\ r.udp = s.udp
SameLoop(r, s) == r.loop = s.loop /\ r.then = s.then /\ r.closer = s.closer

LEMMA RespondFields ==
  ASSUME NEW s \in Connection, NEW k
  PROVE  LET r == Respond(s, k)
         IN /\ r.loop \in {"send", "drain"} /\ r.then = k /\ r.closer = s.closer
            /\ r.sock = s.sock /\ SamePump(r, s) /\ SameTransport(r, s)
BY DEF Respond, Connection, SamePump, SameTransport

LEMMA ReleaseFields ==
  ASSUME NEW s \in Connection
  PROVE  LET r == ReleaseTransport(s)
         IN /\ SameLoop(r, s) /\ SamePump(r, s) /\ r.sock = s.sock
            /\ r.stream = s.stream /\ ~r.tcp /\ ~r.udp
BY DEF ReleaseTransport, Connection, SamePump, SameLoop

LEMMA CancelFields ==
  ASSUME NEW s \in Connection
  PROVE  LET r == CancelPump(s)
         IN /\ SameLoop(r, s) /\ SameTransport(r, s) /\ r.sock = s.sock /\ r.pump = s.pump
            /\ r.registered = s.registered /\ r.cancelled = ~PumpOver(s)
BY DEF CancelPump, Connection, SameTransport, SameLoop, PumpOver

LEMMA ForgetFields ==
  ASSUME NEW s \in Connection
  PROVE  LET r == ForgetPump(s)
         IN /\ SameLoop(r, s) /\ SameTransport(r, s) /\ r.sock = s.sock /\ r.pump = "none"
            /\ r.registered = s.registered /\ r.cancelled = FALSE
BY DEF ForgetPump, Connection, SameTransport, SameLoop

LEMMA CloseWriterFields ==
  ASSUME NEW s \in Connection
  PROVE  LET r == CloseWriter(s)
         IN SameLoop(r, s) /\ SamePump(r, s) /\ SameTransport(r, s) /\ r.sock # "open"
BY DEF CloseWriter, Connection, SamePump, SameTransport, SameLoop

LEMMA LoopReleasesFields ==
  ASSUME NEW s \in Connection
  PROVE  LET r == LoopReleases(s)
         IN SameLoop(r, s) /\ SamePump(r, s) /\ SameTransport(r, s) /\ r.sock = s.sock
BY DEF LoopReleases, Connection, SamePump, SameTransport, SameLoop

LEMMA PumpReleasesFields ==
  ASSUME NEW s \in Connection
  PROVE  LET r == [PumpReleases(s) EXCEPT !.pump = "waiting"]
         IN /\ SameLoop(r, s) /\ SameTransport(r, s) /\ r.sock = s.sock /\ r.pump = "waiting"
            /\ r.registered = s.registered /\ r.cancelled = s.cancelled
BY DEF PumpReleases, Connection, SameTransport, SameLoop

LEMMA CrashedFields ==
  ASSUME NEW s \in Connection
  PROVE  LET r == Crashed(PumpReleases(s))
         IN /\ SameLoop(r, s) /\ SameTransport(r, s) /\ r.sock = s.sock /\ r.pump = "erring"
            /\ r.registered = s.registered /\ r.cancelled = s.cancelled
BY DEF Crashed, PumpReleases, Connection, SameTransport, SameLoop

LEMMA PumpFinallyFields ==
  ASSUME NEW s \in Connection
  PROVE  LET r == PumpFinally(s)
         IN /\ SameLoop(r, s) /\ SameTransport(r, s) /\ r.sock = s.sock
            /\ r.pump = "done" /\ r.cancelled = FALSE
            /\ r.registered = IF s.stream THEN s.registered \ {"own"} ELSE s.registered
BY DEF PumpFinally, PumpReleases, Connection, SameTransport, SameLoop

LEMMA LoopShutFields ==
  ASSUME NEW s \in Free
  PROVE  LET r == LoopShut(s)
         IN r.loop = "wait_closed" /\ r.then = s.then /\ r.closer = s.closer /\ SamePump(r, s)
<1> DEFINE q == ReleaseTransport(s)
           r == CloseWriter(q)
<1>1. s \in Connection /\ q \in Connection /\ r \in Connection
  BY ReleaseFree, CloseWriterFree DEF Free
<1>2. SameLoop(q, s) /\ SamePump(q, s)
  BY <1>1, ReleaseFields
<1>3. SameLoop(r, q) /\ SamePump(r, q)
  BY <1>1, CloseWriterFields
<1>4. r.then = s.then /\ r.closer = s.closer /\ SamePump(r, s)
  BY <1>2, <1>3 DEF SameLoop, SamePump
<1> HIDE DEF r
<1> QED BY <1>1, <1>4 DEF LoopShut, Connection, SamePump, r

LEMMA TornDownFields ==
  ASSUME NEW s \in Free
  PROVE  LET r == TornDown(s)
         IN /\ r.loop = "idle" /\ r.then = s.then /\ r.closer = s.closer /\ SamePump(r, s)
            /\ r.sock = s.sock
<1> DEFINE r == ReleaseTransport(s)
<1>1. r \in Connection
  BY ReleaseFree DEF Free
<1>2. SameLoop(r, s) /\ SamePump(r, s) /\ r.sock = s.sock
  BY ReleaseFields DEF Free
<1> HIDE DEF r
<1> QED BY <1>1, <1>2 DEF TornDown, Connection, SamePump, SameLoop, r

\* a SETUP that is looked at, up to its transport
LEMMA ResetupFields ==
  ASSUME NEW s \in Free
  PROVE  LET r == Resetup(s)
         IN SameLoop(r, s) /\ SamePump(r, s) /\ r.sock = s.sock
<1> DEFINE r == ReleaseTransport(s)
<1>1. r \in Connection
  BY ReleaseFree DEF Free
<1>2. SameLoop(r, s) /\ SamePump(r, s) /\ r.sock = s.sock
  BY ReleaseFields DEF Free
<1> HIDE DEF r
<1> QED BY <1>1, <1>2 DEF Resetup, Connection, SamePump, SameLoop, r

-----------------------------------------------------------------------------
(* The pieces keep the invariant.                                            *)

LEMMA RespondTidy ==
  ASSUME NEW s \in Connection, NEW up \in BOOLEAN, Tidy(s, up), NEW k \in Thens,
         s.loop \in {"idle", "describing", "binding", "drain"},
         up /\ Python311 => s.pump # "unstarted",
         k = "play" => s.stream /\ (s.tcp \/ s.udp)
  PROVE  Tidy(Respond(s, k), up)
<1> DEFINE r == Respond(s, k)
<1>1. /\ r.loop \in {"send", "drain"} /\ r.then = k /\ r.closer = s.closer
      /\ r.sock = s.sock /\ SamePump(r, s) /\ SameTransport(r, s)
  BY RespondFields
<1> HIDE DEF r
<1>2. Wary(r)
  BY <1>1 DEF Tidy, Wary, SamePump, PumpOver
<1>3. ASSUME up PROVE Playing(r)
  BY <1>1, <1>3 DEF Tidy, Playing, SamePump, SameTransport, PumpOver
<1>4. ASSUME up, Python311 PROVE Registered(r)
  BY <1>1, <1>4 DEF Tidy, Registered, SamePump, PumpOver
<1> QED BY <1>2, <1>3, <1>4 DEF Tidy, r

LEMMA LoopCloseTidy ==
  ASSUME NEW s \in Free, NEW up \in BOOLEAN, Tidy(s, up), s.then = "next",
         up /\ Python311 => s.pump # "unstarted"
  PROVE  Tidy(LoopClose(s), up)
<1>1. CASE s.pump = "none"
  <2> DEFINE r == LoopShut(s)
  <2>1. r.loop = "wait_closed" /\ r.then = s.then /\ r.closer = s.closer /\ SamePump(r, s)
    BY LoopShutFields
  <2> HIDE DEF r
  <2>2. Tidy(r, up)
    BY <1>1, <2>1 DEF Tidy, Wary, Playing, Registered, SamePump, PumpOver
  <2> QED BY <1>1, <2>2 DEF LoopClose, r
<1>2. CASE s.pump # "none"
  <2> DEFINE q == CancelPump(s)
             r == [q EXCEPT !.loop = "close_play"]
  <2>1. /\ SameLoop(q, s) /\ SameTransport(q, s) /\ q.sock = s.sock /\ q.pump = s.pump
        /\ q.registered = s.registered /\ q.cancelled = ~PumpOver(s)
    BY CancelFields DEF Free
  <2>2. q \in Connection
    BY CancelFree DEF Free
  <2> HIDE DEF q
  <2>3. /\ r.loop = "close_play" /\ r.then = s.then /\ r.closer = s.closer
        /\ SameTransport(r, s) /\ r.sock = s.sock /\ r.pump = s.pump
        /\ r.registered = s.registered /\ r.cancelled = ~PumpOver(s)
    BY <2>1, <2>2 DEF Connection, SameLoop, SameTransport
  <2> HIDE DEF r
  <2>4. Wary(r)
    BY <2>3 DEF Wary, PumpOver
  <2>5. ASSUME up PROVE Playing(r)
    BY <2>3, <2>5 DEF Tidy, Playing, SameTransport, PumpOver
  <2>6. ASSUME up, Python311 PROVE Registered(r)
    BY <2>3, <2>6 DEF Tidy, Registered, PumpOver
  <2> QED BY <1>2, <2>4, <2>5, <2>6 DEF LoopClose, Tidy, q, r
<1> QED BY <1>1, <1>2

LEMMA TornDownTidy ==
  ASSUME NEW s \in Free, NEW up \in BOOLEAN, Tidy(s, up), s.then = "next", s.pump = "none"
  PROVE  Tidy(TornDown(s), up)
<1> DEFINE r == TornDown(s)
<1>1. /\ r.loop = "idle" /\ r.then = s.then /\ r.closer = s.closer /\ SamePump(r, s)
      /\ r.sock = s.sock
  BY TornDownFields
<1> HIDE DEF r
<1>2. Tidy(r, up)
  BY <1>1 DEF Tidy, Wary, Playing, Registered, SamePump, PumpOver
<1> QED BY <1>2 DEF r

LEMMA TeardownTidy ==
  ASSUME NEW s \in Free, NEW up \in BOOLEAN, Tidy(s, up), s.then = "next", s.loop = "drain"
  PROVE  Tidy(Teardown(s), up)
<1>1. CASE s.pump = "none"
  BY <1>1, TornDownTidy DEF Teardown
<1>2. CASE s.pump # "none"
  <2> DEFINE q == CancelPump(s)
             r == [q EXCEPT !.loop = "stop_play"]
  <2>1. /\ SameLoop(q, s) /\ SameTransport(q, s) /\ q.sock = s.sock /\ q.pump = s.pump
        /\ q.registered = s.registered /\ q.cancelled = ~PumpOver(s)
    BY CancelFields DEF Free
  <2>2. q \in Connection
    BY CancelFree DEF Free
  <2> HIDE DEF q
  <2>3. /\ r.loop = "stop_play" /\ r.then = s.then /\ r.closer = s.closer
        /\ SameTransport(r, s) /\ r.sock = s.sock /\ r.pump = s.pump
        /\ r.registered = s.registered /\ r.cancelled = ~PumpOver(s)
    BY <2>1, <2>2 DEF Connection, SameLoop, SameTransport
  <2> HIDE DEF r
  <2>4. Wary(r)
    BY <2>3 DEF Wary, PumpOver
  <2>5. ASSUME up PROVE Playing(r)
    BY <2>3, <2>5 DEF Tidy, Playing, SameTransport, PumpOver
  <2>6. ASSUME up, Python311 PROVE Registered(r)
    BY <2>3, <2>6 DEF Tidy, Registered, PumpOver
  <2> QED BY <1>2, <2>4, <2>5, <2>6 DEF Teardown, Tidy, q, r
<1> QED BY <1>1, <1>2

\* PLAY subscribes and starts a pump in one step, the one before being forgotten
LEMMA StartPlayTidy ==
  ASSUME NEW s \in Connection, NEW up \in BOOLEAN, Tidy(s, up), s.then = "next",
         s.loop = "drain", up => s.stream /\ (s.tcp \/ s.udp)
  PROVE  Tidy(StartPlay(s), up)
<1> DEFINE r == StartPlay(s)
<1>1. /\ r.loop = "idle" /\ r.then = s.then /\ r.closer = s.closer /\ r.sock = s.sock
      /\ SameTransport(r, s) /\ r.cancelled = s.cancelled
      /\ s.pump # "none" => r.pump = s.pump /\ r.registered = s.registered
      /\ s.pump = "none" =>
           /\ r.pump = "unstarted"
           /\ r.registered = IF "own" \in s.registered THEN {"own", "orphan"}
                             ELSE s.registered \cup {"own"}
  BY DEF StartPlay, Connection, SameTransport
<1> HIDE DEF r
<1>2. Wary(r)
  BY <1>1 DEF Tidy, Wary, PumpOver
<1>3. ASSUME up PROVE Playing(r)
  BY <1>1, <1>3 DEF Tidy, Playing, SameTransport, PumpOver
<1>4. ASSUME up, Python311 PROVE Registered(r)
  BY <1>1, <1>4 DEF Tidy, Wary, Registered, PumpOver
<1> QED BY <1>2, <1>3, <1>4 DEF Tidy, r

LEMMA AfterResponseTidy ==
  ASSUME NEW s \in Free, NEW up \in BOOLEAN, Tidy(s, up), s.loop = "drain"
  PROVE  Tidy(AfterResponse(s), up)
<1> DEFINE q == [s EXCEPT !.then = "next"]
<1>1. /\ q.loop = "drain" /\ q.then = "next" /\ q.closer = s.closer /\ q.sock = s.sock
      /\ SamePump(q, s) /\ SameTransport(q, s)
  BY DEF Free, Connection, SamePump, SameTransport
<1>2. q \in Free /\ q \in Connection /\ s.then \in Thens
  BY ThenFree, ZenonT(40) DEF Thens, Free, Connection
<1> HIDE DEF q
<1>3. Tidy(q, up)
  BY <1>1 DEF Tidy, Wary, Playing, Registered, SamePump, SameTransport, PumpOver
<1>4. CASE s.then = "next"
  <2> DEFINE r == [q EXCEPT !.loop = "idle"]
  <2>1. /\ r.loop = "idle" /\ r.then = "next" /\ r.closer = s.closer /\ r.sock = s.sock
        /\ SamePump(r, s) /\ SameTransport(r, s)
    BY <1>1, <1>2 DEF Connection, SamePump, SameTransport
  <2> HIDE DEF r
  <2>2. Tidy(r, up)
    BY <2>1 DEF Tidy, Wary, Playing, Registered, SamePump, SameTransport, PumpOver
  <2> QED BY <1>4, <2>2 DEF AfterResponse, q, r
<1>5. CASE s.then = "play"
  <2>1. up => q.stream /\ (q.tcp \/ q.udp)
    BY <1>1, <1>5 DEF Tidy, Playing, SameTransport
  <2>2. Tidy(StartPlay(q), up)
    BY <1>1, <1>2, <1>3, <2>1, StartPlayTidy
  <2> QED BY <1>5, <2>2 DEF AfterResponse, q
<1>6. CASE s.then = "teardown"
  <2>1. Tidy(Teardown(q), up)
    BY <1>1, <1>2, <1>3, TeardownTidy
  <2> QED BY <1>6, <2>1 DEF AfterResponse, q
<1>7. CASE s.then = "end"
  <2>1. up /\ Python311 => q.pump # "unstarted"
    BY <1>1, <1>3 DEF Tidy, Registered
  <2>2. Tidy(LoopClose(q), up)
    BY <1>1, <1>2, <1>3, <2>1, LoopCloseTidy
  <2> QED BY <1>7, <2>2 DEF AfterResponse, q
<1> QED BY <1>2, <1>4, <1>5, <1>6, <1>7 DEF Thens

\* the finally of _pump unsubscribes whatever is subscribed
LEMMA PumpFinallyTidy ==
  ASSUME NEW s \in Connection, NEW up \in BOOLEAN, Tidy(s, up), ~PumpOver(s),
         s.sock # "open" \/ s.cancelled
  PROVE  Tidy(PumpFinally(s), up)
<1> DEFINE r == PumpFinally(s)
<1>1. /\ SameLoop(r, s) /\ SameTransport(r, s) /\ r.sock = s.sock
      /\ r.pump = "done" /\ r.cancelled = FALSE
      /\ r.registered = IF s.stream THEN s.registered \ {"own"} ELSE s.registered
  BY PumpFinallyFields
<1> HIDE DEF r
<1>2. Wary(r)
  BY <1>1 DEF Tidy, Wary, SameLoop, PumpOver
<1>3. ASSUME up PROVE Playing(r)
  BY <1>1, <1>3 DEF Tidy, Playing, SameLoop, SameTransport, PumpOver
<1>4. ASSUME up, Python311 PROVE Registered(r)
  BY <1>1, <1>4 DEF Tidy, Playing, Registered, SameLoop, PumpOver
<1> QED BY <1>2, <1>3, <1>4 DEF Tidy, r

-----------------------------------------------------------------------------
(* Every step.                                                               *)

LEMMA RequestTidy ==
  ASSUME ConnOK, NEW c \in Conns, Tidy(conn[c], server = "up"), Request(c)
  PROVE  \E r : Become(c, r) /\ Tidy(r, server = "up")
<1> DEFINE s == conn[c]
           up == server = "up"
<1>1. s \in Connection /\ up \in BOOLEAN /\ Tidy(s, up) /\ Reads(c)
  BY DEF ConnOK, Sound, Request, Plain, Malformed, SetupRefused, SetupTcp, SetupUnsupported,
     SetupUdp, Play, TeardownRequest
<1>2. s.loop = "idle" /\ (Python311 => s.pump # "unstarted") /\ s \in Free
  BY <1>1, SoundFree DEF Reads, ConnOK
<1> DEFINE Answered(q, k) == Tidy(Respond(q, k), up)
<1>3. ASSUME NEW k \in Thens, k = "play" => CanPlay(s) PROVE Answered(s, k)
  <2>1. k = "play" => s.stream /\ (s.tcp \/ s.udp)
    BY <1>3 DEF CanPlay
  <2> HIDE DEF s, up
  <2> QED BY <1>1, <1>2, <2>1, RespondTidy
<1>4. CASE Plain(c) \/ Malformed(c) \/ TeardownRequest(c)
  <2>1. Answered(s, "next") /\ Answered(s, "end") /\ Answered(s, "teardown")
    BY <1>3 DEF Thens
  <2> QED BY <1>4, <2>1 DEF Plain, Malformed, TeardownRequest
<1>5. CASE Play(c)
  <2>1. Answered(s, IF CanPlay(s) THEN "play" ELSE "next")
    BY <1>3 DEF Thens
  <2> QED BY <1>5, <2>1 DEF Play
<1>6. CASE SetupRefused(c)
  <2>1. CASE s.pump # "none"
    <3>1. Answered(s, "next")
      BY <1>3 DEF Thens
    <3> QED BY <1>6, <2>1, <3>1 DEF SetupRefused
  <2>2. CASE s.pump = "none"
    <3> DEFINE q == ReleaseTransport(s)
    <3>1. SameLoop(q, s) /\ SamePump(q, s) /\ q.sock = s.sock /\ q \in Connection
      BY <1>1, <1>2, ReleaseFields, ReleaseFree DEF Free
    <3> HIDE DEF q
    <3>2. Tidy(q, up)
      BY <1>1, <1>2, <2>2, <3>1 DEF Tidy, Wary, Playing, Registered, SamePump, SameLoop, PumpOver
    <3>3. q.loop = "idle" /\ q.pump = "none"
      BY <1>2, <2>2, <3>1 DEF SamePump, SameLoop
    <3>4. Answered(q, "next")
      <4> HIDE DEF s, up
      <4> QED BY <1>1, <3>1, <3>2, <3>3, RespondTidy DEF Thens
    <3> QED BY <1>6, <2>2, <3>4 DEF SetupRefused, q
  <2> QED BY <2>1, <2>2
<1>7. CASE SetupTcp(c) \/ SetupUnsupported(c) \/ SetupUdp(c)
  <2> DEFINE q == Resetup(s)
  <2>1. /\ SameLoop(q, s) /\ SamePump(q, s) /\ q.sock = s.sock /\ q \in Connection
        /\ s.pump = "none"
    BY <1>1, <1>2, <1>7, ResetupFields, ResetupFree DEF Free, ConnOK, SetupTcp,
       SetupUnsupported, SetupUdp
  <2> HIDE DEF q
  <2>2. ASSUME NEW p \in Connection, SameLoop(p, q), SamePump(p, q), p.sock = q.sock
        PROVE  Tidy(p, up)
    BY <1>1, <1>2, <2>1, <2>2 DEF Tidy, Wary, Playing, Registered, SamePump, SameLoop, PumpOver
  <2>3. ASSUME NEW p \in Connection, SameLoop(p, q), SamePump(p, q), p.sock = q.sock
        PROVE  Answered(p, "next")
    <3>1. p.loop = "idle" /\ p.pump = "none" /\ Tidy(p, up)
      BY <1>2, <2>1, <2>2, <2>3 DEF SamePump, SameLoop
    <3> HIDE DEF s, up
    <3> QED BY <1>1, <3>1, RespondTidy DEF Thens
  <2> DEFINE p == [q EXCEPT !.tcp = TRUE]
  <2>4. p \in Connection /\ SameLoop(p, q) /\ SamePump(p, q) /\ p.sock = q.sock
    <3>1. p \in Connection
      BY <2>1, FieldTypes
    <3>2. SameLoop(p, q) /\ SamePump(p, q) /\ p.sock = q.sock
      BY <2>1 DEF Connection, SameLoop, SamePump
    <3> QED BY <3>1, <3>2
  <2> HIDE DEF p
  <2>5. Answered(p, "next") /\ Answered(q, "next")
    BY <2>1, <2>3, <2>4 DEF SameLoop, SamePump
  <2> DEFINE b == [q EXCEPT !.loop = "binding"]
  <2>6. b.loop = "binding" /\ b.then = s.then /\ b.closer = s.closer /\ SamePump(b, s) /\ b.sock = s.sock
    BY <2>1 DEF Connection, SameLoop, SamePump
  <2> HIDE DEF b
  <2>7. Tidy(b, up)
    BY <1>1, <1>2, <2>1, <2>6 DEF Tidy, Wary, Playing, Registered, SamePump, PumpOver
  <2> QED BY <1>7, <2>5, <2>7 DEF SetupTcp, SetupUnsupported, SetupUdp, q, p, b
<1> QED BY <1>4, <1>5, <1>6, <1>7 DEF Request

LEMMA LoopStepTidy ==
  ASSUME ConnOK, NEW c \in Conns, Tidy(conn[c], server = "up"),
         Accept(c) \/ Describe(c) \/ ReadFails(c) \/ LoopStep(c) \/ DescribeEnds(c)
  PROVE  \E r : Become(c, r) /\ Tidy(r, server = "up")
<1> DEFINE s == conn[c]
           up == server = "up"
<1>1. s \in Connection /\ s \in Sound /\ up \in BOOLEAN /\ Tidy(s, up)
  BY DEF ConnOK, Sound
\* a move of the request loop that touches nothing else
<1>2. ASSUME NEW l, s.loop \notin {"send", "drain"}, s.pump = "none" \/
             (s.loop = "idle" /\ l = "describing" /\ (Python311 => s.pump # "unstarted")) \/
             (s.loop = "wait_closed" /\ l = "gone")
      PROVE  Tidy([s EXCEPT !.loop = l], up)
  <2> DEFINE r == [s EXCEPT !.loop = l]
  <2>1. /\ r.loop = l /\ r.then = s.then /\ r.closer = s.closer /\ r.sock = s.sock
        /\ SamePump(r, s) /\ SameTransport(r, s)
    BY <1>1 DEF Connection, SamePump, SameTransport
  <2> HIDE DEF r
  <2>2. Wary(r)
    BY <1>1, <1>2, <2>1 DEF Tidy, Wary, SamePump, PumpOver
  <2>3. ASSUME up PROVE Playing(r)
    BY <1>1, <2>1, <2>3 DEF Tidy, Wary, Playing, SamePump, SameTransport, PumpOver
  <2>4. ASSUME up, Python311 PROVE Registered(r)
    BY <1>1, <1>2, <2>1, <2>4 DEF Tidy, Registered, SamePump, PumpOver
  <2> QED BY <2>2, <2>3, <2>4 DEF Tidy, r
<1>3. CASE Accept(c)
  <2> DEFINE r == [s EXCEPT !.loop = "accepted", !.sock = "open"]
  <2>1. /\ r.loop = "accepted" /\ r.then = s.then /\ r.closer = s.closer
        /\ SamePump(r, s) /\ SameTransport(r, s) /\ s.loop = "absent"
    BY <1>1, <1>3 DEF Accept, Connection, SamePump, SameTransport
  <2> HIDE DEF r
  <2>2. Tidy(r, up)
    BY <1>1, <2>1 DEF Tidy, Wary, Playing, Registered, SamePump, SameTransport, PumpOver
  <2> QED BY <1>3, <2>2 DEF Accept, r
<1>4. CASE Describe(c)
  <2>1. Tidy([s EXCEPT !.loop = "describing"], up)
    BY <1>2, <1>4 DEF Describe, Reads
  <2> QED BY <1>4, <2>1 DEF Describe
<1>5. CASE ReadFails(c) \/ SdpFails(c) \/ BindFails(c)
  <2>1. s.loop \in {"idle", "describing", "binding"} /\ (up /\ Python311 => s.pump # "unstarted")
    BY <1>1, <1>5 DEF ReadFails, SdpFails, BindFails, Reads, Tidy, Registered
  <2>2. s.then = "next" /\ s \in Free
    BY <1>1, <2>1, SoundFree DEF Tidy, Wary
  <2>3. Tidy(LoopClose(s), up)
    BY <1>1, <2>1, <2>2, LoopCloseTidy
  <2> QED BY <1>5, <2>3 DEF ReadFails, SdpFails, BindFails
<1>6. CASE DescribeDone(c)
  <2>1. Tidy(s, up) /\ s.loop = "describing"
    BY <1>1, <1>6 DEF DescribeDone
  <2>2. CASE up /\ Python311 => s.pump # "unstarted"
    <3>1. Tidy(Respond(s, "next"), up)
      <4> HIDE DEF s, up
      <4> QED BY <1>1, <2>1, <2>2, RespondTidy DEF Thens
    <3> QED BY <1>6, <3>1 DEF DescribeDone
  <2> QED BY <2>1, <2>2 DEF Tidy, Registered
<1>7. CASE ClientStart(c)
  <2>1. s.pump = "none" /\ s.loop = "accepted"
    BY <1>1, <1>7 DEF ClientStart, Tidy, Wary
  <2>2. Tidy([s EXCEPT !.loop = "idle"], up)
    BY <1>2, <2>1
  <2> DEFINE q == CloseWriter(s)
             r == [q EXCEPT !.loop = "gone"]
  <2>3. SameLoop(q, s) /\ SamePump(q, s) /\ SameTransport(q, s) /\ q \in Connection
    BY <1>1, CloseWriterFields, CloseWriterSound DEF Sound
  <2> HIDE DEF q
  <2>4. /\ r.loop = "gone" /\ r.then = s.then /\ r.closer = s.closer
        /\ SamePump(r, s) /\ SameTransport(r, s)
    BY <2>3 DEF Connection, SameLoop, SamePump, SameTransport
  <2> HIDE DEF r
  <2>5. Tidy(r, up)
    BY <1>1, <2>1, <2>4 DEF Tidy, Wary, Playing, Registered, SamePump, SameTransport, PumpOver
  <2> QED BY <1>7, <2>2, <2>5 DEF ClientStart, q, r
<1>8. CASE Bound(c)
  <2> DEFINE q == [s EXCEPT !.udp = TRUE, !.sockets = @ + 1]
  <2>1. /\ SameLoop(q, s) /\ SamePump(q, s) /\ q.sock = s.sock /\ q.stream = s.stream
        /\ q.udp /\ s.loop = "binding"
    BY <1>1, <1>8 DEF Bound, Connection, SameLoop, SamePump
  <2>2. q \in Connection
    <3>1. s.sockets = 0
      BY <1>1, <2>1 DEF Sound, OwnSocket, Unbound
    <3>2. q = [[s EXCEPT !.udp = TRUE] EXCEPT !.sockets = 1]
      BY <1>1, <3>1 DEF Connection
    <3> DEFINE p == [s EXCEPT !.udp = TRUE]
    <3>3. p \in Connection
      BY <1>1, FieldTypes
    <3> HIDE DEF p
    <3>4. [p EXCEPT !.sockets = 1] \in Connection
      BY <3>3 DEF Connection
    <3> QED BY <3>2, <3>4 DEF p
  <2> HIDE DEF q
  <2>3. Tidy(q, up)
    BY <1>1, <2>1 DEF Tidy, Wary, Playing, Registered, SamePump, SameLoop, PumpOver
  <2>4. q.loop = "binding" /\ (up /\ Python311 => q.pump # "unstarted")
    BY <2>1, <2>3 DEF Tidy, Registered, SameLoop
  <2>5. Tidy(Respond(q, "next"), up)
    <3> HIDE DEF s, up
    <3> QED BY <1>1, <2>2, <2>3, <2>4, RespondTidy DEF Thens
  <2> QED BY <1>8, <2>5 DEF Bound, q
<1>9. CASE LoopGetsLock(c)
  <2> DEFINE r == [s EXCEPT !.loop = "drain"]
  <2>1. /\ r.loop = "drain" /\ r.then = s.then /\ r.closer = s.closer /\ r.sock = s.sock
        /\ SamePump(r, s) /\ SameTransport(r, s) /\ s.loop = "send"
    BY <1>1, <1>9 DEF LoopGetsLock, Connection, SamePump, SameTransport
  <2> HIDE DEF r
  <2>2. Tidy(r, up)
    BY <1>1, <2>1 DEF Tidy, Wary, Playing, Registered, SamePump, SameTransport, PumpOver
  <2> QED BY <1>9, <2>2 DEF LoopGetsLock, r
<1>10. ASSUME s.loop = "drain"
       PROVE  /\ LoopReleases(s) \in Free /\ Tidy(LoopReleases(s), up)
              /\ LoopReleases(s).loop = "drain"
  <2> DEFINE q == LoopReleases(s)
  <2>1. SameLoop(q, s) /\ SamePump(q, s) /\ SameTransport(q, s) /\ q.sock = s.sock /\ q \in Free
    BY <1>1, <1>10, LoopReleasesFields, LoopReleasesFree
  <2> HIDE DEF q
  <2>2. Tidy(q, up) /\ q.loop = "drain"
    BY <1>1, <1>10, <2>1 DEF Tidy, Wary, Playing, Registered, SamePump, SameLoop, SameTransport, PumpOver
  <2> QED BY <2>1, <2>2 DEF q
<1>11. CASE Drained(c)
  <2>1. Tidy(AfterResponse(LoopReleases(s)), up)
    BY <1>1, <1>10, <1>11, AfterResponseTidy DEF Drained
  <2> QED BY <1>11, <2>1 DEF Drained
<1>12. CASE DrainFails(c)
  <2> DEFINE q == LoopReleases(s)
             r == [q EXCEPT !.then = "next"]
  <2>1. q \in Free /\ Tidy(q, up) /\ q.loop = "drain" /\ q \in Connection
    BY <1>10, <1>12 DEF DrainFails, Free
  <2> HIDE DEF q
  <2>2. r \in Free
    BY <2>1, ThenFree DEF Thens
  <2>3. /\ r.loop = "drain" /\ r.then = "next" /\ r.closer = q.closer /\ r.sock = q.sock
        /\ SamePump(r, q) /\ SameTransport(r, q)
    BY <2>1 DEF Connection, SamePump, SameTransport
  <2> HIDE DEF r
  <2>4. Tidy(r, up) /\ (up /\ Python311 => r.pump # "unstarted")
    BY <2>1, <2>3 DEF Tidy, Wary, Playing, Registered, SamePump, SameTransport, PumpOver
  <2>5. Tidy(LoopClose(r), up)
    BY <1>1, <2>2, <2>3, <2>4, LoopCloseTidy
  <2>6. up /\ Python311 => q.pump # "unstarted"
    BY <2>1 DEF Tidy, Registered
  <2>7. Tidy(Respond(q, "end"), up)
    <3> HIDE DEF s, up
    <3> QED BY <1>1, <2>1, <2>6, RespondTidy DEF Thens
  <2> QED BY <1>12, <2>5, <2>7 DEF DrainFails, q, r
<1>13. CASE PlayStopped(c)
  <2> DEFINE q == ForgetPump(s)
  <2>1. /\ SameLoop(q, s) /\ SameTransport(q, s) /\ q.sock = s.sock /\ q.pump = "none"
        /\ q.registered = s.registered /\ q.cancelled = FALSE
    BY <1>1, ForgetFields
  <2>2. PumpOver(s) /\ s.loop \in {"stop_play", "close_play"}
    BY <1>13 DEF PlayStopped
  <2>3. q \in Free
    BY <1>1, <2>2, SoundFree, ForgetFree
  <2> HIDE DEF q
  <2>4. Tidy(q, up) /\ q.then = "next"
    BY <1>1, <2>1, <2>2 DEF Tidy, Wary, Playing, Registered, SameLoop, SameTransport, PumpOver
  <2>5. Tidy(TornDown(q), up)
    BY <1>1, <2>1, <2>3, <2>4, TornDownTidy
  <2>6. Tidy(LoopShut(q), up)
    <3>1. LoopClose(q) = LoopShut(q)
      BY <2>1 DEF LoopClose
    <3> QED BY <1>1, <2>1, <2>3, <2>4, <3>1, LoopCloseTidy
  <2> QED BY <1>13, <2>5, <2>6 DEF PlayStopped, q
<1>14. CASE Gone(c)
  <2>1. Tidy([s EXCEPT !.loop = "gone"], up)
    BY <1>2, <1>14 DEF Gone
  <2> QED BY <1>14, <2>1 DEF Gone
<1> QED BY <1>3, <1>4, <1>5, <1>6, <1>7, <1>8, <1>9, <1>11, <1>12, <1>13, <1>14
     DEF LoopStep, DescribeEnds

\* a step that only moves the pump forward, without cancelling or ending it
LEMMA PumpMovesTidy ==
  ASSUME NEW s \in Connection, NEW up \in BOOLEAN, Tidy(s, up), ~PumpOver(s),
         NEW r, NEW p \in {"waiting", "lock", "drain", "erring"},
         SameLoop(r, s), SameTransport(r, s), r.sock = s.sock, r.pump = p,
         r.cancelled = s.cancelled, r.registered = s.registered
  PROVE  Tidy(r, up)
<1>1. Wary(r)
  BY DEF Tidy, Wary, SameLoop, PumpOver
<1>2. ASSUME up PROVE Playing(r)
  BY <1>2 DEF Tidy, Playing, SameLoop, SameTransport, PumpOver
<1>3. ASSUME up, Python311 PROVE Registered(r)
  BY <1>3 DEF Tidy, Registered, SameLoop, PumpOver
<1> QED BY <1>1, <1>2, <1>3 DEF Tidy

LEMMA PumpStepTidy ==
  ASSUME ConnOK, NEW c \in Conns, Tidy(conn[c], server = "up"),
         PumpFrame(c) \/ PumpCrash(c) \/ PumpStep(c)
  PROVE  \E r : Become(c, r) /\ Tidy(r, server = "up")
<1> DEFINE s == conn[c]
           up == server = "up"
<1>1. s \in Connection /\ s \in Sound /\ up \in BOOLEAN /\ Tidy(s, up)
  BY DEF ConnOK, Sound
<1>2. CASE PumpStart(c) \/ PumpFrame(c) \/ PumpGetsLock(c) \/ PumpCrash(c)
  <2>1. PICK p \in {"waiting", "lock", "drain", "erring"}, l \in {"free", "loop", "pump"} :
          Become(c, [s EXCEPT !.pump = p, !.lock = l])
    <3>1. \A p : [s EXCEPT !.pump = p] = [s EXCEPT !.pump = p, !.lock = s.lock]
      BY <1>1 DEF Connection
    <3>2. \E p \in {"waiting", "lock", "drain", "erring"}, l \in {"free", "loop", "pump"} :
            \/ Become(c, [s EXCEPT !.pump = p, !.lock = l])
            \/ Become(c, [s EXCEPT !.pump = p])
      BY <1>2 DEF PumpStart, PumpFrame, PumpGetsLock, PumpCrash, Crashed
    <3>3. s.lock \in {"free", "loop", "pump"}
      BY <1>1 DEF Connection
    <3> QED BY <3>1, <3>2, <3>3
  <2>2. ~PumpOver(s)
    BY <1>2 DEF PumpStart, PumpFrame, PumpGetsLock, PumpCrash, PumpOver
  <2> DEFINE r == [s EXCEPT !.pump = p, !.lock = l]
  <2>3. /\ SameLoop(r, s) /\ SameTransport(r, s) /\ r.sock = s.sock /\ r.pump = p
        /\ r.cancelled = s.cancelled /\ r.registered = s.registered
    BY <1>1 DEF Connection, SameLoop, SameTransport
  <2>4. Tidy(r, up)
    <3> HIDE DEF s, up, r
    <3> QED BY <1>1, <2>2, <2>3, PumpMovesTidy
  <2> QED BY <2>1, <2>4
<1>3. CASE PumpDrained(c)
  <2>1. ~PumpOver(s)
    BY <1>3 DEF PumpDrained, PumpOver
  <2>2. Tidy([PumpReleases(s) EXCEPT !.pump = "waiting"], up)
    <3> HIDE DEF s, up
    <3> QED BY <1>1, <2>1, PumpReleasesFields, PumpMovesTidy
  <2>3. ASSUME Broken(s) PROVE Tidy(PumpFinally(s), up)
    <3>1. s.sock # "open"
      BY <2>3 DEF Broken
    <3> HIDE DEF s, up
    <3> QED BY <1>1, <2>1, <3>1, PumpFinallyTidy
  <2>4. Tidy(Crashed(PumpReleases(s)), up)
    <3> HIDE DEF s, up
    <3> QED BY <1>1, <2>1, CrashedFields, PumpMovesTidy
  <2> QED BY <1>3, <2>2, <2>3, <2>4 DEF PumpDrained
<1>4. CASE PumpErring(c)
  <2> DEFINE q == CloseWriter(s)
  <2>1. SameLoop(q, s) /\ SamePump(q, s) /\ SameTransport(q, s) /\ q.sock # "open" /\ q \in Connection
    BY <1>1, CloseWriterFields, CloseWriterSound DEF Sound
  <2> HIDE DEF q
  <2>2. Tidy(q, up) /\ ~PumpOver(q)
    BY <1>1, <1>4, <2>1 DEF PumpErring, Tidy, Wary, Playing, Registered, SameLoop, SamePump,
       SameTransport, PumpOver
  <2>3. Tidy(PumpFinally(q), up)
    <3> HIDE DEF s, up
    <3> QED BY <1>1, <2>1, <2>2, PumpFinallyTidy
  <2> QED BY <1>4, <2>3 DEF PumpErring, q
<1>5. CASE PumpCancelled(c)
  <2>1. s.cancelled /\ ~PumpOver(s)
    BY <1>1, <1>5 DEF PumpCancelled, Tidy, Wary
  <2>2. Tidy(PumpFinally(s), up)
    <3> HIDE DEF s, up
    <3> QED BY <1>1, <2>1, PumpFinallyTidy
  <2> DEFINE r == [s EXCEPT !.pump = "done", !.cancelled = FALSE]
  <2>3. /\ SameLoop(r, s) /\ SameTransport(r, s) /\ r.sock = s.sock /\ r.pump = "done"
        /\ r.cancelled = FALSE
    BY <1>1 DEF Connection, SameLoop, SameTransport
  <2> HIDE DEF r
  <2>4. ASSUME s.pump = "unstarted" PROVE Tidy(r, up)
    <3>1. Wary(r)
      BY <1>1, <2>1, <2>3 DEF Tidy, Wary, SameLoop, PumpOver
    <3>2. ASSUME up PROVE Playing(r)
      BY <1>1, <2>3, <3>2 DEF Tidy, Wary, Playing, SameLoop, SameTransport, PumpOver
    <3>3. ~(up /\ Python311)
      BY <1>1, <2>1, <2>4 DEF Tidy, Registered
    <3> QED BY <3>1, <3>2, <3>3 DEF Tidy
  <2> QED BY <1>5, <2>2, <2>4 DEF PumpCancelled, r
<1> QED BY <1>2, <1>3, <1>4, <1>5 DEF PumpStep

LEMMA AsideTidy ==
  ASSUME ConnOK, NEW c \in Conns, Tidy(conn[c], server = "up"),
         Stall(c) \/ ClientLost(c) \/ SocketCloses(c)
  PROVE  \E r : Become(c, r) /\ Tidy(r, server = "up")
<1> DEFINE s == conn[c]
<1>1. s \in Connection
  BY DEF ConnOK, Sound
<1>2. PICK r : /\ Become(c, r) /\ SameLoop(r, s) /\ SamePump(r, s) /\ SameTransport(r, s)
               /\ r.sock = s.sock \/ r.sock = "closed"
  <2>1. CASE Stall(c)
    <3>1. LET r == [s EXCEPT !.stalled = ~@]
          IN SameLoop(r, s) /\ SamePump(r, s) /\ SameTransport(r, s) /\ r.sock = s.sock
      BY <1>1 DEF Connection, SameLoop, SamePump, SameTransport
    <3> QED BY <2>1, <3>1 DEF Stall
  <2>2. CASE ClientLost(c) \/ SocketCloses(c)
    <3>1. LET r == [s EXCEPT !.sock = "closed"]
          IN SameLoop(r, s) /\ SamePump(r, s) /\ SameTransport(r, s) /\ r.sock = "closed"
      BY <1>1 DEF Connection, SameLoop, SamePump, SameTransport
    <3> QED BY <2>2, <3>1 DEF ClientLost, SocketCloses
  <2> QED BY <2>1, <2>2
<1>3. Tidy(r, server = "up")
  BY <1>2 DEF Tidy, Wary, Playing, Registered, SameLoop, SamePump, SameTransport, PumpOver
<1> QED BY <1>2, <1>3

\* stop() closes what is still open: only Wary is kept, as nothing is up any more
LEMMA CloserStepTidy ==
  ASSUME ConnOK, NEW c \in Conns, Tidy(conn[c], server = "up"), CloserStep(c)
  PROVE  \E r : Become(c, r) /\ Tidy(r, server = "up")
<1> DEFINE s == conn[c]
<1>1. s \in Connection /\ s \in Sound /\ Wary(s) /\ s.closer # "none"
  BY DEF ConnOK, Sound, Tidy, CloserStep, CloserStart, CloserPlayStopped, CloserDone
<1>2. server # "up"
  BY <1>1 DEF Tidy, Playing
<1>3. ASSUME NEW q \in Sound, Wary(q), q.pump = "none"
      PROVE  Wary(CloserShut(q))
  <2> DEFINE p == ReleaseTransport(q)
             w == CloseWriter(p)
             r == [w EXCEPT !.closer = "wait_closed"]
  <2>1. q \in Connection
    BY <1>3 DEF Sound
  <2>2. SameLoop(p, q) /\ SamePump(p, q)
    BY <2>1, ReleaseFields
  <2>3. p \in Connection
    <3>1. (IF q.udp THEN q.sockets - 1 ELSE q.sockets) = 0
      BY <1>3 DEF Sound, OwnSocket
    <3>2. p = [q EXCEPT !.tcp = FALSE, !.udp = FALSE, !.sockets = 0]
      BY <2>1, <3>1 DEF ReleaseTransport, Connection
    <3> QED BY <2>1, <3>2, ReleasedType
  <2> HIDE DEF p
  <2>4. SameLoop(w, p) /\ SamePump(w, p)
    BY <2>3, CloseWriterFields
  <2>5. w \in Connection
    <3>1. p.sock \in {"none", "open", "closing", "closed"}
      BY <2>3 DEF Connection
    <3> QED BY <2>3, <3>1, FieldTypes DEF CloseWriter
  <2> HIDE DEF w
  <2>6. r.loop = q.loop /\ r.then = q.then /\ r.closer = "wait_closed" /\ SamePump(r, q)
    BY <2>2, <2>4, <2>5 DEF Connection, SameLoop, SamePump
  <2> HIDE DEF r
  <2>7. Wary(r)
    BY <1>3, <2>6 DEF Wary, SamePump, PumpOver
  <2> QED BY <2>7 DEF CloserShut, p, w, r
<1>4. CASE CloserStart(c)
  <2>1. CASE s.pump = "none"
    <3>1. Wary(CloserShut(s))
      BY <1>1, <1>3, <2>1
    <3> QED BY <1>2, <1>4, <2>1, <3>1 DEF CloserStart, Tidy
  <2>2. CASE s.pump # "none"
    <3> DEFINE r == [CancelPump(s) EXCEPT !.closer = "stop_play"]
    <3>1. /\ r.loop = s.loop /\ r.then = s.then /\ r.closer = "stop_play" /\ r.pump = s.pump
          /\ r.cancelled = ~PumpOver(s)
      BY <1>1 DEF CancelPump, Connection, PumpOver
    <3> HIDE DEF r
    <3>2. Wary(r)
      BY <1>1, <3>1 DEF Wary, PumpOver
    <3> QED BY <1>2, <1>4, <2>2, <3>2 DEF CloserStart, Tidy, r
  <2> QED BY <2>1, <2>2
<1>5. CASE CloserPlayStopped(c)
  <2> DEFINE q == ForgetPump(s)
  <2>1. SameLoop(q, s) /\ q.sock = s.sock /\ q.pump = "none" /\ q.cancelled = FALSE
    BY <1>1, ForgetFields
  <2>2. q \in Sound
    <3>1. [s EXCEPT !.pump = "none"] \in Sound
      BY <1>1, <1>5, PumpMoves DEF CloserPlayStopped, PumpOver, PumpStates, Sound, PumpLock
    <3> QED BY <3>1, AsideSound DEF ForgetPump
  <2> HIDE DEF q
  <2>3. Wary(q)
    BY <1>1, <2>1 DEF Wary, SameLoop, PumpOver
  <2>4. Wary(CloserShut(q))
    BY <1>3, <2>1, <2>2, <2>3
  <2> QED BY <1>2, <1>5, <2>4 DEF CloserPlayStopped, Tidy, q
<1>6. CASE CloserDone(c)
  <2> DEFINE r == [s EXCEPT !.closer = "done"]
  <2>1. r.loop = s.loop /\ r.then = s.then /\ r.closer = "done" /\ SamePump(r, s) /\ r.sock = s.sock
    BY <1>1 DEF Connection, SamePump
  <2> HIDE DEF r
  <2>2. Wary(r)
    BY <1>1, <2>1 DEF Wary, SamePump, PumpOver
  <2> QED BY <1>2, <1>6, <2>2 DEF CloserDone, Tidy, r
<1> QED BY <1>4, <1>5, <1>6 DEF CloserStep

-----------------------------------------------------------------------------
AllTidy == \A c \in Conns : Tidy(conn[c], server = "up")

LEMMA InitTidy == Init => AllTidy
BY DEF Init, AllTidy, Absent, Tidy, Wary, Playing, Registered, PumpOver

LEMMA StepTidy == ConnOK /\ AllTidy /\ [Next]_vars => AllTidy'
<1> SUFFICES ASSUME ConnOK, AllTidy, [Next]_vars PROVE AllTidy'
  OBVIOUS
<1>1. CASE \E c \in Conns :
             \/ Accept(c) \/ Request(c) \/ Describe(c) \/ ReadFails(c) \/ LoopStep(c)
             \/ DescribeEnds(c) \/ PumpFrame(c) \/ PumpCrash(c) \/ PumpStep(c) \/ Stall(c)
             \/ ClientLost(c) \/ SocketCloses(c) \/ CloserStep(c)
  <2>1. PICK c \in Conns : \E r : Become(c, r) /\ Tidy(r, server = "up")
    BY <1>1, RequestTidy, LoopStepTidy, PumpStepTidy, AsideTidy, CloserStepTidy DEF AllTidy
  <2>2. PICK r : Become(c, r) /\ Tidy(r, server = "up")
    BY <2>1
  <2>3. ASSUME NEW d \in Conns PROVE Tidy(conn'[d], server' = "up")
    <3>1. conn'[d] = (IF d = c THEN r ELSE conn[d]) /\ server' = server
      BY <2>2 DEF Become, ConnOK
    <3>2. CASE d = c
      BY <2>2, <3>1, <3>2
    <3>3. CASE d # c
      BY <3>1, <3>3 DEF AllTidy
    <3> QED BY <3>2, <3>3
  <2> QED BY <2>3 DEF AllTidy
<1>2. CASE StopBegin
  <2>1. ASSUME NEW c \in Conns PROVE Wary(conn'[c])
    <3> DEFINE r == [conn[c] EXCEPT !.closer = "scheduled"]
    <3>1. /\ r.loop = conn[c].loop /\ r.then = conn[c].then /\ r.closer = "scheduled"
          /\ r.pump = conn[c].pump /\ r.cancelled = conn[c].cancelled
      BY DEF ConnOK, Sound, Connection
    <3> HIDE DEF r
    <3>2. Wary(conn[c])
      BY DEF AllTidy, Tidy
    <3>3. Wary(r)
      BY <3>1, <3>2 DEF Wary, PumpOver
    <3> QED BY <1>2, <3>2, <3>3 DEF StopBegin, r
  <2>2. server' # "up"
    BY <1>2 DEF StopBegin
  <2> QED BY <2>1, <2>2 DEF AllTidy, Tidy
<1>3. CASE StopEnd \/ Ended \/ UNCHANGED vars
  <2>1. conn' = conn /\ (server' = "up" => server = "up")
    BY <1>3 DEF StopEnd, Ended, vars
  <2> QED BY <2>1 DEF AllTidy, Tidy
<1> QED BY <1>1, <1>2, <1>3 DEF Next, Client

\* The invariant of the pump, for every connection.
THEOREM PumpsTidy == Spec => []AllTidy
BY ConnectionsSound, InitTidy, StepTidy, PTL DEF Spec

\* A pump that is not over has the transport its frames go to, whatever SETUP,
\* TEARDOWN, PLAY and a lost client do around it.
THEOREM PumpsHaveTransports == Spec => []PumpHasTransport
<1>1. AllTidy => PumpHasTransport
  BY DEF AllTidy, Tidy, Playing, PumpHasTransport
<1> QED BY <1>1, PumpsTidy, PTL

\* A connection that still takes requests after its pump died of an error has its
\* socket closed already: the client is told.
THEOREM NoZombies == Spec => []NoZombie
<1>1. AllTidy => NoZombie
  BY DEF AllTidy, Tidy, Wary, NoZombie
<1> QED BY <1>1, PumpsTidy, PTL

\* Where a new task takes its first step before the next request is read (Python
\* up to 3.11), every subscription has a pump that will end it.
THEOREM SubscribersHavePumps == ASSUME Python311 PROVE Spec => []SubscriberHasPump
<1>1. AllTidy => SubscriberHasPump
  BY DEF AllTidy, Tidy, Registered, SubscriberHasPump
<1> QED BY <1>1, PumpsTidy, PTL
=============================================================================
