----------------------------- MODULE RtspServer -----------------------------
(***************************************************************************)
(* The RTSP server (dvrbridge/rtsp/server.py): accepted connections, each  *)
(* with its request loop (ClientConnection.run) and, while it plays, its   *)
(* media pump (_pump), which share the socket under one lock; and stop(),  *)
(* which closes every connection it knows of from a task of its own.       *)
(*                                                                         *)
(* The hub appears as what a connection has registered with it (subscribe, *)
(* unsubscribe) and as waits that end (wait_ready, queue.get): module      *)
(* Stream is the other side.  An action is a step between two awaits.      *)
(***************************************************************************)
EXTENDS Integers, FiniteSets

CONSTANTS
  Conns,           \* identities of client connections, each used once
  MaxConnections,  \* max_connections
  MayStall,        \* a client may stop reading, its socket buffers full
  MayUdp,          \* a client may ask for RTP over UDP
  Python311        \* up to Python 3.11 wait_for always yields once, so that a new
                   \* pump starts before the next request is read, and the server's
                   \* wait_closed does not wait for accepted connections

ASSUME ConnsAssumption == MaxConnections \in Nat \ {0}
ASSUME SwitchesAssumption ==
  MayStall \in BOOLEAN /\ MayUdp \in BOOLEAN /\ Python311 \in BOOLEAN

VARIABLES
  conn,    \* conn[c]: the connection's state, a record of type Connection
  server   \* where RTSPServer.stop is

vars == <<conn, server>>

-----------------------------------------------------------------------------
(* What a connection is.                                                    *)

\* the request loop: not accepted yet; accepted, _client not started; reading a
\* request; awaiting wait_ready, the UDP endpoint, the lock or the drain of a
\* response, the pump's end (TEARDOWN, close()), wait_closed; finished
LoopStates == {"absent", "accepted", "idle", "describing", "binding", "send", "drain",
               "stop_play", "close_play", "wait_closed", "gone"}
\* what follows the response
Thens == {"next", "play", "teardown", "end"}
\* play_task: None, created, awaiting queue.get, the lock, drain, the lock to
\* close the writer after a crash; finished
PumpStates == {"none", "unstarted", "waiting", "lock", "drain", "erring", "done"}
\* the close(c) that stop() runs
CloserStates == {"none", "scheduled", "stop_play", "wait_closed", "done"}

Connection ==
  [loop : LoopStates, then : Thens, closer : CloserStates,
   pump : PumpStates, cancelled : BOOLEAN,
   lock : {"free", "loop", "pump"},                 \* _wlock's holder
   sock : {"none", "open", "closing", "closed"},    \* the TCP transport
   stalled : BOOLEAN,                               \* the client does not read
   stream : BOOLEAN,                                \* self.stream is set
   tcp : BOOLEAN, udp : BOOLEAN,                    \* self.interleaved, self.udp
   sockets : 0 .. 2,                                \* UDP sockets left bound
   registered : SUBSET {"own", "orphan"}]           \* in Stream._subs: self.sub's,
                                                    \* and one self.sub has forgotten

Absent == [loop |-> "absent", then |-> "next", closer |-> "none", pump |-> "none",
           cancelled |-> FALSE, lock |-> "free", sock |-> "none", stalled |-> FALSE,
           stream |-> FALSE, tcp |-> FALSE, udp |-> FALSE, sockets |-> 0,
           registered |-> {}]

Known == {c \in Conns : conn[c].loop \notin {"absent", "accepted", "gone"}}  \* _conns

Init == conn = [c \in Conns |-> Absent] /\ server = "up"

Become(c, s) == conn' = [conn EXCEPT ![c] = s] /\ UNCHANGED server

-----------------------------------------------------------------------------
(* Pieces of the handlers, as functions of a connection's state.            *)

Flushed(s) == s.sock # "closed" /\ ~s.stalled    \* drain() returns
Broken(s) == s.sock = "closed"                   \* drain() raises ConnectionError

\* leaving `async with self._wlock`: a waiter is granted the lock
LoopReleases(s) ==
  [s EXCEPT !.lock = IF s.pump \in {"lock", "erring"} THEN "pump" ELSE "free"]
\* faulty variant: the pump keeps the lock
PumpKeepsLock(s) == s

PumpReleases(s) ==
  IF s.lock # "pump" THEN s
  ELSE [s EXCEPT !.lock = IF s.loop = "send" THEN "loop" ELSE "free"]

\* _respond, up to its first await
Respond(s, k) ==
  IF s.lock = "free" THEN [s EXCEPT !.lock = "loop", !.loop = "drain", !.then = k]
                     ELSE [s EXCEPT !.loop = "send", !.then = k]

\* _release_transport
ReleaseTransport(s) ==
  [s EXCEPT !.tcp = FALSE, !.udp = FALSE, !.sockets = IF s.udp THEN @ - 1 ELSE @]

\* faulty variant: the writer is left open
LeaveWriterOpen(s) == s

CloseWriter(s) == [s EXCEPT !.sock = IF @ = "open" THEN "closing" ELSE @]

\* play_task.cancel(); no effect on a finished task
CancelPump(s) == [s EXCEPT !.cancelled = s.pump \notin {"none", "done"}]
PumpOver(s) == s.pump \in {"none", "done"}
ForgetPump(s) == [s EXCEPT !.pump = "none", !.cancelled = FALSE]

\* close() in the finally of run()
LoopShut(s) == [CloseWriter(ReleaseTransport(s)) EXCEPT !.loop = "wait_closed"]
LoopClose(s) == IF s.pump = "none" THEN LoopShut(s)
                ELSE [CancelPump(s) EXCEPT !.loop = "close_play"]

\* TEARDOWN after its response
TornDown(s) == [ReleaseTransport(s) EXCEPT !.stream = FALSE, !.loop = "idle"]
\* faulty variant: the transport is released before the pump has stopped
TeardownReleasesFirst(s) ==
  IF s.pump = "none" THEN TornDown(s)
  ELSE [CancelPump(ReleaseTransport(s)) EXCEPT !.loop = "stop_play"]

Teardown(s) == IF s.pump = "none" THEN TornDown(s)
               ELSE [CancelPump(s) EXCEPT !.loop = "stop_play"]

\* PLAY after its response: subscribe and start the pump.  "orphan" stands for the
\* forgotten subscribers: one at most up to Python 3.11, one or more after it
StartPlay(s) ==
  IF s.pump # "none" THEN [s EXCEPT !.loop = "idle"]
  ELSE [s EXCEPT !.loop = "idle", !.pump = "unstarted",
                 !.registered = IF "own" \in @ THEN {"own", "orphan"} ELSE @ \cup {"own"}]

\* faulty variant: the pump ends without unsubscribing
PumpEndsSubscribed(s) ==
  [PumpReleases(s) EXCEPT !.pump = "done", !.cancelled = FALSE]

\* the finally of _pump
PumpFinally(s) ==
  [PumpReleases(s) EXCEPT !.pump = "done", !.cancelled = FALSE,
                          !.registered = IF s.stream THEN @ \ {"own"} ELSE @]

-----------------------------------------------------------------------------
(* Accepting.                                                               *)

Accept(c) ==
  /\ server = "up" /\ conn[c].loop = "absent"
  /\ Become(c, [conn[c] EXCEPT !.loop = "accepted", !.sock = "open"])

\* faulty variant: one connection too many
FullAbove == Cardinality(Known) > MaxConnections

Full == Cardinality(Known) >= MaxConnections

\* _client: refuse above the limit
ClientStart(c) ==
  /\ conn[c].loop = "accepted"
  /\ Become(c, IF Full THEN [CloseWriter(conn[c]) EXCEPT !.loop = "gone"]
                       ELSE [conn[c] EXCEPT !.loop = "idle"])

-----------------------------------------------------------------------------
(* The request loop.                                                        *)

Reads(c) == conn[c].loop = "idle" /\ (Python311 => conn[c].pump # "unstarted")

\* OPTIONS, PAUSE, GET_ and SET_PARAMETER, and every request turned down before
\* its handler touches the connection
Plain(c) == Reads(c) /\ Become(c, Respond(conn[c], "next"))

\* malformed framing: answered, then the connection is closed
Malformed(c) == Reads(c) /\ Become(c, Respond(conn[c], "end"))

\* end of stream, IDLE_TIMEOUT, REQUEST_TIMEOUT or an undecodable header
ReadFails(c) == Reads(c) /\ Become(c, LoopClose(conn[c]))

Describe(c) == Reads(c) /\ Become(c, [conn[c] EXCEPT !.loop = "describing"])

\* 200, or 504 after describe_timeout
DescribeDone(c) ==
  conn[c].loop = "describing" /\ Become(c, Respond(conn[c], "next"))

\* SETUP while playing, and SETUP for no stream (after the release)
SetupRefused(c) ==
  /\ Reads(c)
  /\ Become(c, Respond(IF conn[c].pump # "none" THEN conn[c]
                       ELSE ReleaseTransport(conn[c]), "next"))

\* faulty variant: the transport of the SETUP before is kept
ResetupUnreleased(s) == [s EXCEPT !.stream = TRUE]

\* the part of every other SETUP before its transport is looked at
Resetup(s) == [ReleaseTransport(s) EXCEPT !.stream = TRUE]

\* interleaved; a channel out of range is refused with `interleaved` left set
SetupTcp(c) ==
  /\ Reads(c) /\ conn[c].pump = "none"
  /\ Become(c, Respond([Resetup(conn[c]) EXCEPT !.tcp = TRUE], "next"))

\* another transport, or a bad client_port
SetupUnsupported(c) ==
  /\ Reads(c) /\ conn[c].pump = "none"
  /\ Become(c, Respond(Resetup(conn[c]), "next"))

SetupUdp(c) ==
  /\ MayUdp /\ Reads(c) /\ conn[c].pump = "none"
  /\ Become(c, [Resetup(conn[c]) EXCEPT !.loop = "binding"])

Bound(c) ==
  /\ conn[c].loop = "binding"
  /\ Become(c, Respond([conn[c] EXCEPT !.udp = TRUE, !.sockets = @ + 1], "next"))

\* exceptions nothing in the handlers catches
SdpFails(c) == conn[c].loop = "describing" /\ Become(c, LoopClose(conn[c]))
BindFails(c) == conn[c].loop = "binding" /\ Become(c, LoopClose(conn[c]))

CanPlay(s) == s.stream /\ (s.tcp \/ s.udp)
Play(c) ==
  /\ Reads(c)
  /\ Become(c, Respond(conn[c], IF CanPlay(conn[c]) THEN "play" ELSE "next"))

TeardownRequest(c) == Reads(c) /\ Become(c, Respond(conn[c], "teardown"))

LoopGetsLock(c) ==
  /\ conn[c].loop = "send" /\ conn[c].lock = "loop"
  /\ Become(c, [conn[c] EXCEPT !.loop = "drain"])

AfterResponse(r) ==
  LET s == [r EXCEPT !.then = "next"]
  IN CASE r.then = "next" -> [s EXCEPT !.loop = "idle"]
       [] r.then = "play" -> StartPlay(s)
       [] r.then = "teardown" -> Teardown(s)
       [] r.then = "end" -> LoopClose(s)

\* two waiters for one pump resume in one loop iteration, stop()'s before the
\* request loop can start another: wait_for yields once per request.  (After Python
\* 3.11 it need not, and a client that has sent TEARDOWN, SETUP and PLAY ahead could
\* get a pump that stop() then forgets: left out)
Drained(c) ==
  /\ conn[c].loop = "drain" /\ Flushed(conn[c])
  /\ conn[c].closer = "stop_play" => ~PumpOver(conn[c])
  /\ Become(c, AfterResponse(LoopReleases(conn[c])))

\* the response fails and run() ends; ETIMEDOUT is a TimeoutError, for which
\* _dispatch first tries to send 504
DrainFails(c) ==
  /\ conn[c].loop = "drain" /\ Broken(conn[c])
  /\ \/ Become(c, LoopClose([LoopReleases(conn[c]) EXCEPT !.then = "next"]))
     \/ conn[c].then # "end" /\ Become(c, Respond(LoopReleases(conn[c]), "end"))

\* _stop_play is over: TEARDOWN goes on, or close() does
PlayStopped(c) ==
  /\ conn[c].loop \in {"stop_play", "close_play"} /\ PumpOver(conn[c])
  /\ Become(c, IF conn[c].loop = "stop_play" THEN TornDown(ForgetPump(conn[c]))
                                             ELSE LoopShut(ForgetPump(conn[c])))

\* wait_closed returned; _client discards the connection
Gone(c) ==
  /\ conn[c].loop = "wait_closed" /\ Broken(conn[c])
  /\ Become(c, [conn[c] EXCEPT !.loop = "gone"])

-----------------------------------------------------------------------------
(* The media pump.                                                          *)

PumpRuns(c) == ~conn[c].cancelled

PumpStart(c) ==
  /\ conn[c].pump = "unstarted" /\ PumpRuns(c)
  /\ Become(c, [conn[c] EXCEPT !.pump = "waiting"])

\* a frame to send interleaved; a UDP one takes no lock and changes nothing
PumpFrame(c) ==
  /\ conn[c].pump = "waiting" /\ PumpRuns(c) /\ conn[c].tcp
  /\ Become(c, IF conn[c].lock = "free" THEN [conn[c] EXCEPT !.pump = "drain", !.lock = "pump"]
                                        ELSE [conn[c] EXCEPT !.pump = "lock"])

PumpGetsLock(c) ==
  /\ conn[c].pump = "lock" /\ conn[c].lock = "pump" /\ PumpRuns(c)
  /\ Become(c, [conn[c] EXCEPT !.pump = "drain"])

\* an exception that is no ConnectionError: the writer is to be closed under the lock
Crashed(s) == [s EXCEPT !.pump = "erring", !.lock = IF @ = "free" THEN "pump" ELSE @]

\* drain() returns; or raises ConnectionError, or another OSError the socket ended with
PumpDrained(c) ==
  /\ conn[c].pump = "drain" /\ PumpRuns(c)
  /\ \/ Flushed(conn[c]) /\ Become(c, [PumpReleases(conn[c]) EXCEPT !.pump = "waiting"])
     \/ Broken(conn[c]) /\ Become(c, PumpFinally(conn[c]))
     \/ Broken(conn[c]) /\ Become(c, Crashed(PumpReleases(conn[c])))

\* packetising or sending raises
PumpCrash(c) ==
  /\ conn[c].pump = "waiting" /\ PumpRuns(c) /\ Become(c, Crashed(conn[c]))

\* faulty variant: a crashed pump leaves the socket open
PumpErringSilently(c) ==
  /\ conn[c].pump = "erring" /\ conn[c].lock = "pump" /\ PumpRuns(c)
  /\ Become(c, PumpFinally(conn[c]))

PumpErring(c) ==
  /\ conn[c].pump = "erring" /\ conn[c].lock = "pump" /\ PumpRuns(c)
  /\ Become(c, PumpFinally(CloseWriter(conn[c])))

\* a task cancelled before its first step never enters its try
PumpCancelled(c) ==
  /\ conn[c].cancelled
  /\ Become(c, IF conn[c].pump = "unstarted"
               THEN [conn[c] EXCEPT !.pump = "done", !.cancelled = FALSE]
               ELSE PumpFinally(conn[c]))

-----------------------------------------------------------------------------
(* The client's end of the socket.                                          *)

Stall(c) ==
  /\ MayStall /\ conn[c].sock # "none"
  /\ Become(c, [conn[c] EXCEPT !.stalled = ~@])

ClientLost(c) ==
  conn[c].sock \in {"open", "closing"} /\ Become(c, [conn[c] EXCEPT !.sock = "closed"])

\* a closing transport goes once what it holds is sent
SocketCloses(c) ==
  /\ conn[c].sock = "closing" /\ ~conn[c].stalled
  /\ Become(c, [conn[c] EXCEPT !.sock = "closed"])

-----------------------------------------------------------------------------
(* stop().                                                                  *)

StopBegin ==
  /\ server = "up"
  /\ server' = "stopping"
  /\ conn' = [c \in Conns |->
       IF c \in Known THEN [conn[c] EXCEPT !.closer = "scheduled"] ELSE conn[c]]

CloserShut(s) == [CloseWriter(ReleaseTransport(s)) EXCEPT !.closer = "wait_closed"]

CloserStart(c) ==
  /\ conn[c].closer = "scheduled"
  /\ Become(c, IF conn[c].pump = "none" THEN CloserShut(conn[c])
               ELSE [CancelPump(conn[c]) EXCEPT !.closer = "stop_play"])

CloserPlayStopped(c) ==
  /\ conn[c].closer = "stop_play" /\ PumpOver(conn[c])
  /\ Become(c, CloserShut(ForgetPump(conn[c])))

CloserDone(c) ==
  /\ conn[c].closer = "wait_closed" /\ Broken(conn[c])
  /\ Become(c, [conn[c] EXCEPT !.closer = "done"])

\* gather returns and so does Server.wait_closed
StopEnd ==
  /\ server = "stopping"
  /\ \A c \in Conns : /\ conn[c].closer \in {"none", "done"}
                      /\ Python311 \/ conn[c].sock \in {"none", "closed"}
  /\ server' = "stopped" /\ UNCHANGED conn

\* nothing is left to do
Ended == /\ server = "stopped"
         /\ \A c \in Conns : conn[c].loop \in {"absent", "gone"}
         /\ UNCHANGED vars

-----------------------------------------------------------------------------
Request(c) == \/ Plain(c) \/ Malformed(c) \/ SetupRefused(c) \/ SetupTcp(c)
              \/ SetupUnsupported(c) \/ SetupUdp(c) \/ Play(c) \/ TeardownRequest(c)

\* what a client does, DESCRIBE apart
Client(c) == Accept(c) \/ Request(c) \/ Stall(c) \/ ClientLost(c)

DescribeEnds(c) == DescribeDone(c) \/ SdpFails(c)

LoopStep(c) == \/ ClientStart(c) \/ Bound(c) \/ BindFails(c) \/ LoopGetsLock(c)
               \/ Drained(c) \/ DrainFails(c) \/ PlayStopped(c) \/ Gone(c)

PumpStep(c) == \/ PumpStart(c) \/ PumpGetsLock(c) \/ PumpDrained(c) \/ PumpErring(c)
               \/ PumpCancelled(c)

CloserStep(c) == CloserStart(c) \/ CloserPlayStopped(c) \/ CloserDone(c)

Next == \/ \E c \in Conns : \/ Client(c) \/ Describe(c) \/ ReadFails(c)
                            \/ LoopStep(c) \/ DescribeEnds(c)
                            \/ PumpFrame(c) \/ PumpCrash(c) \/ PumpStep(c)
                            \/ SocketCloses(c) \/ CloserStep(c)
        \/ StopBegin \/ StopEnd \/ Ended

Spec == Init /\ [][Next]_vars

\* The loop runs what is ready; a silent client meets IDLE_TIMEOUT; a client that
\* keeps reading gets everything.  Nothing makes a client read, send or go away.
Fairness ==
  /\ \A c \in Conns : /\ WF_vars(LoopStep(c)) /\ WF_vars(DescribeEnds(c))
                      /\ WF_vars(ReadFails(c))
                      /\ WF_vars(PumpStep(c)) /\ WF_vars(CloserStep(c))
                      /\ SF_vars(SocketCloses(c))
  /\ WF_vars(StopEnd)

FairSpec == Spec /\ Fairness

-----------------------------------------------------------------------------
TypeOK == conn \in [Conns -> Connection] /\ server \in {"up", "stopping", "stopped"}

\* The flood guard: never more than max_connections connections are served.
AtMostMax == Cardinality(Known) <= MaxConnections

\* While the server is up, whatever a connection has registered with a stream is
\* drained by a live pump: nothing else would ever unregister it, and the DVR's
\* connection would be held for nobody.
SubscriberHasPump ==
  server = "up" => \A c \in Conns : conn[c].registered # {} =>
    conn[c].registered = {"own"} /\ ~PumpOver(conn[c])

\* Every bound UDP socket is the one the connection will release: re-SETUP,
\* TEARDOWN, a lost client and stop() in the middle of SETUP leak none.
SocketsOwned ==
  \A c \in Conns : /\ conn[c].sockets = IF conn[c].udp THEN 1 ELSE 0
                   /\ conn[c].loop = "gone" => conn[c].sockets = 0

\* A pump never runs without the transport its frames go to.
PumpHasTransport ==
  server = "up" => \A c \in Conns : ~PumpOver(conn[c]) => conn[c].tcp \/ conn[c].udp

\* A connection that still takes requests while its pump has died is on its way
\* out: its socket no longer counts as open.
NoZombie ==
  \A c \in Conns :
    conn[c].pump = "done" /\ conn[c].closer = "none"
      /\ conn[c].loop \in {"idle", "describing", "binding", "send", "drain"}
      => conn[c].sock # "open"

\* The lock has one holder and is never left with nobody to release it.
LockHeld ==
  \A c \in Conns :
    /\ conn[c].loop = "drain" => conn[c].lock = "loop"
    /\ conn[c].pump = "drain" => conn[c].lock = "pump"
    /\ conn[c].lock = "loop" => conn[c].loop \in {"send", "drain"}
    /\ conn[c].lock = "pump" => conn[c].pump \in {"lock", "drain", "erring"}
=============================================================================
