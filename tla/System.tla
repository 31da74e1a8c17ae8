------------------------------- MODULE System -------------------------------
(***************************************************************************)
(* The bridge as _serve runs it (cli.py), for one channel: the connections *)
(* of RtspServer are the clients of Stream.  Where one calls the other the *)
(* two step together: DESCRIBE and wait_ready, PLAY and subscribe, the     *)
(* pump and its queue, the end of the pump and unsubscribe.  Shutting down *)
(* stops the server and then the hub.                                      *)
(*                                                                         *)
(* What Stream assumes of its callers (Quiesced) is not assumed here: the  *)
(* server's connections decide which calls still come while the hub stops. *)
(***************************************************************************)
EXTENDS Integers, Sequences, FiniteSets

CONSTANTS Conns, MaxConnections, MayStall, MayUdp, Python311,
          Tasks, NoTask, Frames, QMax, AlwaysOn, Linger, DescribeTimeout,
          BackoffStart, BackoffCap, StableReset, DriverMayCrash,
          OtherStreams    \* the hub has more streams, which may take longer to stop

VARIABLE exited    \* _serve has returned and the process ends
VARIABLES conn, server
VARIABLES handle, pc, backoff, left, age, ready, wake, sps, pps, idle, hub, stopping,
          client, timer, waiting, queue, link

\* what a connection may be to the stream: a DESCRIBE that waits, its
\* subscriber, and one more when the first was left registered (RtspServer's
\* orphan)
Roles == {"describe", "play", "replay"}

S == INSTANCE Stream WITH Clients <- Conns \X Roles, Quiesced <- FALSE
R == INSTANCE RtspServer

ASSUME ServerAssumption == R!ConnsAssumption /\ R!SwitchesAssumption
ASSUME SystemAssumption == OtherStreams \in BOOLEAN
ASSUME StreamAssumption == /\ S!TasksAssumption /\ S!FramesAssumption
                           /\ S!BoundsAssumption /\ S!BackoffAssumption /\ S!FlagsAssumption

serverVars == <<conn, server>>
streamVars == <<handle, pc, backoff, left, age, ready, wake, sps, pps, idle, hub,
                stopping, client, timer, waiting, queue, link>>
vars == <<serverVars, streamVars, exited>>

Waiter(c) == <<c, "describe">>
Playing(c) == {r \in {"play", "replay"} : client[<<c, r>>] = "playing"}
NextSub(c) == <<c, IF "play" \in Playing(c) THEN "replay" ELSE "play">>
Sub(c) == <<c, IF "replay" \in Playing(c) THEN "replay" ELSE "play">>

Init == R!Init /\ S!Init /\ exited = FALSE

-----------------------------------------------------------------------------
(* Joint steps.                                                             *)

\* task identities are interchangeable: a new task takes a fixed one of the free
FirstFree == CHOOSE t \in Tasks : pc[t] \in S!Dead /\ t # stopping
Canonical ==
  \A t \in Tasks : pc'[t] = "created" /\ pc[t] \in S!Dead => t = FirstFree

Describe(c) == R!Describe(c) /\ S!Describe(Waiter(c)) /\ Canonical

\* wait_ready returns or times out; 200 needs parameter sets to make an SDP of
DescribeEnds(c) ==
  \/ S!DescribeExpired(Waiter(c)) /\ R!DescribeDone(c)
  \/ /\ S!DescribeReply(Waiter(c))
     /\ IF sps = "none" \/ pps = "none" THEN R!SdpFails(c) ELSE R!DescribeDone(c)

\* the pump takes an item; one without a transport drops it
PumpTakes(c) ==
  /\ conn[c].pump = "waiting" /\ R!PumpRuns(c)
  /\ S!Get(Sub(c))
  /\ IF conn[c].tcp THEN R!PumpFrame(c) ELSE UNCHANGED serverVars

PumpCrash(c) == R!PumpCrash(c) /\ S!Get(Sub(c))

\* a step of the server that registers or gives back a subscriber
CallStream(c) ==
  LET before == Cardinality(conn[c].registered)
      after == Cardinality(conn'[c].registered)
  IN CASE after > before -> S!Subscribe(NextSub(c)) /\ Canonical
       [] after < before -> S!Unsubscribe(Sub(c))
       [] OTHER -> UNCHANGED streamVars

LoopStep(c) == R!LoopStep(c) /\ CallStream(c)
PumpStep(c) == R!PumpStep(c) /\ CallStream(c)
ReadFails(c) == R!ReadFails(c) /\ CallStream(c)
CloserStep(c) == R!CloserStep(c) /\ CallStream(c)
SocketCloses(c) == R!SocketCloses(c) /\ UNCHANGED streamVars

\* what a client does that calls nothing of the stream yet
Client(c) == R!Client(c) /\ UNCHANGED streamVars

ServerStopBegin == R!StopBegin /\ UNCHANGED streamVars
ServerStopEnd == R!StopEnd /\ UNCHANGED streamVars

\* await server.stop(), then await hub.stop()
HubStopBegin == server = "stopped" /\ S!StopBegin /\ UNCHANGED serverVars
HubStopEnd == S!StopEnd /\ UNCHANGED serverVars
TaskStep(t) == S!TaskStep(t) /\ Canonical /\ UNCHANGED serverVars
TaskWork(t) == S!Work(t) /\ Canonical /\ UNCHANGED serverVars

\* no second passes while a step of the server, or of _serve, is ready
Settled(c) ==
  \/ conn[c].stalled
  \/ /\ conn[c].loop \in {"absent", "idle", "describing", "gone"}
     /\ conn[c].pump \in {"none", "waiting", "done"} /\ ~conn[c].cancelled
     /\ conn[c].closer \in {"none", "done"}
Tick == /\ \A c \in Conns : Settled(c)
        /\ server = "stopped" => hub # "up" /\ (hub = "stopped" => OtherStreams)
        /\ S!Tick /\ UNCHANGED serverVars

\* _serve goes on once the gather of every stream's stop() has returned; until
\* then the loop runs on, and what a late client calls still happens
Return == /\ hub = "stopped" /\ ~exited
          /\ exited' = TRUE /\ UNCHANGED <<serverVars, streamVars>>
Ended == exited /\ UNCHANGED vars

\* a drain() with room in the socket's buffers does not suspend: nothing else
\* happens before its caller goes on
Flushing(c) == /\ conn[c].sock = "open" /\ ~conn[c].stalled
               /\ conn[c].loop = "drain" \/ conn[c].pump = "drain"

Work ==
  \/ \E c \in Conns : Flushing(c) /\ (LoopStep(c) \/ PumpStep(c) \/ CloserStep(c))
  \/ /\ \A c \in Conns : ~Flushing(c)
     /\ \/ \E c \in Conns : \/ Describe(c) \/ DescribeEnds(c) \/ PumpTakes(c)
                            \/ PumpCrash(c) \/ LoopStep(c) \/ PumpStep(c) \/ ReadFails(c)
                            \/ CloserStep(c) \/ SocketCloses(c) \/ Client(c)
        \/ \E t \in Tasks : TaskStep(t)
        \/ ServerStopBegin \/ ServerStopEnd \/ HubStopBegin \/ HubStopEnd \/ Tick

Live(A) == ~exited /\ A /\ UNCHANGED exited

Next == Live(Work) \/ Return \/ Ended

Spec == Init /\ [][Next]_vars

\* The fairness of the two parts.  A driver that stays connected yields; a client
\* that keeps reading gets what is written; nothing makes anyone send or leave.
Fairness ==
  /\ \A c \in Conns :
       /\ WF_vars(Live(LoopStep(c) \/ DescribeEnds(c) \/ ReadFails(c)))
       /\ WF_vars(Live(PumpStep(c))) /\ WF_vars(Live(CloserStep(c)))
       /\ SF_vars(Live(SocketCloses(c)))
  /\ \A t \in Tasks : WF_vars(Live(TaskWork(t)))
  /\ WF_vars(Live(Tick))
  /\ WF_vars(Live(ServerStopEnd \/ HubStopBegin \/ HubStopEnd) \/ Return)

FairSpec == Spec /\ Fairness

-----------------------------------------------------------------------------
Connected == \E t \in Tasks : pc[t] \in S!Connected

\* Both parts keep their types with each other for a caller.
TypeOK == R!TypeOK /\ S!TypeOK /\ exited \in BOOLEAN

\* Never two connections to the DVR's channel, late clients of a stopping server
\* included, until Stream.stop() is over.  (It drops the handle of a supervisor that a
\* late client has started; one more late call then starts a second.)
OneHolder == hub # "stopped" => Cardinality({t \in Tasks : pc[t] \in S!Connected}) <= 1

\* The bridge implements DeviceSlot, with its connections as the clients: whatever
\* the RTSP side does, the DVR's channel is held by one, taken only while a connection
\* is registered or a request was seen within `linger`, and kept under it.
Device == INSTANCE DeviceSlot
            WITH Clients <- Conns, Holders <- Tasks, LateCalls <- TRUE,
                 slot <- [t \in Tasks |-> S!SlotOf(t)],
                 viewers <- {c \in Conns : conn[c].registered # {}},
                 asked <- idle <= Linger, serving <- hub

BridgeKeepsSlot == Device!SlotSpec

\* tests/test_integration.py 144: when the last client has gone, however it
\* went, the device is let go: never is it held for ever for nobody.
Deserted == \A c \in Conns : conn[c].sock \in {"none", "closed"}
DeviceReleased == []<>(Deserted => ~Connected \/ exited)

\* The signal handler's promise: a bridge told to stop ends, whatever its
\* connections, pumps and supervisor are in the middle of.  A bridge that stops never
\* comes up again, so this is server = "stopping" ~> exited (SystemProofs).
ShutdownEnds == []<>(server # "up" => exited)

\* A connection whose client is lost, or that stop() found, ends and gives back
\* all it held, wherever it was: waiting for a stream, the lock, or its pump.  Such
\* a connection stays one, so this is Condemned(c) ~> Over(c) (SystemProofs).
Condemned(c) == conn[c].sock = "closed" \/ conn[c].closer # "none"
Over(c) == \/ conn[c].loop = "gone" /\ (server = "up" => conn[c].registered = {})
           \/ exited
ConnectionsEnd == \A c \in Conns : []<>(Condemned(c) => Over(c))
=============================================================================
