---------------------------- MODULE SystemProofs ----------------------------
(***************************************************************************)
(* Proofs about System for any number of connections: that its joint steps *)
(* are steps of both parts, that the DVR sees one connection, and that     *)
(* server and hub agree on who is subscribed: for that, each step of a     *)
(* connection is followed into what it registers, and each step of the     *)
(* stream into who it serves.  Last, that two liveness properties are the  *)
(* leads-to they stand for.                                                *)
(***************************************************************************)
EXTENDS System, FiniteSetTheorems, TLAPS

-----------------------------------------------------------------------------
(* Every step of the system is a step of the server, or none, and a step of  *)
(* the stream, or none.                                                      *)

LEMMA JointServer == [Next]_vars => [R!Next]_(R!vars)
<1> SUFFICES ASSUME [Next]_vars PROVE R!Next \/ UNCHANGED serverVars
  BY DEF R!vars, serverVars
<1>1. ASSUME NEW c \in Conns, LoopStep(c) \/ PumpStep(c) \/ CloserStep(c) PROVE R!Next
  BY <1>1 DEF LoopStep, PumpStep, CloserStep, R!Next
<1>2. ASSUME NEW c \in Conns, Describe(c) \/ ReadFails(c) \/ SocketCloses(c) PROVE R!Next
  BY <1>2 DEF Describe, ReadFails, SocketCloses, R!Next
<1>3. ASSUME NEW c \in Conns, DescribeEnds(c) PROVE R!Next
  BY <1>3 DEF DescribeEnds, R!DescribeEnds, R!Next
<1>4. ASSUME NEW c \in Conns, PumpTakes(c) \/ PumpCrash(c)
      PROVE  R!Next \/ UNCHANGED serverVars
  BY <1>4 DEF PumpTakes, PumpCrash, R!Next
<1>5. ASSUME NEW c \in Conns, Client(c) PROVE R!Next
  BY <1>5 DEF Client, R!Next
<1>6. CASE ServerStopBegin \/ ServerStopEnd
  BY <1>6 DEF ServerStopBegin, ServerStopEnd, R!Next
<1>7. CASE \/ \E t \in Tasks : TaskStep(t)
           \/ HubStopBegin \/ HubStopEnd \/ Tick \/ Return \/ Ended \/ UNCHANGED vars
  BY <1>7 DEF TaskStep, HubStopBegin, HubStopEnd, Tick, Return, Ended, vars, serverVars
<1>8. CASE Work
  BY <1>1, <1>2, <1>3, <1>4, <1>5, <1>6, <1>7, <1>8 DEF Work
<1> QED BY <1>7, <1>8 DEF Next, Live

\* what a step of the server calls
LEMMA CallIsStep ==
  ASSUME NEW c \in Conns, CallStream(c)
  PROVE  \/ UNCHANGED streamVars
         \/ \E d \in Conns \X Roles : S!Subscribe(d) \/ S!Unsubscribe(d)
<1>1. NextSub(c) \in Conns \X Roles /\ Sub(c) \in Conns \X Roles
  BY DEF NextSub, Sub, Roles
<1> QED BY <1>1 DEF CallStream

LEMMA JointStream == [Next]_vars => [S!Next]_(S!vars)
<1> SUFFICES ASSUME [Next]_vars PROVE S!Next \/ UNCHANGED streamVars
  BY DEF S!vars, S!taskVars, S!eventVars, S!setVars, S!hubVars, S!subVars, streamVars
<1>1. ASSUME NEW d \in Conns \X Roles, S!ClientStep(d) PROVE S!Next
  BY <1>1 DEF S!Next
<1>2. ASSUME NEW c \in Conns PROVE Waiter(c) \in Conns \X Roles /\ Sub(c) \in Conns \X Roles
  BY DEF Waiter, Sub, Roles
<1>3. ASSUME NEW c \in Conns, LoopStep(c) \/ PumpStep(c) \/ CloserStep(c) \/ ReadFails(c)
      PROVE  S!Next \/ UNCHANGED streamVars
  BY <1>1, <1>3, CallIsStep DEF LoopStep, PumpStep, CloserStep, ReadFails, S!ClientStep
<1>4. ASSUME NEW c \in Conns, Describe(c) \/ DescribeEnds(c) \/ PumpTakes(c) \/ PumpCrash(c)
      PROVE  S!Next
  BY <1>1, <1>2, <1>4 DEF Describe, DescribeEnds, PumpTakes, PumpCrash, S!ClientStep
<1>5. ASSUME NEW c \in Conns, SocketCloses(c) \/ Client(c) PROVE UNCHANGED streamVars
  BY <1>5 DEF SocketCloses, Client
<1>6. CASE \/ \E t \in Tasks : TaskStep(t)
           \/ HubStopBegin \/ HubStopEnd \/ Tick
  BY <1>6 DEF TaskStep, HubStopBegin, HubStopEnd, Tick, S!Next
<1>7. CASE ServerStopBegin \/ ServerStopEnd \/ Return \/ Ended \/ UNCHANGED vars
  BY <1>7 DEF ServerStopBegin, ServerStopEnd, Return, Ended, vars
<1>8. CASE Work
  BY <1>3, <1>4, <1>5, <1>6, <1>7, <1>8 DEF Work
<1> QED BY <1>7, <1>8 DEF Next, Live

\* The bridge does nothing the server alone could not do: the system implements
\* RtspServer, and what is proved of every connection holds in it.
THEOREM SystemRunsServer == Spec => R!Spec
<1>1. Init => R!Init
  BY DEF Init
<1> QED BY <1>1, JointServer, PTL DEF Spec, R!Spec

\* ... and nothing the stream alone could not do, with clients that may still
\* call while the hub stops.
THEOREM SystemRunsStream == Spec => S!Spec
<1>1. Init => S!Init
  BY DEF Init
<1> QED BY <1>1, JointStream, PTL DEF Spec, S!Spec

-----------------------------------------------------------------------------
(* One holder.  Until the hub has stopped, the live supervisor is the one the *)
(* handle names.  After that nothing is claimed: stop() has dropped the       *)
(* handle, also that of a supervisor a late client started.                   *)

OneLive == \A t \in Tasks : S!Alive(t) => t = handle

Held == pc \in [Tasks -> S!PCs] /\ handle \in Tasks \cup {NoTask} /\ OneLive
HolderInv == hub # "stopped" => Held

\* create_task starts one, when no other lives
LEMMA SpawnHolder ==
  ASSUME NEW pcs \in [Tasks -> S!PCs], \A t \in Tasks : pcs[t] \in S!Dead, S!Spawn(pcs)
  PROVE  Held'
BY DEF S!Spawn, S!PCs, S!Dead, Held, OneLive, S!Alive

LEMMA EnsureRunningHolder ==
  ASSUME Held, S!EnsureRunning
  PROVE  Held'
<1>1. CASE S!Running
  BY <1>1 DEF S!EnsureRunning, Held, OneLive, S!Alive
<1>2. CASE ~S!Running
  <2>1. \A t \in Tasks : pc[t] \in S!Dead
    BY <1>2, StreamAssumption DEF S!TasksAssumption, Held, OneLive, S!Running, S!Alive
  <2> QED BY <1>2, <2>1, SpawnHolder DEF S!EnsureRunning, Held
<1> QED BY <1>1, <1>2

\* a step that brings no task back and changes no handle
LEMMA SameHolder ==
  ASSUME Held, pc' \in [Tasks -> S!PCs], UNCHANGED handle,
         \A t \in Tasks : S!Alive(t)' => S!Alive(t)
  PROVE  Held'
BY DEF Held, OneLive

LEMMA LoopHeadHolder ==
  ASSUME Held, NEW t \in Tasks, NEW b, S!Alive(t), S!LoopHead(t, b)
  PROVE  Held'
<1>1. t = handle /\ \A u \in Tasks : u # t => pc[u] \in S!Dead
  BY DEF Held, OneLive, S!Alive
<1>2. CASE S!NewConnection(t, b)
  <2>1. pc' \in [Tasks -> S!PCs] /\ UNCHANGED handle
    BY <1>2 DEF S!NewConnection, Held, S!PCs, S!Connected
  <2>2. \A u \in Tasks : S!Alive(u)' => S!Alive(u)
    BY <1>2 DEF S!NewConnection, Held, S!Alive
  <2> QED BY <2>1, <2>2, SameHolder
<1>3. CASE S!NormalExit(t)
  <2> DEFINE pcs == [pc EXCEPT ![t] = "done"]
  <2>1. pcs \in [Tasks -> S!PCs] /\ \A u \in Tasks : pcs[u] \in S!Dead
    BY <1>1 DEF Held, S!PCs, S!Dead
  <2>2. CASE S!Spawn(pcs)
    <3> HIDE DEF pcs
    <3> QED BY <2>1, <2>2, SpawnHolder
  <2>3. CASE handle' = NoTask /\ pc' = pcs
    BY <2>1, <2>3 DEF Held, OneLive, S!Alive
  <2> QED BY <1>3, <2>2, <2>3 DEF S!NormalExit
<1> QED BY <1>2, <1>3 DEF S!LoopHead

\* until the hub has stopped, no step of the stream starts a second supervisor
LEMMA StreamHolder ==
  ASSUME Held, S!Next
  PROVE  HolderInv'
<1>1. ASSUME UNCHANGED <<handle, pc>> PROVE Held'
  BY <1>1 DEF Held, OneLive, S!Alive
<1>2. ASSUME NEW d \in Conns \X Roles, S!ClientStep(d) PROVE Held'
  <2>1. CASE S!Describe(d) \/ S!Subscribe(d)
    BY <2>1, EnsureRunningHolder DEF S!Describe, S!Subscribe, S!Touch
  <2>2. CASE S!DescribeReply(d) \/ S!DescribeExpired(d) \/ S!Unsubscribe(d) \/ S!Get(d)
    BY <1>1, <2>2 DEF S!DescribeReply, S!DescribeExpired, S!StopDescribing, S!Unsubscribe,
       S!Get, S!taskVars
  <2> QED BY <1>2, <2>1, <2>2 DEF S!ClientStep
<1>3. ASSUME NEW t \in Tasks, S!TaskStep(t) PROVE Held'
  <2>1. CASE S!Start(t) \/ S!BackoffEnd(t)
    <3>1. S!Alive(t) /\ \E b : S!LoopHead(t, b)
      BY <2>1 DEF S!Start, S!BackoffEnd, S!Alive, S!Dead
    <3> QED BY <3>1, LoopHeadHolder
  <2>2. ASSUME NEW p \in S!PCs, S!Alive(t), pc' = [pc EXCEPT ![t] = p], UNCHANGED handle
        PROVE  Held'
    <3>1. pc' \in [Tasks -> S!PCs] /\ \A u \in Tasks : S!Alive(u)' => S!Alive(u)
      BY <2>2 DEF Held, S!Alive
    <3> QED BY <2>2, <3>1, SameHolder
  <2>3. CASE \/ \E f \in Frames : S!Frame(t, f)
             \/ S!Fail(t) \/ S!Crash(t) \/ S!ClosedForGood(t) \/ S!ClosedAfterFailure(t)
             \/ S!Cancelled(t)
    <3>1. S!Alive(t) /\ UNCHANGED handle
      BY <2>3 DEF S!Frame, S!Fail, S!Crash, S!ClosedForGood, S!ClosedAfterFailure,
         S!Cancelled, S!Alive, S!Dead, S!Closing
    <3>2. \E p \in S!PCs : pc' = [pc EXCEPT ![t] = p]
      <4>1. CASE \E f \in Frames : S!Frame(t, f)
        BY <4>1 DEF S!Frame, S!PCs, S!Connected, S!Closing
      <4>2. CASE S!Fail(t) \/ S!Crash(t)
        BY <4>2 DEF S!Fail, S!Crash, S!PCs, S!Connected, S!Closing
      <4>3. CASE S!ClosedForGood(t) \/ S!ClosedAfterFailure(t)
        BY <4>3 DEF S!ClosedForGood, S!ClosedAfterFailure, S!Finish, S!PCs, S!Dead
      <4>4. CASE S!Cancelled(t)
        BY <4>4 DEF S!Cancelled, S!Finish, S!PCs, S!Dead, S!Connected, S!Closing
      <4> QED BY <2>3, <4>1, <4>2, <4>3, <4>4
    <3> QED BY <2>2, <3>1, <3>2
  <2> QED BY <1>3, <2>1, <2>3 DEF S!TaskStep, S!Work
<1>4. CASE S!StopBegin \/ S!StopEnd
  <2>1. hub' = "stopped" \/ UNCHANGED <<handle, pc>>
    BY <1>4 DEF S!StopBegin, S!StopEnd
  <2> QED BY <1>1, <2>1 DEF HolderInv
<1>5. CASE S!Tick
  BY <1>1, <1>5 DEF S!Tick, HolderInv
<1> QED BY <1>2, <1>3, <1>4, <1>5 DEF S!Next, HolderInv

LEMMA InitHolder == Init => HolderInv
BY DEF Init, S!Init, HolderInv, Held, OneLive, S!Alive, S!Dead, S!PCs

\* a hub that has stopped stays so
LEMMA StaysStopped == ASSUME hub = "stopped", S!Next PROVE hub' = "stopped"
<1>1. ASSUME NEW d \in Conns \X Roles, S!ClientStep(d) PROVE UNCHANGED hub
  BY <1>1 DEF S!ClientStep, S!Describe, S!DescribeReply, S!DescribeExpired,
     S!StopDescribing, S!Subscribe, S!Unsubscribe, S!Get, S!hubVars
<1>2. ASSUME NEW t \in Tasks, S!TaskStep(t) PROVE UNCHANGED hub
  BY <1>2 DEF S!TaskStep, S!Work, S!Start, S!Frame, S!ClosedForGood,
     S!ClosedAfterFailure, S!BackoffEnd, S!Cancelled, S!Fail, S!Crash, S!LoopHead, S!hubVars
<1>3. CASE S!StopBegin \/ S!StopEnd \/ S!Tick
  BY <1>3 DEF S!StopBegin, S!StopEnd, S!Tick, S!hubVars
<1> QED BY <1>1, <1>2, <1>3 DEF S!Next

LEMMA StepHolder == HolderInv /\ [Next]_vars => HolderInv'
<1> SUFFICES ASSUME HolderInv, [Next]_vars PROVE HolderInv'
  OBVIOUS
<1>1. CASE UNCHANGED streamVars
  BY <1>1 DEF streamVars, HolderInv, Held, OneLive, S!Alive
<1>2. CASE S!Next
  BY <1>2, StreamHolder, StaysStopped DEF HolderInv
<1> QED BY <1>1, <1>2, JointStream DEF S!vars, S!taskVars, S!eventVars, S!setVars,
   S!hubVars, S!subVars, streamVars

\* However many clients there are, whenever they come and go and however they run
\* into the shutdown, the DVR sees at most one connection to a channel until
\* Stream.stop() is over.  That is also as long as it can hold: stop() drops the
\* handle of a supervisor that a client's late call started, and while the process
\* has not ended one more late call starts a second.
THEOREM OneHolderHolds == Spec => []OneHolder
<1>1. HolderInv => OneHolder
  <2> SUFFICES ASSUME Held
               PROVE  Cardinality({t \in Tasks : pc[t] \in S!Connected}) <= 1
    BY DEF OneHolder, HolderInv
  <2> DEFINE held == {t \in Tasks : pc[t] \in S!Connected}
  <2>1. CASE held = {}
    BY <2>1, FS_EmptySet
  <2>2. CASE held # {}
    <3>1. PICK t \in held : held = {t}
      BY <2>2 DEF Held, OneLive, S!Alive, S!Dead, S!Connected, S!Closing
    <3> HIDE DEF held
    <3>2. Cardinality(held) = 1
      BY <3>1, FS_Singleton
    <3> QED BY <3>2 DEF held
  <2> QED BY <2>1, <2>2
<1> QED BY <1>1, InitHolder, StepHolder, PTL DEF Spec

-----------------------------------------------------------------------------
(* As much of a connection's type as the agreement looks at.                 *)

Registrable == {"own", "orphan"}

Shaped(s) == /\ {"loop", "then", "registered"} \subseteq DOMAIN s
             /\ s.then \in R!Thens
             /\ s.registered \subseteq Registrable

\* the pieces of the handlers that only use the socket, the lock or the transport
Same(r, s) == /\ Shaped(r)
              /\ r.loop = s.loop /\ r.then = s.then /\ r.registered = s.registered

LEMMA PiecesSame ==
  ASSUME NEW s, Shaped(s)
  PROVE  /\ Same(R!LoopReleases(s), s) /\ Same(R!PumpReleases(s), s)
         /\ Same(R!ReleaseTransport(s), s) /\ Same(R!CloseWriter(s), s)
         /\ Same(R!CancelPump(s), s) /\ Same(R!ForgetPump(s), s)
<1>1. Same(R!LoopReleases(s), s)
  BY DEF R!LoopReleases, Same, Shaped
<1>2. Same(R!PumpReleases(s), s)
  BY DEF R!PumpReleases, Same, Shaped
<1>3. Same(R!ReleaseTransport(s), s)
  BY DEF R!ReleaseTransport, Same, Shaped
<1>4. Same(R!CloseWriter(s), s)
  BY DEF R!CloseWriter, Same, Shaped
<1>5. Same(R!CancelPump(s), s)
  BY DEF R!CancelPump, Same, Shaped
<1>6. Same(R!ForgetPump(s), s)
  BY DEF R!ForgetPump, Same, Shaped
<1> QED BY <1>1, <1>2, <1>3, <1>4, <1>5, <1>6

\* a step of one of a connection's tasks: where its request loop is afterwards,
\* and what it has registered
Goes(r, s, loops) == Shaped(r) /\ r.registered = s.registered /\ r.loop \in loops

LEMMA RespondGoes ==
  ASSUME NEW s, Shaped(s), NEW k \in R!Thens
  PROVE  Goes(R!Respond(s, k), s, {"send", "drain"})
BY DEF R!Respond, Goes, Shaped

LEMMA LoopShutGoes ==
  ASSUME NEW s, Shaped(s)
  PROVE  Goes(R!LoopShut(s), s, {"wait_closed"})
<1> DEFINE q == R!CloseWriter(R!ReleaseTransport(s))
<1>1. Same(q, s)
  BY PiecesSame DEF Same
<1> HIDE DEF q
<1>2. Goes([q EXCEPT !.loop = "wait_closed"], s, {"wait_closed"})
  BY <1>1 DEF Goes, Same, Shaped
<1> QED BY <1>2 DEF q, R!LoopShut

LEMMA LoopCloseGoes ==
  ASSUME NEW s, Shaped(s)
  PROVE  Goes(R!LoopClose(s), s, {"wait_closed", "close_play"})
<1> DEFINE q == R!CancelPump(s)
<1>1. Same(q, s)
  BY PiecesSame
<1> HIDE DEF q
<1>2. Goes([q EXCEPT !.loop = "close_play"], s, {"close_play"})
  BY <1>1 DEF Goes, Same, Shaped
<1> QED BY <1>2, LoopShutGoes DEF q, R!LoopClose, Goes

LEMMA TornDownGoes ==
  ASSUME NEW s, Shaped(s)
  PROVE  Goes(R!TornDown(s), s, {"idle"})
<1> DEFINE q == R!ReleaseTransport(s)
<1>1. Same(q, s)
  BY PiecesSame
<1> HIDE DEF q
<1>2. Goes([q EXCEPT !.stream = FALSE, !.loop = "idle"], s, {"idle"})
  BY <1>1 DEF Goes, Same, Shaped
<1> QED BY <1>2 DEF q, R!TornDown

LEMMA TeardownGoes ==
  ASSUME NEW s, Shaped(s)
  PROVE  Goes(R!Teardown(s), s, {"idle", "stop_play"})
<1> DEFINE q == R!CancelPump(s)
<1>1. Same(q, s)
  BY PiecesSame
<1> HIDE DEF q
<1>2. Goes([q EXCEPT !.loop = "stop_play"], s, {"stop_play"})
  BY <1>1 DEF Goes, Same, Shaped
<1> QED BY <1>2, TornDownGoes DEF q, R!Teardown, Goes

\* PLAY registers one subscriber at most, the pump's finally gives one back
Moves(r, s) ==
  /\ Shaped(r)
  /\ \/ r.registered = s.registered
     \/ r.registered = s.registered \cup {"own"}
     \/ "own" \in s.registered /\ r.registered = Registrable
     \/ r.registered = s.registered \ {"own"}

LEMMA StartPlayMoves ==
  ASSUME NEW s, Shaped(s)
  PROVE  Moves(R!StartPlay(s), s) /\ R!StartPlay(s).loop = "idle"
<1>1. CASE s.pump # "none"
  BY <1>1 DEF R!StartPlay, Moves, Shaped
<1>2. CASE s.pump = "none"
  <2> DEFINE R1 == IF "own" \in s.registered THEN {"own", "orphan"} ELSE s.registered \cup {"own"}
             r == [s EXCEPT !.loop = "idle", !.pump = "unstarted", !.registered = R1]
  <2>1. R1 \subseteq Registrable
    BY DEF Shaped, Registrable
  <2>2. /\ r.loop = "idle" /\ r.registered = R1 /\ r.then = s.then
        /\ {"loop", "then", "registered"} \subseteq DOMAIN r
    BY DEF Shaped
  <2>3. R!StartPlay(s) = r
    BY <1>2 DEF R!StartPlay
  <2>4. Moves(r, s)
    BY <2>1, <2>2 DEF Moves, Shaped, Registrable
  <2> QED BY <2>2, <2>3, <2>4
<1> QED BY <1>1, <1>2

LEMMA PumpFinallyMoves ==
  ASSUME NEW s, Shaped(s)
  PROVE  Moves(R!PumpFinally(s), s) /\ R!PumpFinally(s).loop = s.loop
<1> DEFINE q == R!PumpReleases(s)
<1>1. Same(q, s)
  BY PiecesSame
<1> HIDE DEF q
<1> DEFINE R1 == IF s.stream THEN q.registered \ {"own"} ELSE q.registered
           r == [q EXCEPT !.pump = "done", !.cancelled = FALSE, !.registered = R1]
<1>2. /\ r.loop = q.loop /\ r.registered = R1 /\ r.then = q.then
      /\ {"loop", "then", "registered"} \subseteq DOMAIN r
  BY <1>1 DEF Same, Shaped
<1>3. Moves(r, s) /\ r.loop = s.loop
  BY <1>1, <1>2 DEF Moves, Same, Shaped
<1> QED BY <1>3 DEF q, R!PumpFinally

-----------------------------------------------------------------------------
(* The steps of the server.                                                  *)

ConnsShaped == DOMAIN conn = Conns /\ \A c \in Conns : Shaped(conn[c])

\* neither the step before nor the step after waits in DESCRIBE, or both do
Step(c, r) == /\ R!Become(c, r) /\ Moves(r, conn[c])
              /\ (r.loop = "describing") <=> (conn[c].loop = "describing")

LEMMA GoesSteps ==
  ASSUME NEW c \in Conns, NEW r, NEW loops, Goes(r, conn[c], loops), R!Become(c, r),
         "describing" \notin loops, conn[c].loop # "describing"
  PROVE  Step(c, r)
BY DEF Goes, Step, Moves

LEMMA SameSteps ==
  ASSUME NEW c \in Conns, NEW r, R!Become(c, r), Shaped(r),
         r.loop = conn[c].loop, r.registered = conn[c].registered
  PROVE  Step(c, r)
BY DEF Step, Moves

LEMMA LoopSteps ==
  ASSUME ConnsShaped, NEW c \in Conns, R!LoopStep(c) \/ R!ReadFails(c)
  PROVE  \E r : Step(c, r)
<1> DEFINE s == conn[c]
<1>1. Shaped(s)
  BY DEF ConnsShaped
<1>2. CASE R!ClientStart(c)
  <2>1. Same(R!CloseWriter(s), s)
    BY <1>1, PiecesSame
  <2> DEFINE q == R!CloseWriter(s)
  <2> HIDE DEF q
  <2>2. Goes([q EXCEPT !.loop = "gone"], s, {"gone", "idle"})
    BY <1>1, <2>1 DEF Goes, Same, Shaped, q
  <2>3. Goes([s EXCEPT !.loop = "idle"], s, {"gone", "idle"})
    BY <1>1 DEF Goes, Shaped
  <2>4. PICK r : R!Become(c, r) /\ r \in {[q EXCEPT !.loop = "gone"], [s EXCEPT !.loop = "idle"]}
    BY <1>2 DEF R!ClientStart, q
  <2>5. s.loop # "describing"
    BY <1>2 DEF R!ClientStart
  <2> QED BY <2>2, <2>3, <2>4, <2>5, GoesSteps
<1>3. CASE R!Bound(c)
  <2> DEFINE q == [s EXCEPT !.udp = TRUE, !.sockets = @ + 1]
  <2>1. Same(q, s)
    BY <1>1 DEF Same, Shaped
  <2> HIDE DEF q
  <2>2. Goes(R!Respond(q, "next"), q, {"send", "drain"})
    BY <2>1, RespondGoes DEF Same, R!Thens
  <2>3. Goes(R!Respond(q, "next"), s, {"send", "drain"})
    BY <2>1, <2>2 DEF Goes, Same
  <2>4. R!Become(c, R!Respond(q, "next")) /\ s.loop # "describing"
    BY <1>3 DEF R!Bound, q
  <2> QED BY <2>3, <2>4, GoesSteps
<1>4. CASE R!BindFails(c) \/ R!ReadFails(c)
  <2>1. R!Become(c, R!LoopClose(s)) /\ s.loop # "describing"
    BY <1>4 DEF R!BindFails, R!ReadFails, R!Reads
  <2> QED BY <1>1, <2>1, LoopCloseGoes, GoesSteps
<1>5. CASE R!LoopGetsLock(c)
  <2>1. Goes([s EXCEPT !.loop = "drain"], s, {"drain"})
    BY <1>1 DEF Goes, Shaped
  <2> QED BY <1>5, <2>1, GoesSteps DEF R!LoopGetsLock
<1>6. CASE R!Drained(c)
  <2> DEFINE q == R!LoopReleases(s)
             p == [q EXCEPT !.then = "next"]
  <2>1. Same(q, s)
    BY <1>1, PiecesSame
  <2> HIDE DEF q
  <2>2. Shaped(p) /\ p.loop = s.loop /\ p.registered = s.registered
    BY <2>1 DEF Same, Shaped, R!Thens
  <2>3. R!Become(c, R!AfterResponse(q)) /\ s.loop = "drain"
    BY <1>6 DEF R!Drained, q
  <2> HIDE DEF p
  <2>4. CASE q.then = "next"
    <3>1. Goes([p EXCEPT !.loop = "idle"], s, {"idle"})
      BY <2>2 DEF Goes, Shaped
    <3>2. R!AfterResponse(q) = [p EXCEPT !.loop = "idle"]
      BY <2>4 DEF R!AfterResponse, p
    <3> QED BY <2>3, <3>1, <3>2, GoesSteps
  <2>5. CASE q.then = "play"
    <3>1. R!AfterResponse(q) = R!StartPlay(p)
      BY <2>5 DEF R!AfterResponse, p
    <3>2. Moves(R!StartPlay(p), s) /\ R!StartPlay(p).loop = "idle"
      BY <2>2, StartPlayMoves DEF Moves
    <3> QED BY <2>3, <3>1, <3>2 DEF Step
  <2>6. CASE q.then = "teardown"
    <3>1. R!AfterResponse(q) = R!Teardown(p)
      BY <2>6 DEF R!AfterResponse, p
    <3>2. Goes(R!Teardown(p), s, {"idle", "stop_play"})
      BY <2>2, TeardownGoes DEF Goes
    <3> QED BY <2>3, <3>1, <3>2, GoesSteps
  <2>7. CASE q.then = "end"
    <3>1. R!AfterResponse(q) = R!LoopClose(p)
      BY <2>7 DEF R!AfterResponse, p
    <3>2. Goes(R!LoopClose(p), s, {"wait_closed", "close_play"})
      BY <2>2, LoopCloseGoes DEF Goes
    <3> QED BY <2>3, <3>1, <3>2, GoesSteps
  <2> QED BY <2>1, <2>4, <2>5, <2>6, <2>7 DEF Same, Shaped, R!Thens
<1>7. CASE R!DrainFails(c)
  <2> DEFINE q == R!LoopReleases(s)
             p == [q EXCEPT !.then = "next"]
  <2>1. Same(q, s)
    BY <1>1, PiecesSame
  <2> HIDE DEF q
  <2>2. Shaped(p) /\ p.registered = s.registered
    BY <2>1 DEF Same, Shaped, R!Thens
  <2>3. /\ R!Become(c, R!LoopClose(p)) \/ R!Become(c, R!Respond(q, "end"))
        /\ s.loop = "drain"
    BY <1>7 DEF R!DrainFails, q
  <2> HIDE DEF p
  <2>4. Goes(R!LoopClose(p), s, {"wait_closed", "close_play"})
    BY <2>2, LoopCloseGoes DEF Goes
  <2>5. Goes(R!Respond(q, "end"), s, {"send", "drain"})
    BY <2>1, RespondGoes DEF Goes, Same, R!Thens
  <2> QED BY <2>3, <2>4, <2>5, GoesSteps
<1>8. CASE R!PlayStopped(c)
  <2> DEFINE q == R!ForgetPump(s)
  <2>1. Same(q, s)
    BY <1>1, PiecesSame
  <2> HIDE DEF q
  <2>2. Goes(R!TornDown(q), s, {"idle"}) /\ Goes(R!LoopShut(q), s, {"wait_closed"})
    BY <2>1, TornDownGoes, LoopShutGoes DEF Goes, Same
  <2>3. /\ R!Become(c, R!TornDown(q)) \/ R!Become(c, R!LoopShut(q))
        /\ s.loop # "describing"
    BY <1>8 DEF R!PlayStopped, q
  <2> QED BY <2>2, <2>3, GoesSteps
<1>9. CASE R!Gone(c)
  <2>1. Goes([s EXCEPT !.loop = "gone"], s, {"gone"})
    BY <1>1 DEF Goes, Shaped
  <2> QED BY <1>9, <2>1, GoesSteps DEF R!Gone
<1> QED BY <1>2, <1>3, <1>4, <1>5, <1>6, <1>7, <1>8, <1>9 DEF R!LoopStep

LEMMA PumpSends ==
  ASSUME ConnsShaped, NEW c \in Conns,
         R!PumpStart(c) \/ R!PumpFrame(c) \/ R!PumpGetsLock(c) \/ R!PumpCrash(c)
  PROVE  \E r : Step(c, r) /\ r.registered = conn[c].registered
<1> DEFINE s == conn[c]
<1>1. Shaped(s)
  BY DEF ConnsShaped
<1>2. \A p, l : /\ Same([s EXCEPT !.pump = p], s)
                /\ Same([s EXCEPT !.pump = p, !.lock = l], s)
  BY <1>1 DEF Same, Shaped
<1>3. \E r : R!Become(c, r) /\ Same(r, s)
  <2>1. CASE R!PumpStart(c) \/ R!PumpGetsLock(c)
    BY <1>2, <2>1 DEF R!PumpStart, R!PumpGetsLock
  <2>2. CASE R!PumpFrame(c)
    BY <1>2, <2>2 DEF R!PumpFrame
  <2>3. CASE R!PumpCrash(c)
    BY <1>2, <2>3 DEF R!PumpCrash, R!Crashed
  <2> QED BY <2>1, <2>2, <2>3
<1> QED BY <1>3, SameSteps DEF Same

LEMMA PumpSteps ==
  ASSUME ConnsShaped, NEW c \in Conns, R!PumpStep(c)
  PROVE  \E r : Step(c, r)
<1> DEFINE s == conn[c]
<1>1. Shaped(s)
  BY DEF ConnsShaped
<1>2. CASE R!PumpStart(c) \/ R!PumpGetsLock(c)
  BY <1>2, PumpSends
<1>3. CASE R!PumpDrained(c)
  <2> DEFINE q == R!PumpReleases(s)
  <2>1. Same(q, s)
    BY <1>1, PiecesSame
  <2> HIDE DEF q
  <2>2. Same([q EXCEPT !.pump = "waiting"], s) /\ Same(R!Crashed(q), s)
    BY <2>1 DEF Same, Shaped, R!Crashed
  <2>3. \/ R!Become(c, [q EXCEPT !.pump = "waiting"]) \/ R!Become(c, R!Crashed(q))
        \/ R!Become(c, R!PumpFinally(s))
    BY <1>3 DEF R!PumpDrained, q
  <2>4. Moves(R!PumpFinally(s), s) /\ R!PumpFinally(s).loop = s.loop
    BY <1>1, PumpFinallyMoves
  <2>5. ASSUME R!Become(c, [q EXCEPT !.pump = "waiting"]) \/ R!Become(c, R!Crashed(q))
        PROVE  \E r : Step(c, r)
    BY <2>2, <2>5, SameSteps DEF Same
  <2>6. ASSUME R!Become(c, R!PumpFinally(s)) PROVE \E r : Step(c, r)
    BY <2>4, <2>6 DEF Step
  <2> QED BY <2>3, <2>5, <2>6
<1>4. CASE R!PumpErring(c)
  <2> DEFINE q == R!CloseWriter(s)
  <2>1. Same(q, s)
    BY <1>1, PiecesSame
  <2>2. R!Become(c, R!PumpFinally(q))
    BY <1>4 DEF R!PumpErring
  <2> HIDE DEF q
  <2>3. Moves(R!PumpFinally(q), s) /\ R!PumpFinally(q).loop = s.loop
    BY <2>1, PumpFinallyMoves DEF Same, Moves
  <2> QED BY <2>2, <2>3 DEF Step
<1>5. CASE R!PumpCancelled(c)
  <2> DEFINE p == [s EXCEPT !.pump = "done", !.cancelled = FALSE]
  <2>1. Same(p, s)
    BY <1>1 DEF Same, Shaped
  <2>2. Moves(R!PumpFinally(s), s) /\ R!PumpFinally(s).loop = s.loop
    BY <1>1, PumpFinallyMoves
  <2>3. R!Become(c, p) \/ R!Become(c, R!PumpFinally(s))
    BY <1>5 DEF R!PumpCancelled
  <2> HIDE DEF p
  <2>4. ASSUME R!Become(c, p) PROVE \E r : Step(c, r)
    BY <2>1, <2>4, SameSteps DEF Same
  <2>5. ASSUME R!Become(c, R!PumpFinally(s)) PROVE \E r : Step(c, r)
    BY <2>2, <2>5 DEF Step
  <2> QED BY <2>3, <2>4, <2>5
<1> QED BY <1>2, <1>3, <1>4, <1>5 DEF R!PumpStep

LEMMA CloserSteps ==
  ASSUME ConnsShaped, NEW c \in Conns, R!CloserStep(c)
  PROVE  \E r : Step(c, r)
<1> DEFINE s == conn[c]
<1>1. Shaped(s)
  BY DEF ConnsShaped
<1>2. ASSUME NEW q, Same(q, s), NEW k PROVE Same([q EXCEPT !.closer = k], s)
  BY <1>2 DEF Same, Shaped
<1>3. ASSUME NEW q, Same(q, s) PROVE Same(R!CloserShut(q), s)
  <2> DEFINE p == R!CloseWriter(R!ReleaseTransport(q))
  <2>1. Same(p, s)
    BY <1>3, PiecesSame DEF Same
  <2> HIDE DEF p
  <2>2. Same([p EXCEPT !.closer = "wait_closed"], s)
    BY <1>2, <2>1
  <2> QED BY <2>2 DEF p, R!CloserShut
<1>4. Same(s, s) /\ Same(R!CancelPump(s), s) /\ Same(R!ForgetPump(s), s)
  BY <1>1, PiecesSame DEF Same
<1>5. \E r : R!Become(c, r) /\ Same(r, s)
  <2>1. CASE R!CloserStart(c)
    BY <1>2, <1>3, <1>4, <2>1 DEF R!CloserStart
  <2>2. CASE R!CloserPlayStopped(c)
    BY <1>3, <1>4, <2>2 DEF R!CloserPlayStopped
  <2>3. CASE R!CloserDone(c)
    BY <1>2, <1>4, <2>3 DEF R!CloserDone
  <2> QED BY <2>1, <2>2, <2>3 DEF R!CloserStep
<1> QED BY <1>5, SameSteps DEF Same

\* the requests that call nobody, and the client's end of the socket
LEMMA ClientSteps ==
  ASSUME ConnsShaped, NEW c \in Conns, R!Client(c) \/ R!SocketCloses(c)
  PROVE  \E r : Step(c, r) /\ r.registered = conn[c].registered
<1> DEFINE s == conn[c]
<1>1. Shaped(s)
  BY DEF ConnsShaped
<1>2. ASSUME NEW q, Same(q, s), NEW k \in R!Thens, s.loop = "idle", R!Become(c, R!Respond(q, k))
      PROVE  \E r : Step(c, r) /\ r.registered = s.registered
  <2>1. Goes(R!Respond(q, k), q, {"send", "drain"})
    BY <1>2, RespondGoes DEF Same
  <2>2. Goes(R!Respond(q, k), s, {"send", "drain"})
    BY <1>2, <2>1 DEF Goes, Same
  <2> QED BY <1>2, <2>2, GoesSteps DEF Goes
<1>3. CASE R!Accept(c)
  <2>1. Goes([s EXCEPT !.loop = "accepted", !.sock = "open"], s, {"accepted"})
    BY <1>1 DEF Goes, Shaped
  <2> QED BY <1>3, <2>1, GoesSteps DEF R!Accept, Goes
<1>4. CASE R!SetupTcp(c) \/ R!SetupUnsupported(c) \/ R!SetupUdp(c)
  <2> DEFINE q == R!ReleaseTransport(s)
             p == R!Resetup(s)
  <2>1. Same(q, s)
    BY <1>1, PiecesSame
  <2>2. p = [q EXCEPT !.stream = TRUE]
    BY DEF R!Resetup
  <2> HIDE DEF q
  <2>3. Same(p, s) /\ Same([p EXCEPT !.tcp = TRUE], s)
    BY <2>1, <2>2 DEF Same, Shaped
  <2>4. s.loop = "idle"
    BY <1>4 DEF R!SetupTcp, R!SetupUnsupported, R!SetupUdp, R!Reads
  <2>5. \/ R!Become(c, R!Respond([p EXCEPT !.tcp = TRUE], "next"))
        \/ R!Become(c, R!Respond(p, "next"))
        \/ R!Become(c, [p EXCEPT !.loop = "binding"])
    BY <1>4 DEF R!SetupTcp, R!SetupUnsupported, R!SetupUdp
  <2> HIDE DEF p
  <2>6. Goes([p EXCEPT !.loop = "binding"], s, {"binding"})
    BY <2>3 DEF Goes, Same, Shaped
  <2>7. ASSUME R!Become(c, [p EXCEPT !.loop = "binding"])
        PROVE  \E r : Step(c, r) /\ r.registered = s.registered
    BY <2>4, <2>6, <2>7, GoesSteps DEF Goes
  <2> QED BY <1>2, <2>3, <2>4, <2>5, <2>7 DEF R!Thens
<1>5. CASE R!Plain(c) \/ R!Malformed(c) \/ R!SetupRefused(c) \/ R!Play(c) \/ R!TeardownRequest(c)
  <2> DEFINE p == R!ReleaseTransport(s)
  <2>1. Same(s, s) /\ Same(p, s)
    BY <1>1, PiecesSame DEF Same
  <2>2. /\ s.loop = "idle"
        /\ \E q \in {s, p}, k \in R!Thens : R!Become(c, R!Respond(q, k))
    BY <1>5 DEF R!Plain, R!Malformed, R!SetupRefused, R!Play, R!TeardownRequest, R!Reads,
       R!Thens
  <2> HIDE DEF p
  <2> QED BY <1>2, <2>1, <2>2
<1>6. CASE R!Stall(c) \/ R!ClientLost(c) \/ R!SocketCloses(c)
  <2>1. Same([s EXCEPT !.sock = "closed"], s) /\ Same([s EXCEPT !.stalled = ~@], s)
    BY <1>1 DEF Same, Shaped
  <2>2. \/ R!Become(c, [s EXCEPT !.sock = "closed"])
        \/ R!Become(c, [s EXCEPT !.stalled = ~@])
    BY <1>6 DEF R!Stall, R!ClientLost, R!SocketCloses
  <2> QED BY <2>1, <2>2, SameSteps DEF Same
<1> QED BY <1>3, <1>4, <1>5, <1>6 DEF R!Client, R!Request

\* DESCRIBE begins to wait, and waits no longer
LEMMA DescribeBegins ==
  ASSUME ConnsShaped, NEW c \in Conns, R!Describe(c)
  PROVE  /\ conn[c].loop # "describing"
         /\ \E r : /\ R!Become(c, r) /\ Shaped(r)
                   /\ r.registered = conn[c].registered /\ r.loop = "describing"
<1>1. Shaped(conn[c])
  BY DEF ConnsShaped
<1> QED BY <1>1 DEF R!Describe, R!Reads, Shaped

LEMMA DescribeReturns ==
  ASSUME ConnsShaped, NEW c \in Conns, R!DescribeEnds(c)
  PROVE  \E r : /\ R!Become(c, r) /\ Shaped(r)
                /\ r.registered = conn[c].registered /\ r.loop # "describing"
<1>1. Shaped(conn[c])
  BY DEF ConnsShaped
<1>2. CASE R!DescribeDone(c)
  <2>1. Goes(R!Respond(conn[c], "next"), conn[c], {"send", "drain"})
    BY <1>1, RespondGoes DEF R!Thens
  <2> QED BY <1>2, <2>1 DEF R!DescribeDone, Goes
<1>3. CASE R!SdpFails(c)
  <2>1. Goes(R!LoopClose(conn[c]), conn[c], {"wait_closed", "close_play"})
    BY <1>1, LoopCloseGoes
  <2> QED BY <1>3, <2>1 DEF R!SdpFails, Goes
<1> QED BY <1>2, <1>3 DEF R!DescribeEnds

-----------------------------------------------------------------------------
(* The steps of the stream: whom it serves.                                  *)

Identities == Conns \X Roles

\* what no caller does changes nobody's state but that of a waiting DESCRIBE
LEMMA TasksServe ==
  ASSUME DOMAIN client = Identities,
         (\E t \in Tasks : S!TaskStep(t)) \/ S!StopBegin \/ S!StopEnd \/ S!Tick
  PROVE  /\ DOMAIN client' = Identities
         /\ \A d \in Identities : \/ client'[d] = client[d]
                                  \/ client[d] = "describing" /\ client'[d] = "woken"
<1>1. ASSUME NEW f \in Frames, S!OnFrame(f)
      PROVE  /\ DOMAIN client' = Identities
             /\ \A d \in Identities : \/ client'[d] = client[d]
                                      \/ client[d] = "describing" /\ client'[d] = "woken"
  BY <1>1 DEF S!OnFrame, Identities
<1>2. CASE S!StopBegin \/ S!StopEnd \/ S!Tick
  BY <1>2 DEF S!StopBegin, S!StopEnd, S!Tick
<1>3. ASSUME NEW t \in Tasks, S!TaskStep(t)
      PROVE  UNCHANGED client \/ \E f \in Frames : S!OnFrame(f)
  BY <1>3 DEF S!TaskStep, S!Work, S!Start, S!Frame, S!ClosedForGood, S!ClosedAfterFailure,
     S!BackoffEnd, S!Cancelled, S!Fail, S!Crash, S!LoopHead
<1> QED BY <1>1, <1>2, <1>3

LEMMA SubscriberMoves ==
  ASSUME DOMAIN client = Identities, NEW c \in Conns, NEW role \in {"play", "replay"},
         NEW v, client' = [client EXCEPT ![<<c, role>>] = v]
  PROVE  /\ DOMAIN client' = Identities
         /\ Playing(c)' = IF v = "playing" THEN Playing(c) \cup {role} ELSE Playing(c) \ {role}
         /\ \A d \in Conns : /\ client'[Waiter(d)] = client[Waiter(d)]
                             /\ d # c => Playing(d)' = Playing(d)
<1>1. <<c, role>> \in Identities /\ DOMAIN client' = Identities
  BY DEF Identities, Roles
<1>2. \A d \in Conns, q \in Roles :
        client'[<<d, q>>] = IF d = c /\ q = role THEN v ELSE client[<<d, q>>]
  BY <1>1 DEF Identities
<1>3. \A d \in Conns : client'[Waiter(d)] = client[Waiter(d)]
  BY <1>2 DEF Waiter, Roles
<1>4. \A d \in Conns : d # c => Playing(d)' = Playing(d)
  BY <1>2 DEF Playing, Roles
<1>5. Playing(c)' = IF v = "playing" THEN Playing(c) \cup {role} ELSE Playing(c) \ {role}
  BY <1>2 DEF Playing, Roles
<1> QED BY <1>1, <1>3, <1>4, <1>5

LEMMA WaiterMoves ==
  ASSUME DOMAIN client = Identities, NEW c \in Conns, NEW v,
         client[Waiter(c)] # "playing", v # "playing",
         client' = [client EXCEPT ![Waiter(c)] = v]
  PROVE  /\ DOMAIN client' = Identities
         /\ client'[Waiter(c)] = v
         /\ \A d \in Conns : /\ Playing(d)' = Playing(d)
                             /\ d # c => client'[Waiter(d)] = client[Waiter(d)]
<1>1. Waiter(c) \in Identities /\ DOMAIN client' = Identities
  BY DEF Identities, Roles, Waiter
<1>2. \A d \in Conns, q \in Roles :
        client'[<<d, q>>] = IF d = c /\ q = "describe" THEN v ELSE client[<<d, q>>]
  BY <1>1 DEF Identities, Waiter
<1>3. \A d \in Conns : client'[Waiter(d)] = IF d = c THEN v ELSE client[Waiter(d)]
  BY <1>2 DEF Waiter, Roles
<1>4. \A d \in Conns : Playing(d)' = Playing(d)
  BY <1>2 DEF Playing, Roles
<1> QED BY <1>1, <1>3, <1>4

-----------------------------------------------------------------------------
(* Both together.                                                            *)

\* server.py 289, 343 and 355 with hub.py 107-119: server and hub agree on who is
\* subscribed and who waits in DESCRIBE
SubscribersAgree ==
  \A c \in Conns : /\ Cardinality(Playing(c)) = Cardinality(conn[c].registered)
                   /\ (client[Waiter(c)] = "away") <=> (conn[c].loop # "describing")

AgreeInv == ConnsShaped /\ DOMAIN client = Identities /\ SubscribersAgree

LEMMA PairCardinality ==
  ASSUME NEW a, NEW b, a # b, NEW X \in SUBSET {a, b}
  PROVE  Cardinality(X) = (IF a \in X THEN 1 ELSE 0) + (IF b \in X THEN 1 ELSE 0)
<1>1. Cardinality({}) = 0 /\ IsFiniteSet({})
  BY FS_EmptySet
<1>2. \A x : Cardinality({x}) = 1 /\ IsFiniteSet({x})
  BY FS_Singleton
<1>3. CASE X = {a, b}
  <2>1. Cardinality({b} \cup {a}) = Cardinality({b}) + 1
    BY <1>2, FS_AddElement
  <2>2. X = {b} \cup {a}
    BY <1>3
  <2> QED BY <1>2, <1>3, <2>1, <2>2
<1>4. CASE X = {a}
  BY <1>2, <1>4
<1>5. CASE X = {b}
  BY <1>2, <1>5
<1>6. CASE X = {}
  BY <1>1, <1>6
<1> QED BY <1>3, <1>4, <1>5, <1>6

LEMMA RolesCounted ==
  ASSUME NEW X \in SUBSET {"play", "replay"}
  PROVE  Cardinality(X) = (IF "play" \in X THEN 1 ELSE 0) + (IF "replay" \in X THEN 1 ELSE 0)
<1>1. "play" # "replay"
  OBVIOUS
<1> QED BY <1>1, PairCardinality

\* the agreement about one connection
Agrees(d) == /\ Cardinality(Playing(d)) = Cardinality(conn[d].registered)
             /\ (client[Waiter(d)] = "away") <=> (conn[d].loop # "describing")

LEMMA AgreeEach ==
  ASSUME AgreeInv, NEW c \in Conns, ConnsShaped', DOMAIN client' = Identities,
         \A d \in Conns : d # c => /\ conn'[d] = conn[d] /\ Playing(d)' = Playing(d)
                                   /\ client'[Waiter(d)] = client[Waiter(d)],
         Cardinality(Playing(c)') = Cardinality(conn'[c].registered),
         (client'[Waiter(c)] = "away") <=> (conn'[c].loop # "describing")
  PROVE  AgreeInv'
<1>1. \A d \in Conns : Waiter(d)' = Waiter(d)
  BY DEF Waiter
<1>2. ASSUME NEW d \in Conns PROVE Agrees(d)'
  <2>1. CASE d = c
    BY <1>1, <2>1 DEF Agrees
  <2>2. CASE d # c
    <3>1. Agrees(d)
      BY DEF AgreeInv, SubscribersAgree, Agrees
    <3>2. conn'[d] = conn[d] /\ Playing(d)' = Playing(d) /\ client'[Waiter(d)] = client[Waiter(d)]
      BY <2>2
    <3> QED BY <1>1, <3>1, <3>2 DEF Agrees
  <2> QED BY <2>1, <2>2
<1>3. SubscribersAgree'
  BY <1>2 DEF SubscribersAgree, Agrees
<1> QED BY <1>3 DEF AgreeInv

LEMMA BecomeConn ==
  ASSUME ConnsShaped, NEW c \in Conns, NEW r, R!Become(c, r), Shaped(r)
  PROVE  ConnsShaped' /\ conn'[c] = r /\ \A d \in Conns : d # c => conn'[d] = conn[d]
BY DEF ConnsShaped, R!Become

\* a step of the server that calls nobody
LEMMA QuietAgrees ==
  ASSUME AgreeInv, NEW c \in Conns, NEW r, Step(c, r), r.registered = conn[c].registered,
         UNCHANGED client
  PROVE  AgreeInv'
<1>1. ConnsShaped' /\ conn'[c] = r /\ \A d \in Conns : d # c => conn'[d] = conn[d]
  BY BecomeConn DEF AgreeInv, Step, Moves
<1>2. \A d \in Conns : Playing(d)' = Playing(d) /\ client'[Waiter(d)] = client[Waiter(d)]
  BY DEF Playing, Waiter
<1> QED BY <1>1, <1>2 DEF AgreeInv, SubscribersAgree, Step

\* a step that registers a subscriber, or gives one back, tells the hub
LEMMA CallAgrees ==
  ASSUME AgreeInv, NEW c \in Conns, NEW r, Step(c, r), CallStream(c)
  PROVE  AgreeInv'
<1> DEFINE X == conn[c].registered
           Y == r.registered
<1>1. ConnsShaped' /\ conn'[c] = r /\ \A d \in Conns : d # c => conn'[d] = conn[d]
  BY BecomeConn DEF AgreeInv, Step, Moves
<1>2. X \in SUBSET {"own", "orphan"} /\ Y \in SUBSET {"own", "orphan"}
  BY DEF AgreeInv, ConnsShaped, Shaped, Step, Moves, Registrable
<1>3. /\ Cardinality(X) = (IF "own" \in X THEN 1 ELSE 0) + (IF "orphan" \in X THEN 1 ELSE 0)
      /\ Cardinality(Y) = (IF "own" \in Y THEN 1 ELSE 0) + (IF "orphan" \in Y THEN 1 ELSE 0)
  BY <1>2, PairCardinality
<1>4. Playing(c) \in SUBSET {"play", "replay"}
  BY DEF Playing
<1>5. Cardinality(Playing(c)) = (IF "play" \in Playing(c) THEN 1 ELSE 0)
                                 + (IF "replay" \in Playing(c) THEN 1 ELSE 0)
  BY <1>4, RolesCounted
<1>6. Cardinality(Playing(c)) = Cardinality(X)
  BY DEF AgreeInv, SubscribersAgree
<1>7. \/ Cardinality(Y) = Cardinality(X) \/ Cardinality(Y) = Cardinality(X) + 1
      \/ Cardinality(Y) = Cardinality(X) - 1
  BY <1>2, <1>3 DEF Step, Moves, Registrable
<1>8. (r.loop = "describing") <=> (conn[c].loop = "describing")
  BY DEF Step
<1>9. ASSUME NEW role \in {"play", "replay"}, NEW v, client' = [client EXCEPT ![<<c, role>>] = v],
             \/ v = "playing" /\ role \notin Playing(c) /\ Cardinality(Y) = Cardinality(X) + 1
             \/ v = "away" /\ role \in Playing(c) /\ Cardinality(Y) = Cardinality(X) - 1
      PROVE  AgreeInv'
  <2>1. /\ DOMAIN client' = Identities
        /\ Playing(c)' = IF v = "playing" THEN Playing(c) \cup {role} ELSE Playing(c) \ {role}
        /\ \A d \in Conns : /\ client'[Waiter(d)] = client[Waiter(d)]
                            /\ d # c => Playing(d)' = Playing(d)
    BY <1>9, SubscriberMoves DEF AgreeInv
  <2> DEFINE P == IF v = "playing" THEN Playing(c) \cup {role} ELSE Playing(c) \ {role}
  <2>2. Cardinality(P) = (IF "play" \in P THEN 1 ELSE 0) + (IF "replay" \in P THEN 1 ELSE 0)
    <3>1. P \in SUBSET {"play", "replay"}
      <4>1. Playing(c) \cup {role} \in SUBSET {"play", "replay"}
        BY <1>4, <1>9
      <4>2. Playing(c) \ {role} \in SUBSET {"play", "replay"}
        BY <1>4
      <4> QED BY <4>1, <4>2
    <3> HIDE DEF P
    <3> QED BY <3>1, RolesCounted
  <2>3. Cardinality(P) = Cardinality(Y)
    BY <1>3, <1>5, <1>6, <1>9, <2>2
  <2> HIDE DEF P, X, Y
  <2>4. Playing(c)' = P
    BY <2>1 DEF P
  <2>5. Cardinality(Playing(c)') = Cardinality(conn'[c].registered)
    BY <1>1, <2>3, <2>4 DEF Y
  <2>6. (client'[Waiter(c)] = "away") <=> (conn'[c].loop # "describing")
    <3>1. client'[Waiter(c)] = client[Waiter(c)]
      BY <2>1
    <3>2. (client[Waiter(c)] = "away") <=> (conn[c].loop # "describing")
      BY DEF AgreeInv, SubscribersAgree
    <3>3. conn'[c] = r
      BY <1>1
    <3> QED BY <1>8, <3>1, <3>2, <3>3
  <2>7. \A d \in Conns : d # c => /\ conn'[d] = conn[d] /\ Playing(d)' = Playing(d)
                                  /\ client'[Waiter(d)] = client[Waiter(d)]
    BY <1>1, <2>1
  <2>8. ConnsShaped' /\ DOMAIN client' = Identities
    BY <1>1, <2>1
  <2> QED BY <2>5, <2>6, <2>7, <2>8, AgreeEach
<1>10. CASE Cardinality(Y) = Cardinality(X)
  <2>1. UNCHANGED client
    BY <1>1, <1>3, <1>10 DEF CallStream, streamVars
  <2>2. \A d \in Conns : Playing(d)' = Playing(d) /\ client'[Waiter(d)] = client[Waiter(d)]
    BY <2>1 DEF Playing, Waiter
  <2> QED BY <1>1, <1>6, <1>8, <1>10, <2>1, <2>2 DEF AgreeInv, SubscribersAgree
<1>11. CASE Cardinality(Y) = Cardinality(X) + 1
  <2> DEFINE role == IF "play" \in Playing(c) THEN "replay" ELSE "play"
  <2>1. S!Subscribe(NextSub(c))
    BY <1>1, <1>3, <1>11 DEF CallStream
  <2>2. client' = [client EXCEPT ![<<c, role>>] = "playing"]
    BY <2>1 DEF S!Subscribe, NextSub
  <2>3. role \notin Playing(c)
    BY <1>3, <1>5, <1>6, <1>11
  <2> QED BY <1>9, <1>11, <2>2, <2>3
<1>12. CASE Cardinality(Y) = Cardinality(X) - 1
  <2> DEFINE role == IF "replay" \in Playing(c) THEN "replay" ELSE "play"
  <2>1. S!Unsubscribe(Sub(c))
    BY <1>1, <1>3, <1>12 DEF CallStream
  <2>2. client' = [client EXCEPT ![<<c, role>>] = "away"] /\ client[<<c, role>>] = "playing"
    BY <2>1 DEF S!Unsubscribe, Sub
  <2>3. role \in Playing(c)
    BY <2>2 DEF Playing
  <2> QED BY <1>9, <1>12, <2>2, <2>3
<1> QED BY <1>7, <1>10, <1>11, <1>12

LEMMA DescribeAgrees ==
  ASSUME AgreeInv, NEW c \in Conns, Describe(c)
  PROVE  AgreeInv'
<1>1. PICK r : /\ conn[c].loop # "describing" /\ R!Become(c, r) /\ Shaped(r)
               /\ r.registered = conn[c].registered /\ r.loop = "describing"
  BY DescribeBegins DEF AgreeInv, Describe
<1>2. ConnsShaped' /\ conn'[c] = r /\ \A d \in Conns : d # c => conn'[d] = conn[d]
  BY <1>1, BecomeConn DEF AgreeInv
<1>3. PICK v : v \in {"woken", "describing"} /\ client' = [client EXCEPT ![Waiter(c)] = v]
  BY DEF Describe, S!Describe
<1>4. client[Waiter(c)] = "away"
  BY DEF Describe, S!Describe
<1>5. /\ DOMAIN client' = Identities /\ client'[Waiter(c)] = v
      /\ \A d \in Conns : /\ Playing(d)' = Playing(d)
                          /\ d # c => client'[Waiter(d)] = client[Waiter(d)]
  BY <1>3, <1>4, WaiterMoves DEF AgreeInv
<1>6. Cardinality(Playing(c)') = Cardinality(conn'[c].registered)
  BY <1>1, <1>2, <1>5 DEF AgreeInv, SubscribersAgree
<1>7. (client'[Waiter(c)] = "away") <=> (conn'[c].loop # "describing")
  BY <1>1, <1>2, <1>3, <1>5
<1> QED BY <1>2, <1>5, <1>6, <1>7, AgreeEach

LEMMA DescribeEndsAgrees ==
  ASSUME AgreeInv, NEW c \in Conns, DescribeEnds(c)
  PROVE  AgreeInv'
<1>1. R!DescribeEnds(c)
  BY DEF DescribeEnds, R!DescribeEnds
<1>2. PICK r : /\ R!Become(c, r) /\ Shaped(r)
               /\ r.registered = conn[c].registered /\ r.loop # "describing"
  BY <1>1, DescribeReturns DEF AgreeInv
<1>3. ConnsShaped' /\ conn'[c] = r /\ \A d \in Conns : d # c => conn'[d] = conn[d]
  BY <1>2, BecomeConn DEF AgreeInv
<1>4. /\ client[Waiter(c)] # "playing"
      /\ client' = [client EXCEPT ![Waiter(c)] = "away"]
  BY DEF DescribeEnds, S!DescribeExpired, S!DescribeReply, S!StopDescribing
<1>5. /\ DOMAIN client' = Identities /\ client'[Waiter(c)] = "away"
      /\ \A d \in Conns : /\ Playing(d)' = Playing(d)
                          /\ d # c => client'[Waiter(d)] = client[Waiter(d)]
  BY <1>4, WaiterMoves DEF AgreeInv
<1>6. Cardinality(Playing(c)') = Cardinality(conn'[c].registered)
  BY <1>2, <1>3, <1>5 DEF AgreeInv, SubscribersAgree
<1>7. (client'[Waiter(c)] = "away") <=> (conn'[c].loop # "describing")
  BY <1>2, <1>3, <1>5
<1> QED BY <1>3, <1>5, <1>6, <1>7, AgreeEach

\* the supervisor, the clock and the hub's stop()
LEMMA HubAgrees ==
  ASSUME AgreeInv, UNCHANGED conn,
         (\E t \in Tasks : S!TaskStep(t)) \/ S!StopBegin \/ S!StopEnd \/ S!Tick
  PROVE  AgreeInv'
<1>1. /\ DOMAIN client' = Identities
      /\ \A d \in Identities : \/ client'[d] = client[d]
                               \/ client[d] = "describing" /\ client'[d] = "woken"
  BY TasksServe DEF AgreeInv
<1>2. \A d \in Conns, q \in Roles : <<d, q>> \in Identities
  BY DEF Identities
<1>3. \A d \in Conns : Playing(d)' = Playing(d)
  <2> SUFFICES ASSUME NEW d \in Conns, NEW q \in {"play", "replay"}
               PROVE  (client'[<<d, q>>] = "playing") <=> (client[<<d, q>>] = "playing")
    BY DEF Playing
  <2> QED BY <1>1, <1>2 DEF Roles
<1>4. \A d \in Conns : (client'[Waiter(d)] = "away") <=> (client[Waiter(d)] = "away")
  BY <1>1, <1>2 DEF Waiter, Roles
<1>5. \A d \in Conns : (client'[Waiter(d)] = "away") = (conn'[d].loop # "describing")
  BY <1>4 DEF AgreeInv, SubscribersAgree
<1>6. \A d \in Conns : Cardinality(Playing(d)') = Cardinality(conn'[d].registered)
  BY <1>3 DEF AgreeInv, SubscribersAgree
<1>7. \A d \in Conns : Waiter(d)' = Waiter(d)
  BY DEF Waiter
<1>8. ConnsShaped'
  BY DEF AgreeInv, ConnsShaped
<1> QED BY <1>1, <1>5, <1>6, <1>7, <1>8 DEF AgreeInv, SubscribersAgree

LEMMA StopAgrees ==
  ASSUME AgreeInv, ServerStopBegin
  PROVE  AgreeInv'
<1>1. \A c \in Conns : Same([conn[c] EXCEPT !.closer = "scheduled"], conn[c])
  BY DEF AgreeInv, ConnsShaped, Same, Shaped
<1>2. /\ DOMAIN conn' = Conns
      /\ \A c \in Conns : conn'[c] \in {conn[c], [conn[c] EXCEPT !.closer = "scheduled"]}
  BY DEF ServerStopBegin, R!StopBegin
<1>3. \A c \in Conns : Same(conn'[c], conn[c])
  BY <1>1, <1>2 DEF AgreeInv, ConnsShaped, Same
<1>4. UNCHANGED client
  BY DEF ServerStopBegin, streamVars
<1>5. \A d \in Conns : Playing(d)' = Playing(d) /\ client'[Waiter(d)] = client[Waiter(d)]
  BY <1>4 DEF Playing, Waiter
<1>6. ConnsShaped'
  BY <1>2, <1>3 DEF ConnsShaped, Same
<1> QED BY <1>3, <1>4, <1>5, <1>6 DEF AgreeInv, SubscribersAgree, Same

LEMMA InitAgrees == Init => AgreeInv
<1> SUFFICES ASSUME Init PROVE AgreeInv
  OBVIOUS
<1>1. /\ conn = [c \in Conns |-> R!Absent]
      /\ client = [d \in Identities |-> "away"]
  BY DEF Init, R!Init, S!Init, Identities
<1>2. Shaped(R!Absent) /\ R!Absent.registered = {} /\ R!Absent.loop = "absent"
  BY DEF R!Absent, Shaped, R!Thens
<1>3. ConnsShaped
  BY <1>1, <1>2 DEF ConnsShaped
<1>4. \A d \in Conns, q \in Roles : client[<<d, q>>] = "away"
  BY <1>1 DEF Identities
<1>5. \A d \in Conns : Playing(d) = {} /\ client[Waiter(d)] = "away"
  BY <1>4 DEF Playing, Waiter, Roles
<1>6. Cardinality({}) = 0
  BY FS_EmptySet
<1> QED BY <1>1, <1>2, <1>3, <1>5, <1>6 DEF AgreeInv, SubscribersAgree

LEMMA StepAgrees == AgreeInv /\ [Next]_vars => AgreeInv'
<1> SUFFICES ASSUME AgreeInv, [Next]_vars PROVE AgreeInv'
  OBVIOUS
<1>1. ConnsShaped
  BY DEF AgreeInv
<1>2. ASSUME NEW c \in Conns, LoopStep(c) \/ ReadFails(c) \/ PumpStep(c) \/ CloserStep(c)
      PROVE  AgreeInv'
  <2>1. /\ CallStream(c)
        /\ R!LoopStep(c) \/ R!ReadFails(c) \/ R!PumpStep(c) \/ R!CloserStep(c)
    BY <1>2 DEF LoopStep, ReadFails, PumpStep, CloserStep
  <2>2. \E r : Step(c, r)
    BY <1>1, <2>1, LoopSteps, PumpSteps, CloserSteps
  <2> QED BY <2>1, <2>2, CallAgrees
<1>3. ASSUME NEW c \in Conns, Describe(c) \/ DescribeEnds(c) PROVE AgreeInv'
  BY <1>3, DescribeAgrees, DescribeEndsAgrees
<1>4. ASSUME UNCHANGED <<conn, client>> PROVE AgreeInv'
  BY <1>4 DEF AgreeInv, ConnsShaped, SubscribersAgree, Playing, Waiter
<1>5. ASSUME NEW c \in Conns, PumpTakes(c) \/ PumpCrash(c) PROVE AgreeInv'
  <2>1. UNCHANGED client
    BY <1>5 DEF PumpTakes, PumpCrash, S!Get
  <2>2. R!PumpFrame(c) \/ R!PumpCrash(c) \/ UNCHANGED conn
    BY <1>5 DEF PumpTakes, PumpCrash, serverVars
  <2>3. \/ UNCHANGED conn
        \/ \E r : Step(c, r) /\ r.registered = conn[c].registered
    BY <1>1, <2>2, PumpSends
  <2> QED BY <1>4, <2>1, <2>3, QuietAgrees
<1>6. ASSUME NEW c \in Conns, SocketCloses(c) \/ Client(c) PROVE AgreeInv'
  <2>1. UNCHANGED client /\ (R!SocketCloses(c) \/ R!Client(c))
    BY <1>6 DEF SocketCloses, Client, streamVars
  <2>2. \E r : Step(c, r) /\ r.registered = conn[c].registered
    BY <1>1, <2>1, ClientSteps
  <2> QED BY <2>1, <2>2, QuietAgrees
<1>7. CASE (\E t \in Tasks : TaskStep(t)) \/ HubStopBegin \/ HubStopEnd \/ Tick
  <2>1. /\ UNCHANGED conn
        /\ (\E t \in Tasks : S!TaskStep(t)) \/ S!StopBegin \/ S!StopEnd \/ S!Tick
    BY <1>7 DEF TaskStep, HubStopBegin, HubStopEnd, Tick, serverVars
  <2> QED BY <2>1, HubAgrees
<1>8. CASE ServerStopEnd \/ Return \/ Ended \/ UNCHANGED vars
  BY <1>4, <1>8 DEF ServerStopEnd, R!StopEnd, Return, Ended, vars, serverVars, streamVars
<1>9. CASE Work
  BY <1>2, <1>3, <1>5, <1>6, <1>7, <1>8, <1>9, StopAgrees DEF Work
<1> QED BY <1>8, <1>9 DEF Next, Live

-----------------------------------------------------------------------------
(* The two liveness properties as leads-to.  A connection that is condemned   *)
(* stays condemned, and a server that stops never serves again.               *)

\* a connection nobody has accepted has no socket
Marked(s) == /\ {"sock", "closer", "loop"} \subseteq DOMAIN s
             /\ s.loop = "absent" => s.sock = "none"

\* what condemns a connection stays
Stays(r, s) == /\ s.sock = "closed" => r.sock = "closed"
               /\ s.closer # "none" => r.closer # "none"

\* ... and from s to r nothing opens a socket
Keeps(r, s) == /\ {"sock", "closer", "loop"} \subseteq DOMAIN r
               /\ r.loop = "absent" => s.loop = "absent"
               /\ s.sock = "none" => r.sock = "none"
               /\ Stays(r, s)

LEMMA PiecesKeep ==
  ASSUME NEW q, NEW s, Keeps(q, s)
  PROVE  /\ Keeps(R!LoopReleases(q), s) /\ Keeps(R!PumpReleases(q), s)
         /\ Keeps(R!ReleaseTransport(q), s) /\ Keeps(R!CloseWriter(q), s)
         /\ Keeps(R!CancelPump(q), s) /\ Keeps(R!ForgetPump(q), s)
         /\ \A k : Keeps(R!Respond(q, k), s)
<1>1. Keeps(R!LoopReleases(q), s)
  BY DEF R!LoopReleases, Keeps, Stays
<1>2. Keeps(R!PumpReleases(q), s)
  BY DEF R!PumpReleases, Keeps, Stays
<1>3. Keeps(R!ReleaseTransport(q), s)
  BY DEF R!ReleaseTransport, Keeps, Stays
<1>4. Keeps(R!CloseWriter(q), s)
  BY DEF R!CloseWriter, Keeps, Stays
<1>5. Keeps(R!CancelPump(q), s) /\ Keeps(R!ForgetPump(q), s)
  BY DEF R!CancelPump, R!ForgetPump, Keeps, Stays
<1>6. \A k : Keeps(R!Respond(q, k), s)
  BY DEF R!Respond, Keeps, Stays
<1> QED BY <1>1, <1>2, <1>3, <1>4, <1>5, <1>6

\* writing any field but the two
LEMMA FieldsKeep ==
  ASSUME NEW q, NEW s, Keeps(q, s), NEW v
  PROVE  /\ v # "absent" => Keeps([q EXCEPT !.loop = v], s)
         /\ Keeps([q EXCEPT !.then = v], s)
         /\ Keeps([q EXCEPT !.pump = v], s) /\ Keeps([q EXCEPT !.cancelled = v], s)
         /\ Keeps([q EXCEPT !.lock = v], s) /\ Keeps([q EXCEPT !.stream = v], s)
         /\ Keeps([q EXCEPT !.registered = v], s) /\ Keeps([q EXCEPT !.stalled = v], s)
         /\ Keeps([q EXCEPT !.tcp = v], s)
         /\ s.sock # "none" => Keeps([q EXCEPT !.sock = "closed"], s)
         /\ v # "none" => Keeps([q EXCEPT !.closer = v], s)
BY DEF Keeps, Stays

LEMMA CloseKeeps ==
  ASSUME NEW q, NEW s, Keeps(q, s)
  PROVE  /\ Keeps(R!LoopShut(q), s) /\ Keeps(R!LoopClose(q), s) /\ Keeps(R!TornDown(q), s)
         /\ Keeps(R!Teardown(q), s) /\ Keeps(R!Resetup(q), s) /\ Keeps(R!CloserShut(q), s)
<1>1. Keeps(R!LoopShut(q), s)
  BY PiecesKeep, FieldsKeep DEF R!LoopShut
<1>2. Keeps(R!LoopClose(q), s)
  BY <1>1, PiecesKeep, FieldsKeep DEF R!LoopClose
<1>3. Keeps(R!TornDown(q), s)
  <2>1. Keeps(R!ReleaseTransport(q), s)
    BY PiecesKeep
  <2>2. \A p : Keeps(p, s) => Keeps([p EXCEPT !.stream = FALSE, !.loop = "idle"], s)
    BY DEF Keeps, Stays
  <2>3. R!TornDown(q) = [R!ReleaseTransport(q) EXCEPT !.stream = FALSE, !.loop = "idle"]
    BY Zenon DEF R!TornDown
  <2> QED BY <2>1, <2>2, <2>3, Zenon
<1>4. Keeps(R!Teardown(q), s)
  BY <1>3, PiecesKeep, FieldsKeep DEF R!Teardown
<1>5. Keeps(R!Resetup(q), s)
  BY PiecesKeep, FieldsKeep DEF R!Resetup
<1>6. Keeps(R!CloserShut(q), s)
  <2>1. "wait_closed" # "none"
    OBVIOUS
  <2> QED BY <2>1, PiecesKeep, FieldsKeep DEF R!CloserShut
<1> QED BY <1>1, <1>2, <1>3, <1>4, <1>5, <1>6

LEMMA CrashKeeps ==
  ASSUME NEW q, NEW s, Keeps(q, s)
  PROVE  Keeps(R!Crashed(q), s)
BY DEF R!Crashed, Keeps, Stays

LEMMA PlayKeeps ==
  ASSUME NEW q, NEW s, Keeps(q, s)
  PROVE  Keeps(R!StartPlay(q), s) /\ Keeps(R!PumpFinally(q), s)
<1>1. Keeps(R!StartPlay(q), s)
  BY DEF R!StartPlay, Keeps, Stays
<1>2. Keeps(R!PumpFinally(q), s)
  <2> DEFINE p == R!PumpReleases(q)
  <2>1. Keeps(p, s)
    BY PiecesKeep
  <2> HIDE DEF p
  <2>2. \A R1 : Keeps([p EXCEPT !.pump = "done", !.cancelled = FALSE, !.registered = R1], s)
    BY <2>1 DEF Keeps, Stays
  <2>3. R!PumpFinally(q) = [p EXCEPT !.pump = "done", !.cancelled = FALSE,
                                     !.registered = IF q.stream THEN @ \ {"own"} ELSE @]
    BY Zenon DEF R!PumpFinally, p
  <2> QED BY <2>2, <2>3, Zenon
<1> QED BY <1>1, <1>2

\* a step of one connection keeps its marks
LEMMA ConnectionKeeps ==
  ASSUME NEW c \in Conns, Marked(conn[c]), Shaped(conn[c]),
         \/ R!Accept(c) \/ R!Request(c) \/ R!Describe(c) \/ R!ReadFails(c) \/ R!LoopStep(c)
         \/ R!DescribeEnds(c) \/ R!PumpFrame(c) \/ R!PumpCrash(c) \/ R!PumpStep(c)
         \/ R!Stall(c) \/ R!ClientLost(c) \/ R!SocketCloses(c) \/ R!CloserStep(c)
  PROVE  \E r : R!Become(c, r) /\ Stays(r, conn[c]) /\ Marked(r)
<1> DEFINE s == conn[c]
<1>1. Keeps(s, s) /\ Marked(s)
  BY DEF Keeps, Stays, Marked
<1>2. \A r : Keeps(r, s) => Stays(r, s) /\ Marked(r)
  BY <1>1 DEF Keeps, Marked
<1> HIDE DEF s
<1>3. CASE R!Accept(c)
  <2> DEFINE r == [s EXCEPT !.loop = "accepted", !.sock = "open"]
  <2>1. R!Become(c, r) /\ s.loop = "absent"
    BY <1>3 DEF R!Accept, s
  <2>2. Stays(r, s) /\ Marked(r)
    BY <1>1, <2>1 DEF Stays, Marked
  <2> QED BY <2>1, <2>2 DEF s
<1>4. CASE R!Request(c)
  <2>1. CASE R!Plain(c) \/ R!Malformed(c) \/ R!TeardownRequest(c) \/ R!Play(c)
    BY <1>1, <1>2, <2>1, PiecesKeep DEF R!Plain, R!Malformed, R!TeardownRequest, R!Play, s
  <2>2. CASE R!SetupRefused(c)
    BY <1>1, <1>2, <2>2, PiecesKeep DEF R!SetupRefused, s
  <2>3. CASE R!SetupTcp(c)
    <3>1. Keeps([R!Resetup(s) EXCEPT !.tcp = TRUE], s)
      BY <1>1, CloseKeeps, FieldsKeep
    <3> QED BY <1>2, <2>3, <3>1, PiecesKeep DEF R!SetupTcp, s
  <2>4. CASE R!SetupUnsupported(c) \/ R!SetupUdp(c)
    <3>1. Keeps(R!Resetup(s), s) /\ Keeps([R!Resetup(s) EXCEPT !.loop = "binding"], s)
      BY <1>1, CloseKeeps, FieldsKeep
    <3> QED BY <1>2, <2>4, <3>1, PiecesKeep DEF R!SetupUnsupported, R!SetupUdp, s
  <2> QED BY <1>4, <2>1, <2>2, <2>3, <2>4 DEF R!Request
<1>5. CASE R!Describe(c) \/ R!ReadFails(c) \/ R!DescribeEnds(c)
  BY <1>1, <1>2, <1>5, PiecesKeep, FieldsKeep, CloseKeeps
     DEF R!Describe, R!ReadFails, R!DescribeEnds, R!DescribeDone, R!SdpFails, s
<1>6. CASE R!LoopStep(c)
  <2>1. CASE R!ClientStart(c)
    BY <1>1, <1>2, <2>1, PiecesKeep, FieldsKeep DEF R!ClientStart, s
  <2>2. CASE R!Bound(c)
    <3> DEFINE q == [s EXCEPT !.udp = TRUE, !.sockets = @ + 1]
    <3>1. Keeps(q, s)
      BY <1>1 DEF Keeps, Stays
    <3>2. R!Become(c, R!Respond(q, "next"))
      BY <2>2 DEF R!Bound, s
    <3> HIDE DEF q
    <3> QED BY <1>2, <3>1, <3>2, PiecesKeep DEF s
  <2>3. CASE R!BindFails(c) \/ R!LoopGetsLock(c) \/ R!Gone(c)
    BY <1>1, <1>2, <2>3, FieldsKeep, CloseKeeps DEF R!BindFails, R!LoopGetsLock, R!Gone, s
  <2>4. CASE R!Drained(c)
    <3> DEFINE q == R!LoopReleases(s)
               p == [q EXCEPT !.then = "next"]
    <3>1. Keeps(q, s) /\ Keeps(p, s)
      BY <1>1, PiecesKeep, FieldsKeep
    <3>2. R!Become(c, R!AfterResponse(q))
      BY <2>4 DEF R!Drained, s
    <3>3. /\ q.then = "next" => R!AfterResponse(q) = [p EXCEPT !.loop = "idle"]
          /\ q.then = "play" => R!AfterResponse(q) = R!StartPlay(p)
          /\ q.then = "teardown" => R!AfterResponse(q) = R!Teardown(p)
          /\ q.then = "end" => R!AfterResponse(q) = R!LoopClose(p)
      BY DEF R!AfterResponse
    <3>4. q.then \in R!Thens
      <4>1. Same(q, s)
        BY PiecesSame DEF s
      <4> QED BY <4>1 DEF Same, Shaped, s
    <3> HIDE DEF q, p
    <3>5. /\ Keeps([p EXCEPT !.loop = "idle"], s) /\ Keeps(R!StartPlay(p), s)
          /\ Keeps(R!Teardown(p), s) /\ Keeps(R!LoopClose(p), s)
      BY <3>1, FieldsKeep, CloseKeeps, PlayKeeps
    <3>6. Keeps(R!AfterResponse(q), s)
      BY <3>3, <3>4, <3>5, Zenon DEF R!Thens
    <3> QED BY <1>2, <3>2, <3>6 DEF s
  <2>5. CASE R!DrainFails(c)
    <3> DEFINE p == [R!LoopReleases(s) EXCEPT !.then = "next"]
    <3>1. Keeps(p, s)
      BY <1>1, PiecesKeep, FieldsKeep
    <3>2. R!Become(c, R!LoopClose(p)) \/ R!Become(c, R!Respond(R!LoopReleases(s), "end"))
      BY <2>5 DEF R!DrainFails, s
    <3>3. Keeps(R!Respond(R!LoopReleases(s), "end"), s)
      BY <1>1, PiecesKeep
    <3> HIDE DEF p
    <3>4. Keeps(R!LoopClose(p), s)
      BY <3>1, CloseKeeps
    <3> QED BY <1>2, <3>2, <3>3, <3>4 DEF s
  <2>6. CASE R!PlayStopped(c)
    <3>1. Keeps(R!ForgetPump(s), s)
      BY <1>1, PiecesKeep
    <3> QED BY <1>2, <2>6, <3>1, CloseKeeps DEF R!PlayStopped, s
  <2> QED BY <1>6, <2>1, <2>2, <2>3, <2>4, <2>5, <2>6 DEF R!LoopStep
<1>7. CASE R!PumpFrame(c) \/ R!PumpCrash(c) \/ R!PumpStep(c)
  <2>1. CASE R!PumpFrame(c)
    <3>1. /\ Keeps([s EXCEPT !.pump = "drain", !.lock = "pump"], s)
          /\ Keeps([s EXCEPT !.pump = "lock"], s)
      BY <1>1 DEF Keeps, Stays
    <3>2. \/ R!Become(c, [s EXCEPT !.pump = "drain", !.lock = "pump"])
          \/ R!Become(c, [s EXCEPT !.pump = "lock"])
      BY <2>1 DEF R!PumpFrame, s
    <3> QED BY <1>2, <3>1, <3>2, Zenon DEF s
  <2>2. CASE R!PumpCrash(c)
    <3>1. Keeps(R!Crashed(s), s)
      BY <1>1, CrashKeeps
    <3>2. R!Become(c, R!Crashed(s))
      BY <2>2 DEF R!PumpCrash, s
    <3> QED BY <1>2, <3>1, <3>2 DEF s
  <2>3. CASE R!PumpStart(c) \/ R!PumpGetsLock(c)
    BY <1>1, <1>2, <2>3, FieldsKeep DEF R!PumpStart, R!PumpGetsLock, s
  <2>4. CASE R!PumpDrained(c) \/ R!PumpErring(c)
    BY <1>1, <1>2, <2>4, PiecesKeep, FieldsKeep, PlayKeeps, CrashKeeps
       DEF R!PumpDrained, R!PumpErring, s
  <2>5. CASE R!PumpCancelled(c)
    <3>1. Keeps([s EXCEPT !.pump = "done", !.cancelled = FALSE], s)
      BY <1>1 DEF Keeps, Stays
    <3> QED BY <1>1, <1>2, <2>5, <3>1, PlayKeeps DEF R!PumpCancelled, s
  <2> QED BY <1>7, <2>1, <2>2, <2>3, <2>4, <2>5 DEF R!PumpStep
<1>8. CASE R!Stall(c) \/ R!ClientLost(c) \/ R!SocketCloses(c)
  BY <1>1, <1>2, <1>8, FieldsKeep DEF R!Stall, R!ClientLost, R!SocketCloses, s
<1>9. CASE R!CloserStep(c)
  <2>1. Keeps(R!CancelPump(s), s) /\ Keeps(R!ForgetPump(s), s)
    BY <1>1, PiecesKeep
  <2> QED BY <1>1, <1>2, <1>9, <2>1, FieldsKeep, CloseKeeps
       DEF R!CloserStep, R!CloserStart, R!CloserPlayStopped, R!CloserDone, s
<1> QED BY <1>3, <1>4, <1>5, <1>6, <1>7, <1>8, <1>9

AllMarked == \A c \in Conns : Marked(conn[c])
AllStay == /\ \A c \in Conns : Stays(conn'[c], conn[c])
           /\ server = "up" => server' \in {"up", "stopping"}
           /\ server # "up" => server' # "up"

LEMMA InitMarked == Init => AllMarked
<1>1. Marked(R!Absent)
  BY DEF R!Absent, Marked
<1> QED BY <1>1 DEF Init, R!Init, AllMarked

LEMMA StepMarked == AgreeInv /\ AllMarked /\ [Next]_vars => AllMarked' /\ AllStay
<1> SUFFICES ASSUME AgreeInv, AllMarked, [Next]_vars
             PROVE  AllStay /\ \A c \in Conns : Marked(conn'[c])
  BY DEF AllMarked
<1>1. \A c \in Conns : Marked(conn[c]) /\ Shaped(conn[c]) /\ Stays(conn[c], conn[c])
  BY DEF AllMarked, AgreeInv, ConnsShaped, Stays
<1>2. CASE \E c \in Conns :
             \/ R!Accept(c) \/ R!Request(c) \/ R!Describe(c) \/ R!ReadFails(c)
             \/ R!LoopStep(c) \/ R!DescribeEnds(c) \/ R!PumpFrame(c) \/ R!PumpCrash(c)
             \/ R!PumpStep(c) \/ R!Stall(c) \/ R!ClientLost(c) \/ R!SocketCloses(c)
             \/ R!CloserStep(c)
  <2> PICK c \in Conns : \E r : R!Become(c, r) /\ Stays(r, conn[c]) /\ Marked(r)
    BY <1>1, <1>2, ConnectionKeeps
  <2>1. PICK r : R!Become(c, r) /\ Stays(r, conn[c]) /\ Marked(r)
    OBVIOUS
  <2>2. conn'[c] = r /\ \A d \in Conns : d # c => conn'[d] = conn[d]
    BY <2>1 DEF R!Become, AgreeInv, ConnsShaped
  <2>3. UNCHANGED server
    BY <2>1 DEF R!Become
  <2> QED BY <1>1, <2>1, <2>2, <2>3 DEF AllStay
<1>3. CASE R!StopBegin
  <2>1. ASSUME NEW c \in Conns
        PROVE  LET r == [conn[c] EXCEPT !.closer = "scheduled"]
               IN Marked(r) /\ Stays(r, conn[c])
    BY <1>1 DEF Marked, Stays
  <2>2. \A c \in Conns : conn'[c] \in {conn[c], [conn[c] EXCEPT !.closer = "scheduled"]}
    BY <1>3 DEF R!StopBegin
  <2>3. server' = "stopping"
    BY <1>3 DEF R!StopBegin
  <2> QED BY <1>1, <2>1, <2>2, <2>3 DEF AllStay
<1>4. CASE R!StopEnd \/ UNCHANGED serverVars
  BY <1>1, <1>4 DEF R!StopEnd, AllStay, serverVars
<1> QED BY <1>2, <1>3, <1>4, JointServer DEF R!Next, R!Client, R!Ended, R!vars, serverVars

\* ConnectionsEnd is the leads-to of each connection: whenever its client is lost or
\* stop() finds it, it ends and gives back what it held.
THEOREM CondemnedEnd ==
  ASSUME NEW c \in Conns
  PROVE  Spec => ([]<>(Condemned(c) => Over(c)) <=> (Condemned(c) ~> Over(c)))
<1>1. AllStay /\ Condemned(c) => Condemned(c)'
  BY DEF AllStay, Stays, Condemned
<1> QED BY <1>1, InitAgrees, StepAgrees, InitMarked, StepMarked, PTL DEF Spec

\* ShutdownEnds is the leads-to of the bridge: whenever it is told to stop, _serve returns.
THEOREM StoppingEnds == Spec => (ShutdownEnds <=> (server = "stopping" ~> exited))
<1> DEFINE Up == server = "up"
           Stopping == server = "stopping"
<1>1. Init => Up
  BY DEF Init, R!Init
<1>2. AllStay => (Up => Up' \/ Stopping') /\ (~Up => ~Up')
  BY DEF AllStay
<1>3. [Next]_vars => (exited => exited')
  BY DEF Next, Live, Return, Ended, vars
<1>4. Stopping => ~Up
  OBVIOUS
<1>5. (server # "up" => exited) <=> (~Up => exited)
  OBVIOUS
<1> HIDE DEF Up
<1> QED BY <1>1, <1>2, <1>3, <1>4, <1>5, InitAgrees, StepAgrees, InitMarked, StepMarked, PTL
     DEF Spec, ShutdownEnds
=============================================================================
