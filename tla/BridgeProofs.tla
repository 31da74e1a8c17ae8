---------------------------- MODULE BridgeProofs ----------------------------
(***************************************************************************)
(* What the bridge keeps of its parts' promises, for any number of         *)
(* connections: what is proved of the server and of the stream holds with  *)
(* each for the other's caller, what the stream keeps only for callers     *)
(* that stop before it is stopped holds until then, and the DVR sees a     *)
(* DeviceSlot.                                                             *)
(***************************************************************************)
EXTENDS SystemProofs

-----------------------------------------------------------------------------
(* What the bridge inherits.  RP and SP are the server and the stream once   *)
(* more, each with what is proved of it: those theorems hold of all          *)
(* parameters that meet their assumptions, and System's do.  Unfolded, the   *)
(* steps of RP and R are the same formula, and those of SP and S.            *)

RP == INSTANCE PumpProofs
SP == INSTANCE StreamRefinement WITH Clients <- Conns \X Roles, Quiesced <- FALSE

LEMMA SameServerStep == [R!Next]_(R!vars) <=> [RP!Next]_(RP!vars)
BY DEF
   R!Cardinality, RP!Cardinality, R!vars, RP!vars, R!LoopStates, RP!LoopStates, R!Thens,
   RP!Thens, R!PumpStates, RP!PumpStates, R!CloserStates, RP!CloserStates, R!Connection,
   RP!Connection, R!Absent, RP!Absent, R!Known, RP!Known, R!Become, RP!Become, R!Flushed,
   RP!Flushed, R!Broken, RP!Broken, R!LoopReleases, RP!LoopReleases, R!PumpReleases,
   RP!PumpReleases, R!Respond, RP!Respond, R!ReleaseTransport, RP!ReleaseTransport,
   R!CloseWriter, RP!CloseWriter, R!CancelPump, RP!CancelPump, R!PumpOver, RP!PumpOver,
   R!ForgetPump, RP!ForgetPump, R!LoopShut, RP!LoopShut, R!LoopClose, RP!LoopClose, R!TornDown,
   RP!TornDown, R!Teardown, RP!Teardown, R!StartPlay, RP!StartPlay, R!PumpFinally,
   RP!PumpFinally, R!Accept, RP!Accept, R!Full, RP!Full, R!ClientStart, RP!ClientStart, R!Reads,
   RP!Reads, R!Plain, RP!Plain, R!Malformed, RP!Malformed, R!ReadFails, RP!ReadFails,
   R!Describe, RP!Describe, R!DescribeDone, RP!DescribeDone, R!SetupRefused, RP!SetupRefused,
   R!Resetup, RP!Resetup, R!SetupTcp, RP!SetupTcp, R!SetupUnsupported, RP!SetupUnsupported,
   R!SetupUdp, RP!SetupUdp, R!Bound, RP!Bound, R!SdpFails, RP!SdpFails, R!BindFails,
   RP!BindFails, R!CanPlay, RP!CanPlay, R!Play, RP!Play, R!TeardownRequest, RP!TeardownRequest,
   R!LoopGetsLock, RP!LoopGetsLock, R!AfterResponse, RP!AfterResponse, R!Drained, RP!Drained,
   R!DrainFails, RP!DrainFails, R!PlayStopped, RP!PlayStopped, R!Gone, RP!Gone, R!PumpRuns,
   RP!PumpRuns, R!PumpStart, RP!PumpStart, R!PumpFrame, RP!PumpFrame, R!PumpGetsLock,
   RP!PumpGetsLock, R!Crashed, RP!Crashed, R!PumpDrained, RP!PumpDrained, R!PumpCrash, RP!PumpCrash, R!PumpErring,
   RP!PumpErring, R!PumpCancelled, RP!PumpCancelled, R!Stall, RP!Stall, R!ClientLost,
   RP!ClientLost, R!SocketCloses, RP!SocketCloses, R!StopBegin, RP!StopBegin, R!CloserShut,
   RP!CloserShut, R!CloserStart, RP!CloserStart, R!CloserPlayStopped, RP!CloserPlayStopped,
   R!CloserDone, RP!CloserDone, R!StopEnd, RP!StopEnd, R!Ended, RP!Ended, R!Request, RP!Request,
   R!Client, RP!Client,
   R!DescribeEnds, RP!DescribeEnds, R!LoopStep, RP!LoopStep, R!PumpStep, RP!PumpStep,
   R!CloserStep, RP!CloserStep, R!Next, RP!Next

LEMMA SameStreamStep == [S!Next]_(S!vars) <=> [SP!Next]_(SP!vars)
BY DEF
   S!NalKinds, SP!NalKinds, S!FrameKinds, SP!FrameKinds, S!taskVars, SP!taskVars, S!eventVars,
   SP!eventVars, S!setVars, SP!setVars, S!hubVars, SP!hubVars, S!subVars, SP!subVars, S!vars,
   SP!vars, S!Closing, SP!Closing, S!Connected, SP!Connected, S!Dead, SP!Dead, S!PCs, SP!PCs,
   S!SetAges, SP!SetAges, S!Links, SP!Links, S!Items, SP!Items, S!ClientStates, SP!ClientStates,
   S!Alive, SP!Alive, S!Running, SP!Running, S!Subs, SP!Subs, S!MayRun, SP!MayRun,
   S!IdleExpired, SP!IdleExpired, S!BackoffOver, SP!BackoffOver, S!Spawn, SP!Spawn,
   S!EnsureRunning, SP!EnsureRunning, S!Touch, SP!Touch, S!ServerUp, SP!ServerUp, S!Describe,
   SP!Describe, S!StopDescribing, SP!StopDescribing, S!DescribeReply, SP!DescribeReply,
   S!DescribeExpired, SP!DescribeExpired, S!Subscribe, SP!Subscribe, S!Unsubscribe,
   SP!Unsubscribe, S!Get, SP!Get, S!SetsOf, SP!SetsOf, S!Accepts,
   SP!Accepts, S!Fits, SP!Fits, S!Deliver, SP!Deliver, S!OnFrame, SP!OnFrame, S!Finish,
   SP!Finish, S!Aged, SP!Aged, S!NewConnection, SP!NewConnection, S!NormalExit, SP!NormalExit,
   S!LoopHead, SP!LoopHead, S!Start, SP!Start, S!Frame, SP!Frame, S!Fail, SP!Fail, S!Crash,
   SP!Crash, S!ClosedForGood, SP!ClosedForGood, S!DropSets, SP!DropSets, S!ClosedAfterFailure,
   SP!ClosedAfterFailure, S!Doubled, SP!Doubled, S!BackoffEnd, SP!BackoffEnd, S!StopBegin,
   SP!StopBegin, S!Cancelled, SP!Cancelled, S!StopEnd, SP!StopEnd, S!Due, SP!Due, S!UpTo,
   SP!UpTo, S!Down, SP!Down, S!Tick, SP!Tick, S!ClientStep, SP!ClientStep, S!Work, SP!Work,
   S!TaskStep, SP!TaskStep, S!Next, SP!Next

LEMMA RunsRP == Spec => RP!Spec
<1>1. R!Init <=> RP!Init
  BY DEF R!Init, R!Absent, RP!Init, RP!Absent
<1> QED BY <1>1, SystemRunsServer, SameServerStep, PTL DEF R!Spec, RP!Spec

LEMMA RunsSP == Spec => SP!Spec
<1>1. S!Init <=> SP!Init
  BY DEF S!Init, SP!Init
<1> QED BY <1>1, SystemRunsStream, SameStreamStep, PTL DEF S!Spec, SP!Spec

LEMMA Parameters ==
  /\ RP!ConnsAssumption /\ RP!SwitchesAssumption
  /\ SP!TasksAssumption /\ SP!FramesAssumption /\ SP!BoundsAssumption
  /\ SP!BackoffAssumption /\ SP!FlagsAssumption
BY ServerAssumption, StreamAssumption
   DEF R!ConnsAssumption, R!SwitchesAssumption, RP!ConnsAssumption, RP!SwitchesAssumption,
       S!TasksAssumption, S!FramesAssumption, S!BoundsAssumption, S!BackoffAssumption,
       S!FlagsAssumption, S!FrameKinds, S!NalKinds, SP!TasksAssumption, SP!FramesAssumption,
       SP!BoundsAssumption, SP!BackoffAssumption, SP!FlagsAssumption, SP!FrameKinds,
       SP!NalKinds

\* Both parts keep their types in the bridge, each with the other for a caller and
\* for as many clients as there may be.
THEOREM BridgeTyped == Spec => []TypeOK
<1>1. Spec => []RP!TypeOK
  BY RunsRP, Parameters, RP!ServerTyped, PTL
<1>2. Spec => []SP!TypeOK
  BY RunsSP, Parameters, SP!TypeCorrect, PTL
<1>3. RP!TypeOK => R!TypeOK
  BY DEF RP!TypeOK, RP!Connection, RP!LoopStates, RP!Thens, RP!PumpStates, RP!CloserStates,
     R!TypeOK, R!Connection, R!LoopStates, R!Thens, R!PumpStates, R!CloserStates
<1>4. SP!TypeOK => S!TypeOK
  BY DEF SP!TypeOK, SP!PCs, SP!Connected, SP!Closing, SP!Dead, SP!SetAges, SP!Links,
     SP!Items, SP!ClientStates, S!TypeOK, S!PCs, S!Connected, S!Closing, S!Dead, S!SetAges,
     S!Links, S!Items, S!ClientStates
<1>5. Spec => [](exited \in BOOLEAN)
  <2>1. Init => exited \in BOOLEAN
    BY DEF Init
  <2>2. exited \in BOOLEAN /\ [Next]_vars => (exited \in BOOLEAN)'
    BY DEF Next, Live, Return, Ended, vars
  <2> QED BY <2>1, <2>2, PTL DEF Spec
<1> QED BY <1>1, <1>2, <1>3, <1>4, <1>5, PTL DEF TypeOK

\* What the server promises of each connection, over TCP or UDP, whether its client
\* reads, stalls or is lost, and whatever the stream behind it does: a write lock
\* somebody will release, no leaked UDP socket, no more connections than
\* max_connections, no pump without a transport, no connection that outlives its pump.
THEOREM BridgeKeepsConnections ==
  Spec => [](R!LockHeld /\ R!SocketsOwned /\ R!AtMostMax /\ R!PumpHasTransport /\ R!NoZombie)
<1>1. Spec => [](RP!LockHeld /\ RP!SocketsOwned /\ RP!AtMostMax)
  BY RunsRP, Parameters, RP!WriteLockHeld, RP!NoSocketLeaks, RP!FloodGuard, PTL
<1>2. Spec => [](RP!PumpHasTransport /\ RP!NoZombie)
  BY RunsRP, Parameters, RP!PumpsHaveTransports, RP!NoZombies, PTL
<1>3. /\ RP!LockHeld => R!LockHeld
      /\ RP!SocketsOwned => R!SocketsOwned
      /\ RP!PumpHasTransport => R!PumpHasTransport
      /\ RP!NoZombie => R!NoZombie
  BY DEF RP!LockHeld, R!LockHeld, RP!SocketsOwned, R!SocketsOwned, RP!PumpHasTransport,
     R!PumpHasTransport, RP!PumpOver, R!PumpOver, RP!NoZombie, R!NoZombie
<1>4. RP!AtMostMax => R!AtMostMax
  BY DEF RP!AtMostMax, R!AtMostMax, RP!Known, R!Known, RP!Cardinality, R!Cardinality
<1> QED BY <1>1, <1>2, <1>3, <1>4, PTL

\* What the stream promises its callers, whatever the connections do: a ready stream
\* has both sets cached and a supervisor connected, a queue resumes with a keyframe
\* after a gap, and no stream is idled out under a DESCRIBE that waits at most `linger`.
THEOREM BridgeKeepsStream ==
  Spec => [](S!ReadyBacked /\ S!NoGapWithinConnection /\ S!NotIdledWhileDescribing)
<1>1. Spec => [](SP!ReadyBacked /\ SP!NoGapWithinConnection /\ SP!NotIdledWhileDescribing)
  BY RunsSP, Parameters, SP!ReadyBackedHolds, SP!NoGapHolds, SP!DescribeKeepsStream, PTL
<1>2. /\ SP!ReadyBacked => S!ReadyBacked
      /\ SP!NoGapWithinConnection => S!NoGapWithinConnection
      /\ SP!NotIdledWhileDescribing => S!NotIdledWhileDescribing
  BY DEF SP!ReadyBacked, S!ReadyBacked, SP!Connected, S!Connected, SP!Closing, S!Closing,
     SP!NoGapWithinConnection, S!NoGapWithinConnection, SP!NotIdledWhileDescribing,
     S!NotIdledWhileDescribing, SP!IdleExpired, S!IdleExpired, SP!Subs, S!Subs
<1> QED BY <1>1, <1>2, PTL

-----------------------------------------------------------------------------
(* Until the hub is stopped.  HP is a stream whose callers are gone before   *)
(* it is stopped.  The bridge's are not, but as long as the hub is up its    *)
(* stream steps as HP does, and keeps what HP keeps.                         *)

HP == INSTANCE StreamProofs WITH Clients <- Conns \X Roles, Quiesced <- TRUE

LEMMA HubParameters ==
  /\ HP!TasksAssumption /\ HP!FramesAssumption /\ HP!BoundsAssumption
  /\ HP!BackoffAssumption /\ HP!FlagsAssumption
BY StreamAssumption
   DEF S!TasksAssumption, S!FramesAssumption, S!BoundsAssumption, S!BackoffAssumption,
       S!FlagsAssumption, S!FrameKinds, S!NalKinds, HP!TasksAssumption, HP!FramesAssumption,
       HP!BoundsAssumption, HP!BackoffAssumption, HP!FlagsAssumption, HP!FrameKinds,
       HP!NalKinds

LEMMA SameCalls ==
  ASSUME hub = "up", NEW d \in Conns \X Roles
  PROVE  S!ClientStep(d) => HP!ClientStep(d)
<1>1. S!ServerUp /\ HP!ServerUp
  BY DEF S!ServerUp, HP!ServerUp
<1> QED BY <1>1 DEF
   S!Describe, HP!Describe, S!StopDescribing, HP!StopDescribing, S!DescribeReply,
   HP!DescribeReply, S!DescribeExpired, HP!DescribeExpired, S!Subscribe, HP!Subscribe,
   S!Unsubscribe, HP!Unsubscribe, S!Get, HP!Get, S!ClientStep, HP!ClientStep, S!Touch, HP!Touch,
   S!EnsureRunning, HP!EnsureRunning, S!Spawn, HP!Spawn, S!Running, HP!Running, S!Alive,
   HP!Alive, S!Dead, HP!Dead, S!taskVars, HP!taskVars, S!eventVars, HP!eventVars, S!setVars,
   HP!setVars, S!hubVars, HP!hubVars, S!subVars, HP!subVars

LEMMA SameWork ==
  /\ \A t \in Tasks : S!TaskStep(t) <=> HP!TaskStep(t)
  /\ S!Tick <=> HP!Tick
BY DEF
   S!taskVars, HP!taskVars, S!eventVars, HP!eventVars, S!setVars, HP!setVars, S!hubVars,
   HP!hubVars, S!subVars, HP!subVars, S!Closing, HP!Closing, S!Connected, HP!Connected, S!Dead,
   HP!Dead, S!PCs, HP!PCs, S!Alive, HP!Alive, S!Subs, HP!Subs, S!MayRun, HP!MayRun,
   S!IdleExpired, HP!IdleExpired, S!BackoffOver, HP!BackoffOver, S!Spawn, HP!Spawn,
   S!SetsOf, HP!SetsOf, S!Accepts, HP!Accepts, S!Fits, HP!Fits, S!Deliver,
   HP!Deliver, S!OnFrame, HP!OnFrame, S!Finish, HP!Finish, S!Aged, HP!Aged, S!NewConnection,
   HP!NewConnection, S!NormalExit, HP!NormalExit, S!LoopHead, HP!LoopHead, S!Start, HP!Start,
   S!Frame, HP!Frame, S!Fail, HP!Fail, S!Crash, HP!Crash, S!ClosedForGood, HP!ClosedForGood,
   S!DropSets, HP!DropSets, S!ClosedAfterFailure, HP!ClosedAfterFailure, S!Doubled, HP!Doubled,
   S!BackoffEnd, HP!BackoffEnd, S!Cancelled, HP!Cancelled, S!Work, HP!Work, S!TaskStep,
   HP!TaskStep, S!Tick, HP!Tick, S!Due, HP!Due, S!UpTo, HP!UpTo, S!Down, HP!Down

LEMMA WhileUp ==
  ASSUME [Next]_vars, hub' = "up"
  PROVE  hub = "up" /\ [HP!Next]_(HP!vars)
<1>1. S!Next \/ UNCHANGED streamVars
  BY JointStream DEF S!vars, S!taskVars, S!eventVars, S!setVars, S!hubVars, S!subVars,
     streamVars
<1>2. CASE UNCHANGED streamVars
  BY <1>2 DEF streamVars, HP!vars, HP!taskVars, HP!eventVars, HP!setVars, HP!hubVars,
     HP!subVars
<1>3. CASE S!Next
  <2>1. ~S!StopBegin /\ ~S!StopEnd
    BY DEF S!StopBegin, S!StopEnd
  <2>2. hub = "up"
    BY <1>3, <2>1 DEF S!Next, S!ClientStep, S!Describe, S!DescribeReply, S!DescribeExpired,
       S!StopDescribing, S!Subscribe, S!Unsubscribe, S!Get, S!TaskStep, S!Work, S!Start,
       S!BackoffEnd, S!LoopHead, S!Frame, S!Fail, S!Crash, S!ClosedForGood,
       S!ClosedAfterFailure, S!Cancelled, S!Tick, S!hubVars
  <2> QED BY <1>3, <2>1, <2>2, SameCalls, SameWork DEF S!Next, HP!Next
<1> QED BY <1>1, <1>2, <1>3

LEMMA HubInit == Init => HP!Init
BY DEF Init, S!Init, HP!Init

OneWhileUp == hub = "up" => HP!OneConnectionInv

LEMMA StepOneWhileUp == OneWhileUp /\ [Next]_vars => OneWhileUp'
BY WhileUp, HubParameters, HP!StepOneConnection DEF OneWhileUp

\* hub.py 221-232 in the bridge: as long as some connection has a subscriber, nothing
\* but a crash of the driver or the shutdown ends a supervisor that had not already
\* decided to give up.
THEOREM BridgeKeepsViewer == Spec => S!ViewerKeepsStream
<1>1. Init => OneWhileUp
  BY HubInit, HubParameters, HP!InitOneConnection DEF OneWhileUp
<1>2. OneWhileUp /\ [Next]_vars => [S!KeepsViewer]_(S!vars)
  <2> SUFFICES ASSUME OneWhileUp, [Next]_vars, hub' = "up" PROVE S!KeepsViewer
    BY DEF S!KeepsViewer
  <2>1. HP!KeepsViewer
    BY WhileUp, HubParameters, HP!StepKeepsViewer DEF OneWhileUp
  <2> QED BY <2>1 DEF S!KeepsViewer, S!Running, S!Alive, S!Dead, S!Staying, S!Subs,
         HP!KeepsViewer, HP!Running, HP!Alive, HP!Dead, HP!Staying, HP!Subs
<1> QED BY <1>1, <1>2, StepOneWhileUp, PTL DEF Spec, S!ViewerKeepsStream

AlwaysOnWhileUp == hub = "up" => HP!AlwaysOnInv

\* An always-on stream in the bridge, until the shutdown and whatever its connections
\* do: it is never without a supervisor, and neither advertises nor queues parameter
\* sets of an earlier connection.
THEOREM AlwaysOnBridge ==
  ASSUME AlwaysOn, ~DriverMayCrash
  PROVE  Spec => [](hub = "up" => S!ReadyMeansCurrent /\ S!NoStaleSets /\ S!NoStranded)
<1>1. HP!AlwaysOnServed
  BY DEF HP!AlwaysOnServed
<1>2. Init => AlwaysOnWhileUp
  BY <1>1, HubInit, HubParameters, HP!InitAlwaysOn DEF AlwaysOnWhileUp
<1>3. AlwaysOnWhileUp /\ [Next]_vars => AlwaysOnWhileUp'
  BY <1>1, WhileUp, HubParameters, HP!StepAlwaysOn DEF AlwaysOnWhileUp
<1>4. AlwaysOnWhileUp
        => (hub = "up" => S!ReadyMeansCurrent /\ S!NoStaleSets /\ S!NoStranded)
  <2> SUFFICES ASSUME hub = "up", HP!AlwaysOnInv
               PROVE  S!ReadyMeansCurrent /\ S!NoStaleSets /\ S!NoStranded
    BY DEF AlwaysOnWhileUp
  <2>1. S!ReadyMeansCurrent
    BY DEF HP!AlwaysOnInv, HP!ReadyBacked, HP!Current, HP!OneConnectionInv, HP!TypeOK,
       HP!SetAges, S!ReadyMeansCurrent
  <2>2. S!NoStaleSets
    BY DEF HP!AlwaysOnInv, HP!NoStaleSets, S!NoStaleSets
  <2>3. S!NoStranded
    BY DEF HP!AlwaysOnInv, HP!Served, HP!Running, HP!Alive, HP!Dead, S!NoStranded,
       S!Running, S!Alive, S!Dead
  <2> QED BY <2>1, <2>2, <2>3
<1> QED BY <1>2, <1>3, <1>4, PTL DEF Spec

-----------------------------------------------------------------------------
(* The bridge implements DeviceSlot.  Viewers are the connections that have  *)
(* registered something; that they are the hub's subscribers is the          *)
(* agreement above, once no DESCRIBE counts as one.                          *)

NoDescribePlays == \A c \in Conns : client[Waiter(c)] # "playing"
StopCancels == stopping # NoTask => hub = "stopping"

SlotInv == TypeOK /\ HolderInv /\ AgreeInv /\ NoDescribePlays /\ StopCancels

Slots == [t \in Tasks |-> S!SlotOf(t)]
Viewers == {c \in Conns : conn[c].registered # {}}

\* what DeviceSlot sees besides the slots
Seen == <<Viewers, idle <= Linger, hub>>

LEMMA PcTyped == SlotInv => pc \in [Tasks -> S!PCs]
BY DEF SlotInv, TypeOK, S!TypeOK

LEMMA Bounds == NoTask \notin Tasks /\ Linger \in Nat
BY StreamAssumption DEF S!TasksAssumption, S!BoundsAssumption

\* somebody is subscribed where some connection has registered
LEMMA ViewersAreSubs ==
  ASSUME AgreeInv, NoDescribePlays
  PROVE  S!Subs = {} <=> Viewers = {}
<1>1. ASSUME NEW c \in Conns PROVE Playing(c) = {} <=> conn[c].registered = {}
  <2>1. Playing(c) \in SUBSET {"play", "replay"}
    BY DEF Playing
  <2>2. conn[c].registered \in SUBSET {"own", "orphan"}
    BY DEF AgreeInv, ConnsShaped, Shaped, Registrable
  <2>3. Cardinality(Playing(c)) = 0 <=> Playing(c) = {}
    BY <2>1, RolesCounted
  <2>4. Cardinality(conn[c].registered) = 0 <=> conn[c].registered = {}
    <3>1. "own" # "orphan"
      OBVIOUS
    <3>2. Cardinality(conn[c].registered)
            = (IF "own" \in conn[c].registered THEN 1 ELSE 0)
              + (IF "orphan" \in conn[c].registered THEN 1 ELSE 0)
      BY <2>2, <3>1, PairCardinality
    <3> QED BY <2>2, <3>2
  <2> QED BY <2>3, <2>4 DEF AgreeInv, SubscribersAgree
<1>2. ASSUME NEW d \in S!Subs PROVE Viewers # {}
  <2>1. PICK c \in Conns, q \in Roles : d = <<c, q>> /\ client[<<c, q>>] = "playing"
    BY DEF S!Subs
  <2>2. q \in Playing(c)
    BY <2>1 DEF NoDescribePlays, Waiter, Roles, Playing
  <2> QED BY <1>1, <2>2 DEF Viewers
<1>3. ASSUME NEW c \in Viewers PROVE S!Subs # {}
  <2>1. PICK q : q \in Playing(c)
    BY <1>1 DEF Viewers
  <2>2. <<c, q>> \in S!Subs
    BY <2>1 DEF Viewers, Playing, S!Subs, Roles
  <2> QED BY <2>2
<1> QED BY <1>2, <1>3

LEMMA WantedHere ==
  ASSUME SlotInv
  PROVE  Device!Wanted <=> ~S!IdleExpired
<1>1. S!Subs = {} <=> Viewers = {}
  BY ViewersAreSubs DEF SlotInv
<1>2. idle \in Nat /\ Linger \in Nat
  BY Bounds DEF SlotInv, TypeOK, S!TypeOK
<1> QED BY <1>1, <1>2 DEF Device!Wanted, S!IdleExpired, Viewers

\* A step of task t alone, to slot q, is a step of DeviceSlot to q.
LEMMA TaskSlot ==
  ASSUME NEW t \in Tasks, NEW q, \A u \in Tasks : u # t => pc'[u] = pc[u],
         S!SlotOf(t)' = q, UNCHANGED Seen
  PROVE  Device!Become(t, q)
<1>1. Slots' = [Slots EXCEPT ![t] = q]
  BY DEF Slots, S!SlotOf
<1> QED BY <1>1 DEF Device!Become, Slots, Seen, Viewers

LEMMA SlotsStay ==
  ASSUME \A t \in Tasks : S!SlotOf(t)' = S!SlotOf(t)
  PROVE  Slots' = Slots
BY DEF Slots

LEMMA SamePcSlots ==
  ASSUME UNCHANGED pc
  PROVE  Slots' = Slots
BY SlotsStay DEF S!SlotOf

LEMMA SlotStutter ==
  ASSUME Slots' = Slots, UNCHANGED Seen
  PROVE  UNCHANGED Device!slotVars
BY DEF Device!slotVars, Slots, Seen, Viewers

LEMMA SlotFree ==
  ASSUME NEW t \in Tasks, pc[t] \in S!Dead \cup {"created", "backoff"}
  PROVE  S!SlotOf(t) = "free"
BY DEF S!SlotOf, S!Dead

\* create_task makes a task that holds nothing yet
LEMMA EnsureRunningSlot ==
  ASSUME pc \in [Tasks -> S!PCs], S!EnsureRunning
  PROVE  Slots' = Slots
<1> SUFFICES ASSUME NEW t \in Tasks PROVE S!SlotOf(t)' = S!SlotOf(t)
  BY SlotsStay
<1>1. pc'[t] = pc[t] \/ (pc[t] \in S!Dead /\ pc'[t] = "created")
  BY DEF S!EnsureRunning, S!Spawn
<1> QED BY <1>1 DEF S!SlotOf, S!Dead

-----------------------------------------------------------------------------
(* The calls of the connections.                                             *)

\* a connection's step, with nothing registered or given back
LEMMA QuietViewers ==
  ASSUME AgreeInv, NEW c \in Conns, NEW r, R!Become(c, r), Shaped(r),
         r.registered = conn[c].registered
  PROVE  Viewers' = Viewers
<1>1. conn'[c] = r /\ \A d \in Conns : d # c => conn'[d] = conn[d]
  BY BecomeConn DEF AgreeInv
<1> QED BY <1>1 DEF Viewers

LEMMA QuietSlot ==
  ASSUME Viewers' = Viewers, UNCHANGED <<pc, idle, hub>>
  PROVE  UNCHANGED Device!slotVars
BY SamePcSlots, SlotStutter DEF Seen

LEMMA CallSlot ==
  ASSUME SlotInv, NEW c \in Conns, NEW r, Step(c, r), CallStream(c)
  PROVE  Device!SlotNext \/ UNCHANGED Device!slotVars
<1> DEFINE X == conn[c].registered
           Y == r.registered
<1>1. conn'[c] = r /\ \A d \in Conns : d # c => conn'[d] = conn[d]
  BY BecomeConn DEF SlotInv, AgreeInv, Step, Moves
<1>2. X \in SUBSET {"own", "orphan"} /\ Y \in SUBSET {"own", "orphan"}
  BY DEF SlotInv, AgreeInv, ConnsShaped, Shaped, Step, Moves, Registrable
<1>3. /\ Cardinality(X) = (IF "own" \in X THEN 1 ELSE 0) + (IF "orphan" \in X THEN 1 ELSE 0)
      /\ Cardinality(Y) = (IF "own" \in Y THEN 1 ELSE 0) + (IF "orphan" \in Y THEN 1 ELSE 0)
  BY <1>2, PairCardinality
<1>4. CASE Cardinality(Y) > Cardinality(X)
  <2>1. S!Subscribe(NextSub(c))
    BY <1>1, <1>3, <1>4 DEF CallStream
  <2>2. Slots' = Slots /\ idle' = 0 /\ UNCHANGED hub
    BY <2>1, PcTyped, EnsureRunningSlot DEF S!Subscribe, S!Touch, S!hubVars
  <2>3. Y # {}
    BY <1>3, <1>4
  <2>4. Viewers' = Viewers \cup {c}
    BY <1>1, <2>3 DEF Viewers
  <2>5. Device!Join(c)
    BY <2>2, <2>4, Bounds DEF Device!Join, Slots, Viewers
  <2> QED BY <2>5 DEF Device!SlotNext
<1>5. CASE Cardinality(Y) < Cardinality(X)
  <2>1. S!Unsubscribe(Sub(c))
    BY <1>1, <1>3, <1>5 DEF CallStream
  <2>2. UNCHANGED <<pc, hub>> /\ idle' = 0
    BY <2>1 DEF S!Unsubscribe, S!taskVars, S!hubVars
  <2>3. Slots' = Slots /\ X # {}
    BY <1>3, <1>5, <2>2, SamePcSlots
  <2>4. CASE Y = {}
    <3>1. Viewers' = Viewers \ {c}
      BY <1>1, <2>4 DEF Viewers
    <3>2. Device!Leave(c)
      BY <2>2, <2>3, <3>1, Bounds DEF Device!Leave, Slots, Viewers
    <3> QED BY <3>2 DEF Device!SlotNext
  <2>5. CASE Y # {}
    <3>1. Viewers' = Viewers
      BY <1>1, <2>3, <2>5 DEF Viewers
    <3>2. Device!Ask
      BY <2>2, <2>3, <3>1, Bounds DEF Device!Ask, Slots, Viewers
    <3> QED BY <3>2 DEF Device!SlotNext
  <2> QED BY <2>4, <2>5
<1>6. CASE Cardinality(Y) = Cardinality(X)
  <2>1. UNCHANGED streamVars
    BY <1>1, <1>3, <1>6 DEF CallStream, streamVars
  <2>2. X = {} <=> Y = {}
    BY <1>2, <1>3, <1>6
  <2>3. Viewers' = Viewers
    BY <1>1, <2>2 DEF Viewers
  <2> QED BY <2>1, <2>3, QuietSlot DEF streamVars
<1> QED BY <1>3, <1>4, <1>5, <1>6

\* every step of a connection: DESCRIBE counts as use, the others are none of the DVR's
LEMMA ConnectionSlot ==
  ASSUME SlotInv, NEW c \in Conns,
         \/ Describe(c) \/ DescribeEnds(c) \/ PumpTakes(c) \/ PumpCrash(c) \/ LoopStep(c)
         \/ PumpStep(c) \/ ReadFails(c) \/ CloserStep(c) \/ SocketCloses(c) \/ Client(c)
  PROVE  Device!SlotNext \/ UNCHANGED Device!slotVars
<1>1. ConnsShaped /\ AgreeInv
  BY DEF SlotInv, AgreeInv
<1>2. CASE LoopStep(c) \/ ReadFails(c) \/ PumpStep(c) \/ CloserStep(c)
  <2>1. /\ CallStream(c)
        /\ R!LoopStep(c) \/ R!ReadFails(c) \/ R!PumpStep(c) \/ R!CloserStep(c)
    BY <1>2 DEF LoopStep, PumpStep, ReadFails, CloserStep
  <2>2. \E r : Step(c, r)
    BY <1>1, <2>1, LoopSteps, PumpSteps, CloserSteps
  <2> QED BY <2>1, <2>2, CallSlot
<1>3. CASE Describe(c)
  <2>1. Viewers' = Viewers
    BY <1>1, <1>3, DescribeBegins, QuietViewers DEF Describe
  <2>2. Slots' = Slots /\ idle' = 0 /\ UNCHANGED hub
    BY <1>3, PcTyped, EnsureRunningSlot DEF Describe, S!Describe, S!Touch, S!hubVars
  <2>3. Device!Ask
    BY <2>1, <2>2, Bounds DEF Device!Ask, Slots, Viewers
  <2> QED BY <2>3 DEF Device!SlotNext
<1>4. CASE DescribeEnds(c)
  <2>1. R!DescribeEnds(c) /\ UNCHANGED <<pc, idle, hub>>
    BY <1>4 DEF DescribeEnds, R!DescribeEnds, S!DescribeExpired, S!DescribeReply,
       S!StopDescribing, S!taskVars, S!hubVars
  <2>2. Viewers' = Viewers
    BY <1>1, <2>1, DescribeReturns, QuietViewers
  <2> QED BY <2>1, <2>2, QuietSlot
<1>5. CASE PumpTakes(c) \/ PumpCrash(c)
  <2>1. UNCHANGED <<pc, idle, hub>>
    BY <1>5 DEF PumpTakes, PumpCrash, S!Get, S!taskVars, S!hubVars
  <2>2. R!PumpFrame(c) \/ R!PumpCrash(c) \/ UNCHANGED conn
    BY <1>5 DEF PumpTakes, PumpCrash, serverVars
  <2>3. CASE UNCHANGED conn
    <3>1. Viewers' = Viewers
      BY <2>3 DEF Viewers
    <3> QED BY <2>1, <3>1, QuietSlot
  <2>4. CASE R!PumpFrame(c) \/ R!PumpCrash(c)
    <3>1. PICK r : Step(c, r) /\ r.registered = conn[c].registered
      BY <1>1, <2>4, PumpSends
    <3>2. Viewers' = Viewers
      BY <1>1, <3>1, QuietViewers DEF Step, Moves
    <3> QED BY <2>1, <3>2, QuietSlot
  <2> QED BY <2>2, <2>3, <2>4
<1>6. CASE SocketCloses(c) \/ Client(c)
  <2>1. UNCHANGED <<pc, idle, hub>> /\ (R!SocketCloses(c) \/ R!Client(c))
    BY <1>6 DEF SocketCloses, Client, streamVars
  <2>2. PICK r : Step(c, r) /\ r.registered = conn[c].registered
    BY <1>1, <2>1, ClientSteps
  <2>3. Viewers' = Viewers
    BY <1>1, <2>2, QuietViewers DEF Step, Moves
  <2> QED BY <2>1, <2>3, QuietSlot
<1> QED BY <1>2, <1>3, <1>4, <1>5, <1>6

-----------------------------------------------------------------------------
(* The supervisors.  Late clients or not, there is one live supervisor until *)
(* the hub has stopped; after that each steps by itself.                     *)

LEMMA TaskSees ==
  ASSUME NEW t \in Tasks, TaskStep(t)
  PROVE  UNCHANGED Seen
<1>1. UNCHANGED <<conn, idle, hub>>
  BY DEF TaskStep, serverVars, S!TaskStep, S!Work, S!Start, S!BackoffEnd, S!LoopHead,
     S!Frame, S!Fail, S!Crash, S!ClosedForGood, S!ClosedAfterFailure, S!Cancelled, S!hubVars
<1> QED BY <1>1 DEF Seen, Viewers

LEMMA OthersFree ==
  ASSUME HolderInv, hub # "stopped", NEW t \in Tasks, S!Alive(t), NEW u \in Tasks, u # t
  PROVE  pc[u] \in S!Dead /\ S!SlotOf(u) = "free"
<1>1. pc[u] \in S!Dead
  BY DEF HolderInv, Held, OneLive, S!Alive
<1> QED BY <1>1, SlotFree

\* the head of the loop: connect, when the stream is wanted, or exit
LEMMA LoopHeadSlot ==
  ASSUME SlotInv, NEW t \in Tasks, pc[t] \in {"created", "backoff"}, NEW b,
         S!LoopHead(t, b), UNCHANGED Seen
  PROVE  Device!SlotNext \/ UNCHANGED Device!slotVars
<1>1. HolderInv /\ pc \in [Tasks -> S!PCs] /\ S!Alive(t) /\ S!SlotOf(t) = "free"
  BY PcTyped, SlotFree DEF SlotInv, S!Alive, S!Dead
<1>2. hub # "stopped" => \A u \in Tasks : S!SlotOf(u) = "free"
  BY <1>1, OthersFree
<1>3. CASE ~S!IdleExpired
  <2>1. pc' = [pc EXCEPT ![t] = "reading"]
    BY <1>3 DEF S!LoopHead, S!NewConnection
  <2>2. S!SlotOf(t)' = "held" /\ \A u \in Tasks : u # t => pc'[u] = pc[u]
    BY <1>1, <2>1 DEF S!SlotOf
  <2>3. Device!Become(t, "held")
    BY <2>2, TaskSlot
  <2>4. Device!Connect(t)
    BY <1>1, <1>2, <1>3, <2>3, WantedHere DEF Device!Connect, Slots
  <2> QED BY <2>4 DEF Device!SlotNext
<1>4. CASE S!IdleExpired
  <2>1. pc' = [pc EXCEPT ![t] = "done"]
    BY <1>4 DEF S!LoopHead, S!NormalExit, S!IdleExpired
  <2>2. \A u \in Tasks : S!SlotOf(u)' = S!SlotOf(u)
    BY <1>1, <2>1 DEF S!SlotOf
  <2> QED BY <2>2, SlotsStay, SlotStutter
<1> QED BY <1>3, <1>4

LEMMA TaskStepSlot ==
  ASSUME SlotInv, NEW t \in Tasks, TaskStep(t)
  PROVE  Device!SlotNext \/ UNCHANGED Device!slotVars
<1>1. pc \in [Tasks -> S!PCs] /\ UNCHANGED Seen /\ S!TaskStep(t)
  BY TaskSees, PcTyped DEF TaskStep
<1>2. CASE S!Start(t) \/ S!BackoffEnd(t)
  BY <1>1, <1>2, LoopHeadSlot DEF S!Start, S!BackoffEnd
<1>3. ASSUME NEW q, pc' = [pc EXCEPT ![t] = q]
      PROVE  /\ pc'[t] = q
             /\ \A s : S!SlotOf(t)' = s => Device!Become(t, s)
             /\ S!SlotOf(t)' = S!SlotOf(t) => UNCHANGED Device!slotVars
  <2>1. pc'[t] = q /\ \A u \in Tasks : u # t => pc'[u] = pc[u]
    BY <1>1, <1>3
  <2>2. \A u \in Tasks : u # t => S!SlotOf(u)' = S!SlotOf(u)
    BY <2>1 DEF S!SlotOf
  <2>3. ASSUME NEW s, S!SlotOf(t)' = s PROVE Device!Become(t, s)
    BY <1>1, <2>1, <2>3, TaskSlot
  <2>4. S!SlotOf(t)' = S!SlotOf(t) => UNCHANGED Device!slotVars
    BY <1>1, <2>2, SlotsStay, SlotStutter
  <2> QED BY <2>1, <2>3, <2>4
<1>4. CASE \E f \in Frames : S!Frame(t, f)
  <2>1. CASE ~S!IdleExpired
    <3>1. pc' = [pc EXCEPT ![t] = "reading"] /\ pc[t] = "reading"
      BY <1>1, <1>4, <2>1 DEF S!Frame
    <3> QED BY <1>3, <3>1 DEF S!SlotOf
  <2>2. CASE S!IdleExpired
    <3>1. pc' = [pc EXCEPT ![t] = "closing_idle"] /\ pc[t] = "reading"
      BY <1>4, <2>2 DEF S!Frame
    <3>2. S!SlotOf(t) = "held" /\ S!SlotOf(t)' = "idle"
      BY <1>3, <3>1 DEF S!SlotOf
    <3>3. Device!Become(t, "idle")
      BY <1>3, <3>1, <3>2
    <3>4. Device!LetGo(t)
      BY <2>2, <3>2, <3>3, WantedHere DEF Device!LetGo
    <3> QED BY <3>4 DEF Device!SlotNext
  <2> QED BY <2>1, <2>2
<1>5. CASE S!Fail(t) \/ S!Crash(t)
  <2>1. PICK q \in {"closing_failed", "closing_crash"} : pc' = [pc EXCEPT ![t] = q]
    BY <1>5 DEF S!Fail, S!Crash
  <2>2. S!SlotOf(t) = "held" /\ S!SlotOf(t)' = "failed"
    BY <1>3, <1>5, <2>1 DEF S!Fail, S!Crash, S!SlotOf
  <2>3. Device!Become(t, "failed")
    BY <1>3, <2>1, <2>2
  <2>4. Device!Lose(t)
    BY <2>2, <2>3 DEF Device!Lose
  <2> QED BY <2>4 DEF Device!SlotNext
<1>6. CASE S!ClosedForGood(t) \/ S!ClosedAfterFailure(t)
  <2>1. pc[t] \in S!Closing
    BY <1>6 DEF S!ClosedForGood, S!ClosedAfterFailure, S!Closing
  <2>2. PICK q \in {"done", "crashed", "backoff"} : pc' = [pc EXCEPT ![t] = q]
    BY <1>6 DEF S!ClosedForGood, S!ClosedAfterFailure, S!Finish
  <2>3. S!SlotOf(t) \in {"idle", "failed", "stopped"} /\ S!SlotOf(t)' = "free"
    BY <1>3, <2>1, <2>2 DEF S!Closing, S!SlotOf
  <2>4. Device!Become(t, "free")
    BY <1>3, <2>2, <2>3
  <2>5. Device!Released(t)
    BY <2>3, <2>4 DEF Device!Released, Device!Releasing
  <2> QED BY <2>5 DEF Device!SlotNext
<1>7. CASE S!Cancelled(t)
  <2>1. S!Alive(t) /\ hub = "stopping"
    BY <1>7, Bounds DEF S!Cancelled, SlotInv, StopCancels
  <2>2. CASE pc[t] = "reading"
    <3>1. pc' = [pc EXCEPT ![t] = "closing_cancel"]
      BY <1>7, <2>2 DEF S!Cancelled
    <3>2. S!SlotOf(t) = "held" /\ S!SlotOf(t)' = "stopped"
      BY <1>3, <2>2, <3>1 DEF S!SlotOf
    <3>3. Device!Become(t, "stopped")
      BY <1>3, <3>1, <3>2
    <3>4. Device!Withdraw(t)
      BY <2>1, <3>2, <3>3 DEF Device!Withdraw
    <3> QED BY <3>4 DEF Device!SlotNext
  <2>3. CASE pc[t] # "reading"
    <3>1. pc' = [pc EXCEPT ![t] = "done"]
      BY <1>7, <2>3 DEF S!Cancelled, S!Finish
    <3>2. S!SlotOf(t)' = "free"
      BY <1>3, <3>1 DEF S!SlotOf
    <3>3. CASE pc[t] \in S!Closing
      <4>1. S!SlotOf(t) \in {"idle", "failed", "stopped"}
        BY <3>3 DEF S!Closing, S!SlotOf
      <4>2. Device!Become(t, "free")
        BY <1>3, <3>1, <3>2
      <4>3. Device!Released(t)
        BY <4>1, <4>2 DEF Device!Released, Device!Releasing
      <4> QED BY <4>3 DEF Device!SlotNext
    <3>4. CASE pc[t] \in {"created", "backoff"}
      <4>1. S!SlotOf(t) = "free"
        BY <3>4, SlotFree
      <4> QED BY <1>3, <3>1, <3>2, <4>1
    <3> QED BY <1>1, <2>1, <2>3, <3>3, <3>4 DEF S!PCs, S!Connected, S!Alive
  <2> QED BY <2>2, <2>3
<1> QED BY <1>1, <1>2, <1>4, <1>5, <1>6, <1>7 DEF S!TaskStep, S!Work

LEMMA StepSlot == SlotInv /\ [Next]_vars => [Device!SlotNext]_(Device!slotVars)
<1> SUFFICES ASSUME SlotInv, [Next]_vars
             PROVE  Device!SlotNext \/ UNCHANGED Device!slotVars
  OBVIOUS
<1>1. CASE HubStopBegin \/ HubStopEnd
  <2>1. UNCHANGED <<pc, idle>> /\ Viewers' = Viewers
    BY <1>1 DEF HubStopBegin, HubStopEnd, S!StopBegin, S!StopEnd, serverVars, Viewers
  <2>2. <<hub, hub'>> \in {<<"up", "stopping">>, <<"up", "stopped">>,
                           <<"stopping", "stopped">>}
    BY <1>1 DEF HubStopBegin, HubStopEnd, S!StopBegin, S!StopEnd
  <2>3. Device!ShutDown
    BY <2>1, <2>2, SamePcSlots DEF Device!ShutDown, Slots, Viewers
  <2> QED BY <2>3 DEF Device!SlotNext
<1>3. CASE Tick
  <2>1. UNCHANGED <<pc, hub>> /\ Viewers' = Viewers /\ idle' = S!UpTo(idle, Linger + 1)
    BY <1>3 DEF Tick, S!Tick, S!hubVars, serverVars, Viewers
  <2>2. idle' <= Linger => idle <= Linger
    BY <2>1, Bounds DEF S!UpTo, SlotInv, TypeOK, S!TypeOK
  <2>3. Slots' = Slots
    BY <2>1, SamePcSlots
  <2>4. CASE idle' <= Linger
    BY <2>1, <2>2, <2>3, <2>4, SlotStutter DEF Seen
  <2>5. CASE ~(idle' <= Linger)
    <3>1. Device!LingerOver
      BY <2>1, <2>3, <2>5 DEF Device!LingerOver, Slots, Viewers
    <3> QED BY <3>1 DEF Device!SlotNext
  <2> QED BY <2>4, <2>5
<1>4. ASSUME Viewers' = Viewers, UNCHANGED streamVars
      PROVE  UNCHANGED Device!slotVars
  BY <1>4, QuietSlot DEF streamVars
<1>5. CASE ServerStopBegin
  <2>1. Viewers' = Viewers
    BY <1>5 DEF ServerStopBegin, R!StopBegin, Viewers, SlotInv, TypeOK, R!TypeOK, R!Connection
  <2> QED BY <1>4, <1>5, <2>1 DEF ServerStopBegin
<1>6. CASE ServerStopEnd \/ Return \/ Ended \/ UNCHANGED vars
  <2>1. UNCHANGED conn /\ UNCHANGED streamVars
    BY <1>6 DEF ServerStopEnd, R!StopEnd, Return, Ended, vars, serverVars
  <2> QED BY <1>4, <2>1 DEF Viewers
<1>7. CASE \E t \in Tasks : TaskStep(t)
  BY <1>7, TaskStepSlot
<1>8. CASE Work
  BY <1>1, <1>3, <1>5, <1>6, <1>7, <1>8, ConnectionSlot DEF Work
<1> QED BY <1>6, <1>8 DEF Next, Live

-----------------------------------------------------------------------------
(* What the mapping stands on holds.                                         *)

LEMMA StepNoDescribePlays == AgreeInv /\ NoDescribePlays /\ [Next]_vars => NoDescribePlays'
<1> SUFFICES ASSUME AgreeInv, NoDescribePlays, [Next]_vars PROVE NoDescribePlays'
  OBVIOUS
<1>1. DOMAIN client = Identities /\ \A c \in Conns : Waiter(c) \in Identities
  BY DEF AgreeInv, Identities, Waiter, Roles
<1>2. CASE UNCHANGED client
  BY <1>2 DEF NoDescribePlays, Waiter
<1>3. ASSUME NEW c \in Conns, CallStream(c) PROVE NoDescribePlays'
  <2>1. CASE S!Subscribe(NextSub(c))
    <3>1. client' = [client EXCEPT ![NextSub(c)] = "playing"]
      BY <2>1 DEF S!Subscribe
    <3>2. \A d \in Conns : Waiter(d) # NextSub(c)
      BY DEF Waiter, NextSub
    <3> QED BY <1>1, <3>1, <3>2 DEF NoDescribePlays, Waiter
  <2>2. CASE S!Unsubscribe(Sub(c))
    <3>1. client' = [client EXCEPT ![Sub(c)] = "away"]
      BY <2>2 DEF S!Unsubscribe
    <3> QED BY <1>1, <3>1 DEF NoDescribePlays, Waiter
  <2> QED BY <1>2, <1>3, <2>1, <2>2 DEF CallStream, streamVars
<1>4. ASSUME NEW c \in Conns, Describe(c) \/ DescribeEnds(c) PROVE NoDescribePlays'
  <2>1. PICK v \in {"woken", "describing", "away"} : client' = [client EXCEPT ![Waiter(c)] = v]
    BY <1>4 DEF Describe, DescribeEnds, S!Describe, S!DescribeExpired, S!DescribeReply,
       S!StopDescribing
  <2> QED BY <1>1, <2>1 DEF NoDescribePlays, Waiter
<1>5. CASE (\E t \in Tasks : TaskStep(t)) \/ HubStopBegin \/ HubStopEnd \/ Tick
  <2>1. (\E t \in Tasks : S!TaskStep(t)) \/ S!StopBegin \/ S!StopEnd \/ S!Tick
    BY <1>5 DEF TaskStep, HubStopBegin, HubStopEnd, Tick
  <2>2. \A d \in Identities : \/ client'[d] = client[d]
                              \/ client[d] = "describing" /\ client'[d] = "woken"
    BY <1>1, <2>1, TasksServe
  <2> QED BY <1>1, <2>2 DEF NoDescribePlays, Waiter
<1>6. ASSUME NEW c \in Conns, PumpTakes(c) \/ PumpCrash(c) \/ SocketCloses(c) \/ Client(c)
      PROVE  UNCHANGED client
  BY <1>6 DEF PumpTakes, PumpCrash, S!Get, SocketCloses, Client, streamVars
<1>7. CASE ServerStopBegin \/ ServerStopEnd \/ Return \/ Ended \/ UNCHANGED vars
  BY <1>2, <1>7 DEF ServerStopBegin, ServerStopEnd, Return, Ended, vars, streamVars
<1>8. CASE Work
  BY <1>2, <1>3, <1>4, <1>5, <1>6, <1>7, <1>8
     DEF Work, LoopStep, PumpStep, ReadFails, CloserStep
<1> QED BY <1>7, <1>8 DEF Next, Live

LEMMA StepStopCancels == StopCancels /\ [Next]_vars => StopCancels'
<1> SUFFICES ASSUME StopCancels, [Next]_vars PROVE StopCancels'
  OBVIOUS
<1>1. CASE UNCHANGED streamVars
  BY <1>1 DEF streamVars, StopCancels
<1>2. CASE S!Next
  <2>1. UNCHANGED <<hub, stopping>> \/ S!StopBegin \/ S!StopEnd
    BY <1>2 DEF S!Next, S!ClientStep, S!Describe, S!DescribeReply, S!DescribeExpired,
       S!StopDescribing, S!Subscribe, S!Unsubscribe, S!Get, S!TaskStep, S!Work, S!Start,
       S!BackoffEnd, S!LoopHead, S!Frame, S!Fail, S!Crash, S!ClosedForGood,
       S!ClosedAfterFailure, S!Cancelled, S!Tick, S!hubVars
  <2>2. CASE UNCHANGED <<hub, stopping>>
    BY <2>2 DEF StopCancels
  <2>3. CASE S!StopBegin \/ S!StopEnd
    BY <2>3 DEF S!StopBegin, S!StopEnd, StopCancels
  <2> QED BY <2>1, <2>2, <2>3
<1> QED BY <1>1, <1>2, JointStream
     DEF S!vars, S!taskVars, S!eventVars, S!setVars, S!hubVars, S!subVars, streamVars

LEMMA InitSlotInv == Init => NoDescribePlays /\ StopCancels /\ Device!SlotInit
<1> SUFFICES ASSUME Init PROVE NoDescribePlays /\ StopCancels /\ Device!SlotInit
  OBVIOUS
<1>1. NoDescribePlays /\ StopCancels
  BY DEF Init, S!Init, NoDescribePlays, StopCancels, Waiter, Roles
<1>2. \A t \in Tasks : S!SlotOf(t) = "free"
  BY SlotFree DEF Init, S!Init, S!Dead
<1>3. Viewers = {}
  BY DEF Init, R!Init, R!Absent, Viewers
<1>4. idle <= Linger /\ hub = "up"
  BY Bounds DEF Init, S!Init
<1> QED BY <1>1, <1>2, <1>3, <1>4 DEF Device!SlotInit, Viewers

\* hub.py 4-7 of the whole bridge: however many clients connect, play, vanish and are
\* stopped, the DVR's channel is taken only while a connection has a subscriber or a
\* request came within `linger`, by one supervisor at a time until the hub has stopped,
\* and let go under a viewer only because the device failed or the bridge is shutting
\* down.
THEOREM BridgeImplementsSlot == Spec => BridgeKeepsSlot
<1>1. Init => HolderInv /\ AgreeInv /\ NoDescribePlays /\ StopCancels /\ Device!SlotInit
  BY InitHolder, InitAgrees, InitSlotInv
<1>2. HolderInv /\ AgreeInv /\ NoDescribePlays /\ StopCancels /\ [Next]_vars
        => (HolderInv /\ AgreeInv /\ NoDescribePlays /\ StopCancels)'
  BY StepHolder, StepAgrees, StepNoDescribePlays, StepStopCancels
<1>3. TypeOK /\ HolderInv /\ AgreeInv /\ NoDescribePlays /\ StopCancels /\ [Next]_vars
        => [Device!SlotNext]_(Device!slotVars)
  BY StepSlot DEF SlotInv
<1> QED BY <1>1, <1>2, <1>3, BridgeTyped, PTL DEF Spec, BridgeKeepsSlot, Device!SlotSpec
=============================================================================
