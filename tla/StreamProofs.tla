---------------------------- MODULE StreamProofs ----------------------------
(***************************************************************************)
(* Proofs about Stream for every set of clients and tasks, every set of    *)
(* frames and every bound.                                                 *)
(***************************************************************************)
EXTENDS Stream, TLAPS

-----------------------------------------------------------------------------
(* Type correctness.                                                        *)

LEMMA InitialValues ==
  /\ BackoffStart \in 1 .. BackoffCap
  /\ 0 \in 0 .. BackoffCap
  /\ 0 \in 0 .. StableReset + 1
  /\ 0 \in 0 .. Linger + 1
  /\ 0 \in 0 .. DescribeTimeout
  /\ DescribeTimeout \in 0 .. DescribeTimeout
BY BoundsAssumption, BackoffAssumption

LEMMA UpToType ==
  ASSUME NEW bound \in Nat, NEW n \in 0 .. bound
  PROVE  UpTo(n, bound) \in 0 .. bound
BY DEF UpTo

LEMMA DownType ==
  ASSUME NEW bound \in Nat, NEW n \in 0 .. bound
  PROVE  Down(n) \in 0 .. bound
BY DEF Down

LEMMA DoubledType ==
  ASSUME NEW b \in 1 .. BackoffCap
  PROVE  Doubled(b) \in 1 .. BackoffCap
BY BackoffAssumption DEF Doubled

\* What Deliver does to one subscriber: the queue stays a bounded sequence.
LEMMA DeliverType ==
  ASSUME TypeOK, NEW f \in FrameKinds, NEW sets \in SetAges, Deliver(f, sets)
  PROVE  /\ waiting' \in [Clients -> BOOLEAN]
         /\ queue' \in [Clients -> Seq(Items)]
         /\ \A c \in Clients : Len(queue'[c]) <= QMax
         /\ link' \in [Clients -> Links]
<1>1. waiting' \in [Clients -> BOOLEAN]
  BY DEF TypeOK, Deliver, Fits
<1>2. link' \in [Clients -> Links]
  BY DEF TypeOK, Deliver, Links
<1>3. ASSUME NEW c \in Clients
      PROVE  queue'[c] \in Seq(Items) /\ Len(queue'[c]) <= QMax
  <2>1. queue[c] \in Seq(Items) /\ Len(queue[c]) \in Nat /\ Len(queue[c]) <= QMax
    BY DEF TypeOK
  <2> DEFINE item == [key |-> f.key, sets |-> sets,
                      link |-> IF f.key THEN "prev" ELSE link[c]]
  <2>2. item \in Items
    BY DEF TypeOK, Items, Links, FrameKinds
  <2>3. CASE c \in Subs /\ Accepts(c, f) /\ Fits(c)
    <3>1. queue'[c] = Append(queue[c], item)
      BY <2>3 DEF Deliver
    <3>2. Len(queue[c]) < QMax
      BY <2>3 DEF Fits
    <3> QED BY <2>1, <2>2, <3>1, <3>2, BoundsAssumption
  <2>4. CASE ~(c \in Subs /\ Accepts(c, f) /\ Fits(c))
    BY <2>1, <2>4 DEF Deliver
  <2> QED BY <2>3, <2>4
<1>4. queue' \in [Clients -> Seq(Items)]
  BY <1>3 DEF Deliver
<1> QED BY <1>1, <1>2, <1>3, <1>4

\* create_task yields a handle and a task that has not started.
LEMMA SpawnType ==
  ASSUME NEW pcs \in [Tasks -> PCs], Spawn(pcs)
  PROVE  handle' \in Tasks /\ pc' \in [Tasks -> PCs]
BY DEF Spawn, PCs

LEMMA EnsureRunningType ==
  ASSUME TypeOK, EnsureRunning
  PROVE  handle' \in Tasks \cup {NoTask} /\ pc' \in [Tasks -> PCs]
BY SpawnType DEF EnsureRunning, TypeOK

LEMMA PcType ==
  ASSUME NEW t \in Tasks, NEW p \in PCs, TypeOK
  PROVE  [pc EXCEPT ![t] = p] \in [Tasks -> PCs]
BY DEF TypeOK

LEMMA FinishType ==
  ASSUME TypeOK, NEW t \in Tasks, NEW how \in Dead, Finish(t, how)
  PROVE  /\ pc' \in [Tasks -> PCs]
         /\ backoff' \in [Tasks -> 1 .. BackoffCap]
         /\ left' \in [Tasks -> 0 .. BackoffCap]
         /\ age' \in [Tasks -> 0 .. StableReset + 1]
         /\ ready' \in BOOLEAN
<1>1. how \in PCs
  BY DEF PCs, Dead
<1>2. pc' \in [Tasks -> PCs]
  BY <1>1, PcType DEF Finish
<1> QED BY <1>2, InitialValues DEF Finish, TypeOK

\* A client changes state, with a timer within its bound.
LEMMA ClientType ==
  ASSUME TypeOK, NEW c \in Clients, NEW st \in ClientStates,
         NEW n \in 0 .. DescribeTimeout
  PROVE  /\ [client EXCEPT ![c] = st] \in [Clients -> ClientStates]
         /\ [timer EXCEPT ![c] = n] \in [Clients -> 0 .. DescribeTimeout]
BY DEF TypeOK

LEMMA InitType == Init => TypeOK
<1> SUFFICES ASSUME Init PROVE TypeOK
  OBVIOUS
<1>1. handle \in Tasks \cup {NoTask} /\ pc \in [Tasks -> PCs]
  BY DEF Init, PCs, Dead
<1>2. /\ backoff \in [Tasks -> 1 .. BackoffCap]
      /\ left \in [Tasks -> 0 .. BackoffCap]
      /\ age \in [Tasks -> 0 .. StableReset + 1]
      /\ idle \in 0 .. Linger + 1
      /\ timer \in [Clients -> 0 .. DescribeTimeout]
  BY InitialValues DEF Init
<1>3. /\ sps \in SetAges /\ pps \in SetAges
      /\ hub \in {"up", "stopping", "stopped"} /\ stopping \in Tasks \cup {NoTask}
      /\ client \in [Clients -> ClientStates]
      /\ link \in [Clients -> Links]
  BY DEF Init, SetAges, ClientStates, Links
<1>4. queue \in [Clients -> Seq(Items)] /\ \A c \in Clients : Len(queue[c]) <= QMax
  BY BoundsAssumption DEF Init
<1> QED BY <1>1, <1>2, <1>3, <1>4 DEF Init, TypeOK

LEMMA StepType == TypeOK /\ [Next]_vars => TypeOK'
<1> SUFFICES ASSUME TypeOK, [Next]_vars PROVE TypeOK'
  OBVIOUS
<1> USE BoundsAssumption, BackoffAssumption
<1>1. ASSUME NEW c \in Clients, Describe(c) PROVE TypeOK'
  <2>1. /\ client' \in [Clients -> ClientStates]
        /\ timer' \in [Clients -> 0 .. DescribeTimeout]
    <3>1. CASE ready
      BY <1>1, <3>1, ClientType, InitialValues DEF Describe, ClientStates
    <3>2. CASE ~ready
      BY <1>1, <3>2, ClientType, InitialValues DEF Describe, ClientStates
    <3> QED BY <3>1, <3>2
  <2>2. EnsureRunning /\ idle' = 0
    BY <1>1 DEF Describe, Touch
  <2> QED BY <1>1, <2>1, <2>2, EnsureRunningType, InitialValues
       DEF TypeOK, Describe, EnsureRunning, eventVars, setVars, hubVars, subVars
<1>2. ASSUME NEW c \in Clients, DescribeReply(c) \/ DescribeExpired(c) PROVE TypeOK'
  <2>1. StopDescribing(c)
    BY <1>2 DEF DescribeReply, DescribeExpired
  <2>2. /\ client' \in [Clients -> ClientStates]
        /\ timer' \in [Clients -> 0 .. DescribeTimeout]
    BY <2>1, ClientType, InitialValues DEF StopDescribing, ClientStates
  <2> QED BY <2>1, <2>2 DEF TypeOK, StopDescribing, taskVars, eventVars, setVars,
       hubVars, subVars
<1>3. ASSUME NEW c \in Clients, Subscribe(c) PROVE TypeOK'
  <2>1. client' \in [Clients -> ClientStates]
    BY <1>3, ClientType, InitialValues DEF Subscribe, ClientStates
  <2>2. EnsureRunning /\ idle' = 0
    BY <1>3 DEF Subscribe, Touch
  <2>3. waiting' \in [Clients -> BOOLEAN]
    BY <1>3 DEF Subscribe, TypeOK
  <2> QED BY <1>3, <2>1, <2>2, <2>3, EnsureRunningType, InitialValues
       DEF TypeOK, Subscribe, EnsureRunning, setVars, hubVars
<1>4. ASSUME NEW c \in Clients, Unsubscribe(c) PROVE TypeOK'
  <2>1. client' \in [Clients -> ClientStates]
    BY <1>4, ClientType, InitialValues DEF Unsubscribe, ClientStates
  <2>2. waiting' \in [Clients -> BOOLEAN] /\ link' \in [Clients -> Links]
    BY <1>4 DEF Unsubscribe, TypeOK, Links
  <2>3. queue' \in [Clients -> Seq(Items)] /\ \A d \in Clients : Len(queue'[d]) <= QMax
    BY <1>4 DEF Unsubscribe, TypeOK
  <2> QED BY <1>4, <2>1, <2>2, <2>3, InitialValues
       DEF TypeOK, Unsubscribe, taskVars, eventVars, setVars, hubVars
<1>5. ASSUME NEW c \in Clients, Get(c) PROVE TypeOK'
  <2>1. queue[c] \in Seq(Items) /\ queue[c] # <<>> /\ Len(queue[c]) <= QMax
    BY <1>5 DEF TypeOK, Get
  <2>2. Tail(queue[c]) \in Seq(Items) /\ Len(Tail(queue[c])) <= QMax
    BY <2>1
  <2>3. queue' = [queue EXCEPT ![c] = Tail(queue[c])]
    BY <1>5 DEF Get
  <2>4. queue' \in [Clients -> Seq(Items)] /\ \A d \in Clients : Len(queue'[d]) <= QMax
    BY <2>2, <2>3 DEF TypeOK
  <2> QED BY <1>5, <2>4 DEF TypeOK, Get, taskVars, eventVars, setVars, hubVars
<1>6. ASSUME NEW t \in Tasks, NEW b \in 1 .. BackoffCap, LoopHead(t, b) PROVE TypeOK'
  <2>1. UNCHANGED <<wake, idle, hubVars, client, timer, waiting, queue>>
    BY <1>6 DEF LoopHead
  <2>2. CASE NewConnection(t, b)
    <3>1. pc' \in [Tasks -> PCs]
      BY <2>2, PcType DEF NewConnection, PCs, Connected
    <3>2. sps' \in SetAges /\ pps' \in SetAges /\ link' \in [Clients -> Links]
      BY <2>2 DEF NewConnection, Aged, SetAges, Links, TypeOK
    <3> QED BY <2>1, <2>2, <3>1, <3>2 DEF NewConnection, TypeOK, hubVars
  <2>3. CASE NormalExit(t)
    <3>1. [pc EXCEPT ![t] = "done"] \in [Tasks -> PCs]
      BY PcType DEF PCs, Dead
    <3>2. handle' \in Tasks \cup {NoTask} /\ pc' \in [Tasks -> PCs]
      BY <2>3, <3>1, SpawnType DEF NormalExit
    <3>3. /\ backoff' \in [Tasks -> 1 .. BackoffCap]
          /\ left' \in [Tasks -> 0 .. BackoffCap]
          /\ age' \in [Tasks -> 0 .. StableReset + 1]
      BY <2>3, InitialValues DEF NormalExit, TypeOK
    <3> QED BY <2>1, <2>3, <3>2, <3>3 DEF NormalExit, TypeOK, hubVars, setVars
  <2> QED BY <1>6, <2>2, <2>3 DEF LoopHead
<1>7. ASSUME NEW t \in Tasks, Start(t) PROVE TypeOK'
  <2>1. BackoffStart \in 1 .. BackoffCap
    OBVIOUS
  <2> QED BY <1>6, <1>7, <2>1 DEF Start
<1>8. ASSUME NEW t \in Tasks, NEW f \in Frames, Frame(t, f) PROVE TypeOK'
  <2>1. f \in FrameKinds
    BY FramesAssumption
  <2>2. sps' \in SetAges /\ pps' \in SetAges
    BY <1>8 DEF Frame, OnFrame, TypeOK, SetAges
  <2>3. SetsOf(f, sps', pps') \in SetAges
    BY DEF SetsOf, SetAges
  <2>4. ready' \in BOOLEAN
    BY <1>8 DEF Frame, OnFrame, TypeOK
  <2>5. client' \in [Clients -> ClientStates]
    BY <1>8 DEF Frame, OnFrame, TypeOK, ClientStates
  <2>6. /\ waiting' \in [Clients -> BOOLEAN]
        /\ queue' \in [Clients -> Seq(Items)]
        /\ \A c \in Clients : Len(queue'[c]) <= QMax
        /\ link' \in [Clients -> Links]
    <3>1. CASE f.nals = {}
      BY <1>8, <3>1 DEF Frame, OnFrame, subVars, TypeOK
    <3>2. CASE f.nals # {}
      BY <1>8, <3>2, <2>1, <2>3, DeliverType DEF Frame, OnFrame
    <3> QED BY <3>1, <3>2
  <2>7. pc' \in [Tasks -> PCs]
    BY <1>8 DEF Frame, TypeOK, PCs, Connected, Closing
  <2> QED BY <1>8, <2>2, <2>4, <2>5, <2>6, <2>7 DEF Frame, TypeOK, hubVars
<1>9. ASSUME NEW t \in Tasks, Fail(t) \/ Crash(t) PROVE TypeOK'
  BY <1>9 DEF TypeOK, Fail, Crash, PCs, Connected, Closing, eventVars, setVars, hubVars,
     subVars
<1>10. ASSUME NEW t \in Tasks, ClosedForGood(t) PROVE TypeOK'
  <2>1. \E how \in Dead : Finish(t, how)
    BY <1>10 DEF ClosedForGood, Dead
  <2> QED BY <1>10, <2>1, FinishType
       DEF TypeOK, ClosedForGood, setVars, hubVars, subVars
<1>11. ASSUME NEW t \in Tasks, ClosedAfterFailure(t) PROVE TypeOK'
  <2>1. CASE IdleExpired
    <3>1. "done" \in Dead /\ Finish(t, "done")
      BY <1>11, <2>1 DEF ClosedAfterFailure, Dead
    <3> QED BY <1>11, <2>1, <3>1, FinishType
         DEF TypeOK, ClosedAfterFailure, setVars, hubVars, subVars
  <2>2. CASE ~IdleExpired
    <3>1. pc' \in [Tasks -> PCs]
      BY <1>11, <2>2, PcType DEF ClosedAfterFailure, PCs
    <3>2. backoff' \in [Tasks -> 1 .. BackoffCap]
      BY <1>11, <2>2, SMTT(30) DEF ClosedAfterFailure, TypeOK
    <3>3. left' \in [Tasks -> 0 .. BackoffCap]
      <4>1. backoff'[t] \in 0 .. BackoffCap
        BY <3>2
      <4> QED BY <1>11, <2>2, <4>1 DEF ClosedAfterFailure, TypeOK
    <3>5. age' \in [Tasks -> 0 .. StableReset + 1]
      BY <1>11, <2>2, InitialValues DEF ClosedAfterFailure, TypeOK
    <3>4. sps' \in SetAges /\ pps' \in SetAges
      BY <1>11, <2>2 DEF ClosedAfterFailure, DropSets, SetAges
    <3> QED BY <1>11, <2>2, <3>1, <3>2, <3>3, <3>4, <3>5
         DEF TypeOK, ClosedAfterFailure, hubVars, subVars
  <2> QED BY <2>1, <2>2
<1>12. ASSUME NEW t \in Tasks, BackoffEnd(t) PROVE TypeOK'
  <2>1. Doubled(backoff[t]) \in 1 .. BackoffCap
    BY DoubledType DEF TypeOK
  <2> QED BY <1>6, <1>12, <2>1 DEF BackoffEnd
<1>13. ASSUME NEW t \in Tasks, Cancelled(t) PROVE TypeOK'
  <2>1. CASE pc[t] = "reading"
    <3>1. pc' \in [Tasks -> PCs]
      BY <1>13, <2>1, PcType DEF Cancelled, PCs, Connected, Closing
    <3> QED BY <1>13, <2>1, <3>1 DEF TypeOK, Cancelled, setVars, hubVars, subVars
  <2>2. CASE pc[t] # "reading"
    <3>1. "done" \in Dead /\ Finish(t, "done")
      BY <1>13, <2>2 DEF Cancelled, Dead
    <3> QED BY <1>13, <3>1, FinishType DEF TypeOK, Cancelled, setVars, hubVars, subVars
  <2> QED BY <2>1, <2>2
<1>14. CASE StopBegin
  BY <1>14 DEF TypeOK, StopBegin, Running, eventVars, setVars, subVars
<1>15. CASE StopEnd
  BY <1>15 DEF TypeOK, StopEnd, eventVars, setVars, subVars
<1>16. CASE Tick
  <2>1. Linger + 1 \in Nat /\ StableReset + 1 \in Nat /\ BackoffCap \in Nat
    OBVIOUS
  <2>2. idle' \in 0 .. Linger + 1
    BY <1>16, <2>1, UpToType DEF Tick, TypeOK
  <2>3. age' \in [Tasks -> 0 .. StableReset + 1]
    BY <1>16, <2>1, UpToType DEF Tick, TypeOK
  <2>4. left' \in [Tasks -> 0 .. BackoffCap]
    BY <1>16, <2>1, DownType DEF Tick, TypeOK
  <2>5. timer' \in [Clients -> 0 .. DescribeTimeout]
    BY <1>16, DownType DEF Tick, TypeOK
  <2> QED BY <1>16, <2>2, <2>3, <2>4, <2>5
       DEF Tick, TypeOK, eventVars, setVars, hubVars, subVars
<1>17. CASE UNCHANGED vars
  BY <1>17 DEF TypeOK, vars, taskVars, eventVars, setVars, hubVars, subVars
<1> QED
  BY <1>1, <1>2, <1>3, <1>4, <1>5, <1>7, <1>8, <1>9, <1>10, <1>11, <1>12, <1>13, <1>14,
     <1>15, <1>16, <1>17 DEF Next, ClientStep, TaskStep, Work

\* Every variable keeps its type: no timer, counter or queue leaves its bound.
THEOREM TypeCorrect == Spec => []TypeOK
<1>1. Init => TypeOK
  BY InitType
<1>2. TypeOK /\ [Next]_vars => TypeOK'
  BY StepType
<1> QED BY <1>1, <1>2, PTL DEF Spec

-----------------------------------------------------------------------------
(* One connection per channel.  The invariant is inductive only with what    *)
(* stop() relies on: until it ends, the task it cancelled is the handle's,   *)
(* and once it has begun nobody touches the stream.                          *)

StopKeepsHandle ==
  /\ hub = "stopping" => stopping = handle /\ stopping \in Tasks
  /\ hub # "stopping" => stopping = NoTask

OneConnectionInv == TypeOK /\ OneConnection /\ StopKeepsHandle

LEMMA InitOneConnection == Init => OneConnectionInv
<1> SUFFICES ASSUME Init PROVE OneConnection /\ StopKeepsHandle
  BY InitType DEF OneConnectionInv
<1> QED BY DEF Init, OneConnection, StopKeepsHandle, Alive, Dead

\* A step that ends no task in favour of another and leaves stop() alone.
LEMMA SameHandle ==
  ASSUME OneConnectionInv, UNCHANGED <<handle, hubVars>>,
         \A t \in Tasks : Alive(t)' => Alive(t)
  PROVE  OneConnection' /\ StopKeepsHandle'
BY DEF OneConnectionInv, OneConnection, StopKeepsHandle, hubVars

\* create_task when no live task is left
LEMMA SpawnOne ==
  ASSUME NEW pcs \in [Tasks -> PCs], \A t \in Tasks : pcs[t] \in Dead, Spawn(pcs)
  PROVE  OneConnection'
BY DEF Spawn, OneConnection, Alive

LEMMA EnsureRunningOne ==
  ASSUME OneConnectionInv, hub = "up", EnsureRunning, UNCHANGED hubVars
  PROVE  OneConnection' /\ StopKeepsHandle'
<1>1. CASE Running
  BY <1>1, SameHandle DEF EnsureRunning, Alive
<1>2. CASE ~Running
  <2>1. \A t \in Tasks : pc[t] \in Dead
    BY <1>2, TasksAssumption DEF Running, OneConnectionInv, OneConnection, Alive
  <2>2. OneConnection'
    BY <1>2, <2>1, SpawnOne DEF EnsureRunning, OneConnectionInv, TypeOK
  <2> QED BY <2>2 DEF OneConnectionInv, StopKeepsHandle, hubVars
<1> QED BY <1>1, <1>2

LEMMA LoopHeadOne ==
  ASSUME OneConnectionInv, NEW t \in Tasks, NEW b, Alive(t), MayRun(t), LoopHead(t, b)
  PROVE  OneConnection' /\ StopKeepsHandle'
<1>1. t = handle /\ hub # "stopping" /\ UNCHANGED hubVars
  BY DEF OneConnectionInv, OneConnection, StopKeepsHandle, MayRun, LoopHead, TypeOK
<1>2. StopKeepsHandle'
  BY <1>1 DEF OneConnectionInv, StopKeepsHandle, hubVars
<1>3. CASE NewConnection(t, b)
  <2>1. \A u \in Tasks : u # t => pc'[u] = pc[u]
    BY <1>3 DEF NewConnection, OneConnectionInv, TypeOK
  <2>2. handle' = t
    BY <1>1, <1>3 DEF NewConnection
  <2>3. OneConnection'
    BY <1>1, <2>1, <2>2 DEF OneConnectionInv, OneConnection, Alive
  <2> QED BY <1>2, <2>3
<1>4. CASE NormalExit(t)
  <2> DEFINE pcs == [pc EXCEPT ![t] = "done"]
  <2>1. pcs \in [Tasks -> PCs] /\ \A u \in Tasks : pcs[u] \in Dead
    BY <1>1 DEF OneConnectionInv, OneConnection, Alive, TypeOK, PCs, Dead
  <2>2. CASE Subs # {}
    <3>1. Spawn(pcs)
      BY <1>4, <2>2 DEF NormalExit
    <3> HIDE DEF pcs
    <3> QED BY <1>2, <2>1, <3>1, SpawnOne
  <2>3. CASE Subs = {}
    BY <1>2, <1>4, <2>1, <2>3 DEF NormalExit, OneConnection, Alive
  <2> QED BY <2>2, <2>3
<1> QED BY <1>2, <1>3, <1>4 DEF LoopHead

LEMMA StepOneConnection ==
  ASSUME Quiesced
  PROVE  OneConnectionInv /\ [Next]_vars => OneConnectionInv'
<1> SUFFICES ASSUME OneConnectionInv, [Next]_vars
             PROVE  OneConnection' /\ StopKeepsHandle'
  BY StepType DEF OneConnectionInv
<1>1. ASSUME NEW c \in Clients, Describe(c) \/ Subscribe(c)
      PROVE  OneConnection' /\ StopKeepsHandle'
  BY <1>1, EnsureRunningOne DEF Describe, Subscribe, ServerUp, Touch
<1>2. ASSUME NEW c \in Clients,
             DescribeReply(c) \/ DescribeExpired(c) \/ Unsubscribe(c) \/ Get(c)
      PROVE  OneConnection' /\ StopKeepsHandle'
  BY <1>2, SameHandle DEF DescribeReply, DescribeExpired, StopDescribing, Unsubscribe, Get,
     taskVars, Alive
<1>3. ASSUME NEW t \in Tasks, Start(t) \/ BackoffEnd(t)
      PROVE  OneConnection' /\ StopKeepsHandle'
  BY <1>3, LoopHeadOne DEF Start, BackoffEnd, Alive, Dead
<1>4. ASSUME NEW t \in Tasks,
             \/ \E f \in Frames : Frame(t, f)
             \/ Fail(t) \/ Crash(t) \/ ClosedForGood(t) \/ ClosedAfterFailure(t)
             \/ Cancelled(t)
      PROVE  OneConnection' /\ StopKeepsHandle'
  <2>1. pc[t] \notin Dead /\ UNCHANGED <<handle, hubVars>>
    BY <1>4 DEF Frame, Fail, Crash, ClosedForGood, ClosedAfterFailure, Cancelled, Alive,
       Dead, Closing
  <2>2. \A u \in Tasks : u # t => pc'[u] = pc[u]
    BY <1>4 DEF Frame, Fail, Crash, ClosedForGood, ClosedAfterFailure, Cancelled, Finish,
       OneConnectionInv, TypeOK
  <2>3. \A u \in Tasks : Alive(u)' => Alive(u)
    BY <2>1, <2>2 DEF Alive
  <2> QED BY <2>1, <2>3, SameHandle
<1>5. CASE StopBegin
  BY <1>5, TasksAssumption DEF StopBegin, Running, Alive, OneConnectionInv, OneConnection,
     StopKeepsHandle, TypeOK
<1>6. CASE StopEnd
  BY <1>6 DEF StopEnd, OneConnectionInv, OneConnection, StopKeepsHandle, Alive
<1>7. CASE Tick \/ UNCHANGED vars
  BY <1>7, SameHandle DEF Tick, vars, taskVars, hubVars, Alive
<1> QED BY <1>1, <1>2, <1>3, <1>4, <1>5, <1>6, <1>7 DEF Next, ClientStep, TaskStep, Work

\* Once the RTSP server is shut before the hub, as _serve shuts them, the hub
\* never has two live supervisors, hence never two connections, for a channel.
THEOREM OneConnectionHolds ==
  ASSUME Quiesced
  PROVE  Spec => []OneConnection
<1>1. Init => OneConnectionInv
  BY InitOneConnection
<1>2. OneConnectionInv /\ [Next]_vars => OneConnectionInv'
  BY StepOneConnection
<1>3. OneConnectionInv => OneConnection
  BY DEF OneConnectionInv
<1> QED BY <1>1, <1>2, <1>3, PTL DEF Spec

-----------------------------------------------------------------------------
(* _ready.                                                                  *)

\* A task step that takes no task out of Connected and no set out of the cache.
LEMMA ReadyKept ==
  ASSUME ReadyBacked, ready' => ready,
         sps # "none" => sps' # "none", pps # "none" => pps' # "none",
         \A t \in Tasks : pc[t] \in Connected => pc'[t] \in Connected
  PROVE  ReadyBacked'
BY DEF ReadyBacked

LEMMA SpawnReady ==
  ASSUME NEW pcs \in [Tasks -> PCs], Spawn(pcs)
  PROVE  \A t \in Tasks : pcs[t] \in Connected => pc'[t] \in Connected
BY DEF Spawn, Connected, Closing, Dead

LEMMA LoopHeadReady ==
  ASSUME TypeOK, ReadyBacked, NEW t \in Tasks, NEW b, LoopHead(t, b)
  PROVE  ReadyBacked'
<1>1. CASE NewConnection(t, b)
  <2>1. \A u \in Tasks : pc[u] \in Connected => pc'[u] \in Connected
    BY <1>1 DEF NewConnection, TypeOK, Connected
  <2>2. (sps # "none" => sps' # "none") /\ (pps # "none" => pps' # "none")
    BY <1>1 DEF NewConnection, Aged
  <2> QED BY <1>1, <2>1, <2>2, ReadyKept DEF NewConnection
<1>2. CASE NormalExit(t)
  BY <1>2 DEF NormalExit, ReadyBacked
<1> QED BY <1>1, <1>2 DEF LoopHead

LEMMA StepReadyBacked == TypeOK /\ ReadyBacked /\ [Next]_vars => ReadyBacked'
<1> SUFFICES ASSUME TypeOK, ReadyBacked, [Next]_vars PROVE ReadyBacked'
  OBVIOUS
<1>1. ASSUME NEW c \in Clients, Describe(c) \/ Subscribe(c) PROVE ReadyBacked'
  <2>1. EnsureRunning /\ UNCHANGED <<ready, sps, pps>>
    BY <1>1 DEF Describe, Subscribe, Touch, eventVars, setVars
  <2>2. \A t \in Tasks : pc[t] \in Connected => pc'[t] \in Connected
    BY <2>1, SpawnReady DEF EnsureRunning, TypeOK
  <2> QED BY <2>1, <2>2, ReadyKept
<1>2. ASSUME NEW c \in Clients,
             DescribeReply(c) \/ DescribeExpired(c) \/ Unsubscribe(c) \/ Get(c)
      PROVE  ReadyBacked'
  BY <1>2, ReadyKept DEF DescribeReply, DescribeExpired, StopDescribing, Unsubscribe, Get,
     taskVars, eventVars, setVars
<1>3. ASSUME NEW t \in Tasks, Start(t) \/ BackoffEnd(t) PROVE ReadyBacked'
  BY <1>3, LoopHeadReady DEF Start, BackoffEnd
<1>4. ASSUME NEW t \in Tasks, NEW f \in Frames, Frame(t, f) PROVE ReadyBacked'
  <2>1. pc'[t] \in Connected
    BY <1>4 DEF Frame, TypeOK, Connected, Closing
  <2>2. ready' => sps' # "none" /\ pps' # "none"
    BY <1>4 DEF Frame, OnFrame, ReadyBacked
  <2> QED BY <2>1, <2>2 DEF ReadyBacked
<1>5. ASSUME NEW t \in Tasks, Fail(t) \/ Crash(t) PROVE ReadyBacked'
  <2>1. \A u \in Tasks : pc[u] \in Connected => pc'[u] \in Connected
    BY <1>5 DEF Fail, Crash, TypeOK, Connected, Closing
  <2> QED BY <1>5, <2>1, ReadyKept DEF Fail, Crash, eventVars, setVars
<1>6. ASSUME NEW t \in Tasks, ClosedForGood(t) \/ ClosedAfterFailure(t)
      PROVE  ReadyBacked'
  BY <1>6 DEF ClosedForGood, ClosedAfterFailure, Finish, ReadyBacked
<1>7. ASSUME NEW t \in Tasks, Cancelled(t) PROVE ReadyBacked'
  <2>1. CASE pc[t] = "reading"
    <3>1. \A u \in Tasks : pc[u] \in Connected => pc'[u] \in Connected
      BY <1>7, <2>1 DEF Cancelled, TypeOK, Connected, Closing
    <3> QED BY <1>7, <2>1, <3>1, ReadyKept DEF Cancelled, setVars
  <2>2. CASE pc[t] # "reading"
    BY <1>7, <2>2 DEF Cancelled, Finish, ReadyBacked
  <2> QED BY <2>1, <2>2
<1>8. CASE StopBegin \/ StopEnd \/ Tick \/ UNCHANGED vars
  BY <1>8, ReadyKept DEF StopBegin, StopEnd, Tick, vars, taskVars, eventVars, setVars
<1> QED BY <1>1, <1>2, <1>3, <1>4, <1>5, <1>6, <1>7, <1>8 DEF Next, ClientStep, TaskStep, Work

\* A DESCRIBE that finds _ready set finds the parameter sets too, and a
\* supervisor that has the connection: no failure, crash, idle exit or stop
\* leaves the event set behind.
THEOREM ReadyBackedHolds == Spec => []ReadyBacked
<1>1. Init => TypeOK /\ ReadyBacked
  BY InitType DEF Init, ReadyBacked
<1>2. TypeOK /\ ReadyBacked /\ [Next]_vars => (TypeOK /\ ReadyBacked)'
  BY StepType, StepReadyBacked
<1> QED BY <1>1, <1>2, PTL DEF Spec

-----------------------------------------------------------------------------
(* Fan-out.  A subscriber that has missed a frame of the running connection *)
(* is waiting for a keyframe.                                               *)

GapMeansWaiting == \A c \in Clients : link[c] = "gap" => waiting[c]

GapInv == TypeOK /\ GapMeansWaiting /\ NoGapWithinConnection

LEMMA DeliverNoGap ==
  ASSUME GapInv, NEW f \in FrameKinds, NEW sets \in SetAges, Deliver(f, sets)
  PROVE  GapMeansWaiting' /\ NoGapWithinConnection'
<1>1. ASSUME NEW c \in Clients PROVE link'[c] = "gap" => waiting'[c]
  BY DEF GapInv, GapMeansWaiting, Deliver, Accepts
<1>2. ASSUME NEW c \in Clients, NEW i \in 1 .. Len(queue'[c])
      PROVE  queue'[c][i].key \/ queue'[c][i].link # "gap"
  <2> DEFINE item == [key |-> f.key, sets |-> sets,
                      link |-> IF f.key THEN "prev" ELSE link[c]]
  <2>1. queue[c] \in Seq(Items)
    BY DEF GapInv, TypeOK
  <2>2. \A j \in 1 .. Len(queue[c]) : queue[c][j].key \/ queue[c][j].link # "gap"
    BY DEF GapInv, NoGapWithinConnection
  <2>3. CASE c \in Subs /\ Accepts(c, f) /\ Fits(c)
    <3>1. queue'[c] = Append(queue[c], item)
      BY <2>3 DEF Deliver
    <3>2. item.key \/ item.link # "gap"
      BY <2>3 DEF GapInv, GapMeansWaiting, Accepts
    <3>3. item \in Items
      BY DEF Items, Links, FrameKinds, GapInv, TypeOK
    <3> HIDE DEF item
    <3>4. \/ i \in 1 .. Len(queue[c]) /\ queue'[c][i] = queue[c][i]
          \/ queue'[c][i] = item
      BY <2>1, <3>1, <3>3, <1>2
    <3> QED BY <2>2, <3>2, <3>4
  <2>4. CASE ~(c \in Subs /\ Accepts(c, f) /\ Fits(c))
    BY <1>2, <2>2, <2>4 DEF Deliver
  <2> QED BY <2>3, <2>4
<1> QED BY <1>1, <1>2 DEF GapMeansWaiting, NoGapWithinConnection

LEMMA StepGap == GapInv /\ [Next]_vars => GapInv'
<1> SUFFICES ASSUME GapInv, [Next]_vars
             PROVE  GapMeansWaiting' /\ NoGapWithinConnection'
  BY StepType DEF GapInv
<1>1. ASSUME UNCHANGED subVars PROVE GapMeansWaiting' /\ NoGapWithinConnection'
  BY <1>1 DEF GapInv, GapMeansWaiting, NoGapWithinConnection, subVars
<1>2. ASSUME NEW c \in Clients, Describe(c) \/ DescribeReply(c) \/ DescribeExpired(c)
      PROVE  UNCHANGED subVars
  BY <1>2 DEF Describe, DescribeReply, DescribeExpired, StopDescribing
<1>3. ASSUME NEW c \in Clients, Subscribe(c)
      PROVE  GapMeansWaiting' /\ NoGapWithinConnection'
  BY <1>3 DEF Subscribe, GapInv, GapMeansWaiting, NoGapWithinConnection, TypeOK
<1>4. ASSUME NEW c \in Clients, Unsubscribe(c)
      PROVE  GapMeansWaiting' /\ NoGapWithinConnection'
  <2>1. GapMeansWaiting'
    BY <1>4 DEF Unsubscribe, GapInv, GapMeansWaiting, TypeOK
  <2>2. \A d \in Clients : queue'[d] = IF d = c THEN <<>> ELSE queue[d]
    BY <1>4 DEF Unsubscribe, GapInv, TypeOK
  <2>3. NoGapWithinConnection'
    BY <2>2 DEF GapInv, NoGapWithinConnection
  <2> QED BY <2>1, <2>3
<1>5. ASSUME NEW c \in Clients, Get(c)
      PROVE  GapMeansWaiting' /\ NoGapWithinConnection'
  <2>1. GapMeansWaiting'
    BY <1>5 DEF Get, GapInv, GapMeansWaiting
  <2>2. queue[c] \in Seq(Items) /\ queue[c] # <<>>
    BY <1>5 DEF Get, GapInv, TypeOK
  <2>3. \A d \in Clients : queue'[d] = IF d = c THEN Tail(queue[c]) ELSE queue[d]
    BY <1>5 DEF Get, GapInv, TypeOK
  <2>4. ASSUME NEW i \in 1 .. Len(Tail(queue[c]))
        PROVE  i + 1 \in 1 .. Len(queue[c]) /\ Tail(queue[c])[i] = queue[c][i + 1]
    BY <2>2
  <2>5. NoGapWithinConnection'
    BY <2>3, <2>4 DEF GapInv, NoGapWithinConnection
  <2> QED BY <2>1, <2>5
<1>6. ASSUME NEW t \in Tasks, Start(t) \/ BackoffEnd(t)
      PROVE  GapMeansWaiting' /\ NoGapWithinConnection'
  <2>1. UNCHANGED <<waiting, queue>>
    BY <1>6 DEF Start, BackoffEnd, LoopHead
  <2>2. \A c \in Clients : link'[c] = "gap" => link[c] = "gap"
    BY <1>6 DEF Start, BackoffEnd, LoopHead, NewConnection, NormalExit
  <2> QED BY <2>1, <2>2 DEF GapInv, GapMeansWaiting, NoGapWithinConnection
<1>7. ASSUME NEW t \in Tasks, NEW f \in Frames, Frame(t, f)
      PROVE  GapMeansWaiting' /\ NoGapWithinConnection'
  <2>1. f \in FrameKinds
    BY FramesAssumption
  <2>2. SetsOf(f, sps', pps') \in SetAges
    BY DEF SetsOf, SetAges
  <2>3. CASE f.nals = {}
    BY <1>1, <1>7, <2>3 DEF Frame, OnFrame
  <2>4. CASE f.nals # {}
    BY <1>7, <2>1, <2>2, <2>4, DeliverNoGap DEF Frame, OnFrame
  <2> QED BY <2>3, <2>4
<1>8. ASSUME NEW t \in Tasks,
             \/ Fail(t) \/ Crash(t) \/ ClosedForGood(t) \/ ClosedAfterFailure(t)
             \/ Cancelled(t)
      PROVE  UNCHANGED subVars
  BY <1>8 DEF Fail, Crash, ClosedForGood, ClosedAfterFailure, Cancelled
<1>9. CASE StopBegin \/ StopEnd \/ Tick \/ UNCHANGED vars
  BY <1>1, <1>9 DEF StopBegin, StopEnd, Tick, vars
<1> QED BY <1>1, <1>2, <1>3, <1>4, <1>5, <1>6, <1>7, <1>8, <1>9
     DEF Next, ClientStep, TaskStep, Work

\* Whatever joins, drops, overflows and reconnects happen, within a connection
\* the frame after a gap is a keyframe.
THEOREM NoGapHolds == Spec => []NoGapWithinConnection
<1>1. Init => GapInv
  BY InitType DEF Init, GapInv, GapMeansWaiting, NoGapWithinConnection
<1>2. GapInv /\ [Next]_vars => GapInv'
  BY StepGap
<1>3. GapInv => NoGapWithinConnection
  BY DEF GapInv
<1> QED BY <1>1, <1>2, <1>3, PTL DEF Spec

-----------------------------------------------------------------------------
(* A watched stream.                                                        *)

LEMMA StepKeepsViewer == OneConnectionInv /\ [Next]_vars => KeepsViewer
<1> SUFFICES ASSUME OneConnectionInv, [Next]_vars,
                    hub' = "up", Running, pc[handle] \in Staying, Subs # {}
             PROVE  handle' = handle /\ pc'[handle] \in Staying \cup {"closing_crash"}
  BY DEF KeepsViewer
<1>1. ~IdleExpired
  BY DEF IdleExpired
<1>2. handle \in Tasks /\ \A t \in Tasks : Alive(t) => t = handle
  BY DEF OneConnectionInv, OneConnection, Running, TypeOK
<1>3. CASE UNCHANGED <<handle, pc>>
  BY <1>3
<1>4. ASSUME NEW c \in Clients, ClientStep(c) PROVE UNCHANGED <<handle, pc>>
  BY <1>4 DEF ClientStep, Describe, DescribeReply, DescribeExpired, StopDescribing,
     Subscribe, Unsubscribe, Get, Touch, EnsureRunning, taskVars
<1>5. ASSUME NEW t \in Tasks, TaskStep(t)
      PROVE  handle' = handle /\ pc'[handle] \in Staying \cup {"closing_crash"}
  <2>1. CASE Start(t) \/ BackoffEnd(t)
    <3>1. t = handle
      BY <1>2, <2>1 DEF Start, BackoffEnd, Alive, Dead
    <3>2. \E b : NewConnection(t, b)
      BY <1>1, <2>1 DEF Start, BackoffEnd, LoopHead
    <3> QED BY <3>1, <3>2 DEF NewConnection, Staying, OneConnectionInv, TypeOK
  <2>2. CASE \E f \in Frames : Frame(t, f)
    <3>1. handle' = handle /\ pc' = [pc EXCEPT ![t] = pc[t]]
      BY <1>1, <2>2 DEF Frame
    <3> QED BY <3>1, <1>2 DEF OneConnectionInv, TypeOK
  <2>3. CASE Fail(t) \/ Crash(t)
    <3>1. t = handle
      BY <1>2, <2>3 DEF Fail, Crash, Alive, Dead
    <3> QED BY <2>3, <3>1 DEF Fail, Crash, Staying, OneConnectionInv, TypeOK
  <2>4. CASE ClosedForGood(t)
    BY <1>2, <2>4 DEF ClosedForGood, Closing, Alive, Dead, Staying
  <2>5. CASE ClosedAfterFailure(t)
    <3>1. t = handle
      BY <1>2, <2>5 DEF ClosedAfterFailure, Alive, Dead
    <3> QED BY <1>1, <2>5, <3>1 DEF ClosedAfterFailure, Staying, OneConnectionInv, TypeOK
  <2>6. CASE Cancelled(t)
    BY <2>6, TasksAssumption DEF Cancelled, hubVars, OneConnectionInv, StopKeepsHandle
  <2> QED BY <1>5, <2>1, <2>2, <2>3, <2>4, <2>5, <2>6 DEF TaskStep, Work
<1>6. CASE StopBegin \/ StopEnd
  BY <1>6 DEF StopBegin, StopEnd
<1>7. CASE Tick \/ UNCHANGED vars
  BY <1>3, <1>7 DEF Tick, vars, taskVars
<1> QED BY <1>3, <1>4, <1>5, <1>6, <1>7 DEF Next

\* As long as somebody watches, nothing but a crash of the driver or stop()
\* ends a supervisor that had not already decided to give up.
THEOREM ViewerKept ==
  ASSUME Quiesced
  PROVE  Spec => ViewerKeepsStream
<1>1. Init => OneConnectionInv
  BY InitOneConnection
<1>2. OneConnectionInv /\ [Next]_vars => OneConnectionInv'
  BY StepOneConnection
<1>3. OneConnectionInv /\ [Next]_vars => [KeepsViewer]_vars
  BY StepKeepsViewer
<1> QED BY <1>1, <1>2, <1>3, PTL DEF Spec, ViewerKeepsStream

-----------------------------------------------------------------------------
(* What an always-on stream promises beyond that: it is never without a      *)
(* supervisor, and neither advertises nor sends the parameter sets of an     *)
(* earlier connection.  On demand both can fail (runs stream_stranded and    *)
(* stream_stale_sets), and so can they when the driver raises what _run does *)
(* not catch.                                                                *)

AlwaysOnServed == AlwaysOn /\ ~DriverMayCrash /\ Quiesced

\* A supervisor ends only when stop() ends it ...
Kept == \A t \in Tasks : /\ pc[t] \notin {"closing_idle", "closing_crash"}
                         /\ pc[t] = "closing_cancel" => hub # "up"
Served == hub = "up" => Running

\* ... and drops the parameter sets before it connects again.
Current == /\ sps # "earlier" /\ pps # "earlier"
           /\ \A t \in Tasks : pc[t] \in {"created", "backoff"} => sps = "none" /\ pps = "none"

AlwaysOnInv == /\ OneConnectionInv /\ ReadyBacked
               /\ Kept /\ Served /\ Current /\ NoStaleSets

-----------------------------------------------------------------------------
LEMMA InitAlwaysOn ==
  ASSUME AlwaysOnServed
  PROVE  Init => AlwaysOnInv
<1> SUFFICES ASSUME Init PROVE Kept /\ Served /\ Current /\ NoStaleSets /\ ReadyBacked
  BY InitOneConnection DEF AlwaysOnInv
<1>1. \E t \in Tasks : handle = t /\ pc = [u \in Tasks |-> IF u = t THEN "created" ELSE "done"]
  BY DEF Init, AlwaysOnServed
<1>2. Served
  BY <1>1, TasksAssumption DEF Served, Running, Alive, Dead
<1>3. Kept
  BY <1>1 DEF Kept
<1> QED BY <1>2, <1>3 DEF Init, Current, NoStaleSets, ReadyBacked

\* While the hub serves, a touch finds the supervisor there.
LEMMA TouchChangesNothing ==
  ASSUME AlwaysOnServed, AlwaysOnInv, ServerUp, EnsureRunning
  PROVE  UNCHANGED <<handle, pc>>
BY DEF AlwaysOnServed, AlwaysOnInv, Served, ServerUp, EnsureRunning

LEMMA SamePc ==
  ASSUME AlwaysOnInv, UNCHANGED <<handle, pc, sps, pps, hub>>
  PROVE  Kept' /\ Served' /\ Current'
BY DEF AlwaysOnInv, Kept, Served, Current, Running, Alive

LEMMA SameQueues ==
  ASSUME NoStaleSets, UNCHANGED queue
  PROVE  NoStaleSets'
BY DEF NoStaleSets

\* The one live supervisor moves on: the others are dead.
LEMMA AliveMoves ==
  ASSUME AlwaysOnInv, NEW t \in Tasks, Alive(t), NEW q \in PCs,
         pc' = [pc EXCEPT ![t] = q], UNCHANGED <<handle, hub>>,
         q \notin {"closing_idle", "closing_crash"},
         q \in Dead \cup {"closing_cancel"} => hub # "up"
  PROVE  /\ Kept' /\ Served'
         /\ \A u \in Tasks : pc'[u] \in {"created", "backoff"} => u = t /\ q = pc'[u]
<1>1. t = handle /\ \A u \in Tasks : u # t => pc'[u] = pc[u] /\ pc[u] \in Dead
  BY DEF AlwaysOnInv, OneConnectionInv, OneConnection, TypeOK, Alive
<1>2. pc'[t] = q
  BY DEF AlwaysOnInv, OneConnectionInv, TypeOK
<1>3. Kept'
  BY <1>1, <1>2 DEF AlwaysOnInv, Kept
<1>4. Served'
  BY <1>1, <1>2, TasksAssumption DEF Served, Running, Alive
<1> QED BY <1>1, <1>2, <1>3, <1>4 DEF Dead

LEMMA FrameKeepsSets ==
  ASSUME AlwaysOnInv, NEW t \in Tasks, NEW f \in Frames, Frame(t, f)
  PROVE  sps' # "earlier" /\ pps' # "earlier" /\ NoStaleSets'
<1>1. sps' # "earlier" /\ pps' # "earlier"
  BY DEF AlwaysOnInv, Current, Frame, OnFrame
<1>2. SetsOf(f, sps', pps') \in {"none", "this"}
  <2>1. sps' \in {"none", "this"} /\ pps' \in {"none", "this"}
    BY <1>1 DEF AlwaysOnInv, OneConnectionInv, TypeOK, SetAges, Frame, OnFrame
  <2> QED BY <2>1 DEF SetsOf
<1>3. CASE f.nals = {}
  BY <1>1, <1>3, SameQueues DEF AlwaysOnInv, Frame, OnFrame, subVars
<1>4. CASE f.nals # {}
  <2> DEFINE sets == SetsOf(f, sps', pps')
  <2>1. Deliver(f, sets) /\ sets # "earlier"
    BY <1>2, <1>4 DEF Frame, OnFrame
  <2> HIDE DEF sets
  <2> SUFFICES ASSUME NEW c \in Clients, NEW i \in 1 .. Len(queue'[c])
               PROVE  queue'[c][i].sets # "earlier"
    BY <1>1 DEF NoStaleSets
  <2>2. queue[c] \in Seq(Items)
    BY DEF AlwaysOnInv, OneConnectionInv, TypeOK
  <2>3. \A j \in 1 .. Len(queue[c]) : queue[c][j].sets # "earlier"
    BY DEF AlwaysOnInv, NoStaleSets
  <2> DEFINE item == [key |-> f.key, sets |-> sets,
                      link |-> IF f.key THEN "prev" ELSE link[c]]
  <2>4. item.sets # "earlier"
    BY <2>1
  <2> HIDE DEF item
  <2>5. queue'[c] = Append(queue[c], item) \/ queue'[c] = queue[c]
    BY <2>1 DEF Deliver, item
  <2> QED BY <2>2, <2>3, <2>4, <2>5
<1> QED BY <1>3, <1>4, <1>1

LEMMA StepAlwaysOn ==
  ASSUME AlwaysOnServed
  PROVE  AlwaysOnInv /\ [Next]_vars => AlwaysOnInv'
<1> SUFFICES ASSUME AlwaysOnInv, [Next]_vars
             PROVE  Kept' /\ Served' /\ Current' /\ NoStaleSets'
  <2>1. AlwaysOnInv => TypeOK /\ OneConnectionInv /\ ReadyBacked
    BY DEF AlwaysOnInv, OneConnectionInv
  <2>2. Quiesced
    BY DEF AlwaysOnServed
  <2> QED BY <2>1, <2>2, StepOneConnection, StepReadyBacked DEF AlwaysOnInv
<1>1. ~IdleExpired
  BY DEF IdleExpired, AlwaysOnServed
<1>2. ASSUME NEW c \in Clients, Describe(c) \/ Subscribe(c)
      PROVE  Kept' /\ Served' /\ Current' /\ NoStaleSets'
  <2>1. ServerUp /\ EnsureRunning /\ UNCHANGED <<sps, pps, hub, queue>>
    BY <1>2 DEF Describe, Subscribe, Touch, setVars, hubVars, subVars
  <2> QED BY <2>1, TouchChangesNothing, SamePc, SameQueues DEF AlwaysOnInv
<1>3. ASSUME NEW c \in Clients, DescribeReply(c) \/ DescribeExpired(c)
      PROVE  Kept' /\ Served' /\ Current' /\ NoStaleSets'
  BY <1>3, SamePc, SameQueues DEF DescribeReply, DescribeExpired, StopDescribing, taskVars,
     setVars, hubVars, subVars, AlwaysOnInv
<1>4. ASSUME NEW c \in Clients, Unsubscribe(c) \/ Get(c)
      PROVE  Kept' /\ Served' /\ Current' /\ NoStaleSets'
  <2>1. Kept' /\ Served' /\ Current'
    BY <1>4, SamePc DEF Unsubscribe, Get, taskVars, setVars, hubVars
  <2>2. \A d \in Clients : \/ queue'[d] = queue[d]
                           \/ queue'[d] = <<>>
                           \/ queue[d] # <<>> /\ queue'[d] = Tail(queue[d])
    BY <1>4 DEF Unsubscribe, Get, AlwaysOnInv, OneConnectionInv, TypeOK
  <2>3. \A d \in Clients : queue[d] \in Seq(Items)
    BY DEF AlwaysOnInv, OneConnectionInv, TypeOK
  <2>4. ASSUME NEW d \in Clients, queue[d] # <<>>, NEW i \in 1 .. Len(Tail(queue[d]))
        PROVE  i + 1 \in 1 .. Len(queue[d]) /\ Tail(queue[d])[i] = queue[d][i + 1]
    BY <2>3, <2>4
  <2>5. ASSUME NEW d \in Clients, NEW i \in 1 .. Len(queue'[d])
        PROVE  queue'[d][i].sets # "earlier"
    <3>1. \A j \in 1 .. Len(queue[d]) : queue[d][j].sets # "earlier"
      BY DEF AlwaysOnInv, NoStaleSets
    <3>2. CASE queue'[d] = queue[d]
      BY <2>5, <3>1, <3>2
    <3>3. CASE queue'[d] = <<>>
      BY <2>5, <3>3
    <3>4. CASE queue[d] # <<>> /\ queue'[d] = Tail(queue[d])
      BY <2>4, <2>5, <3>1, <3>4
    <3> QED BY <2>2, <3>2, <3>3, <3>4
  <2> QED BY <2>1, <2>5 DEF NoStaleSets
<1>5. ASSUME NEW t \in Tasks, Start(t) \/ BackoffEnd(t)
      PROVE  Kept' /\ Served' /\ Current' /\ NoStaleSets'
  <2>1. /\ pc' = [pc EXCEPT ![t] = "reading"] /\ UNCHANGED <<handle, hub, queue>>
        /\ sps' = Aged(sps) /\ pps' = Aged(pps)
        /\ pc[t] \in {"created", "backoff"}
    BY <1>1, <1>5 DEF Start, BackoffEnd, LoopHead, NewConnection, hubVars
  <2>2. Alive(t) /\ "reading" \in PCs
    BY <2>1 DEF Alive, Dead, PCs, Connected
  <2>3. Kept' /\ Served' /\ \A u \in Tasks : pc'[u] \notin {"created", "backoff"}
    BY <2>1, <2>2, AliveMoves DEF Dead
  <2>4. sps' = "none" /\ pps' = "none"
    BY <2>1 DEF Aged, AlwaysOnInv, Current
  <2> QED BY <2>1, <2>3, <2>4, SameQueues DEF Current, AlwaysOnInv
<1>6. ASSUME NEW t \in Tasks, NEW f \in Frames, Frame(t, f)
      PROVE  Kept' /\ Served' /\ Current' /\ NoStaleSets'
  <2>1. pc' = [pc EXCEPT ![t] = "reading"] /\ pc[t] = "reading" /\ UNCHANGED <<handle, hub>>
    BY <1>1, <1>6 DEF Frame, hubVars
  <2>2. Alive(t) /\ "reading" \in PCs
    BY <2>1 DEF Alive, Dead, PCs, Connected
  <2>3. Kept' /\ Served' /\ \A u \in Tasks : pc'[u] \notin {"created", "backoff"}
    BY <2>1, <2>2, AliveMoves DEF Dead
  <2> QED BY <1>6, <2>3, FrameKeepsSets DEF Current
<1>7. ASSUME NEW t \in Tasks, Fail(t) \/ ClosedAfterFailure(t)
      PROVE  Kept' /\ Served' /\ Current' /\ NoStaleSets'
  <2>1. PICK q \in {"closing_failed", "backoff"} :
          /\ pc' = [pc EXCEPT ![t] = q] /\ UNCHANGED <<handle, hub, queue>>
          /\ q = "closing_failed" => UNCHANGED <<sps, pps>>
          /\ q = "backoff" => sps' = "none" /\ pps' = "none"
    BY <1>1, <1>7 DEF Fail, ClosedAfterFailure, DropSets, setVars, hubVars, subVars
  <2>2. Alive(t) /\ q \in PCs
    BY <1>7 DEF Fail, ClosedAfterFailure, Alive, Dead, PCs, Connected, Closing
  <2>3. Kept' /\ Served' /\ \A u \in Tasks : pc'[u] \in {"created", "backoff"} => q = "backoff"
    BY <2>1, <2>2, AliveMoves DEF Dead
  <2> QED BY <2>1, <2>3, SameQueues DEF Current, AlwaysOnInv
<1>8. ASSUME NEW t \in Tasks, ClosedForGood(t) \/ Cancelled(t)
      PROVE  Kept' /\ Served' /\ Current' /\ NoStaleSets'
  <2>1. hub # "up"
    BY <1>8, TasksAssumption DEF ClosedForGood, Closing, Cancelled, AlwaysOnInv, Kept,
       OneConnectionInv, StopKeepsHandle
  <2>2. PICK q \in Dead \cup {"closing_cancel"} :
          pc' = [pc EXCEPT ![t] = q] /\ q # "closing_crash"
    BY <1>8 DEF ClosedForGood, Cancelled, Finish, Dead
  <2>3. Alive(t) /\ q \in PCs
    BY <1>8, <2>2 DEF ClosedForGood, Cancelled, Alive, Dead, PCs, Connected, Closing
  <2>4. UNCHANGED <<handle, hub, queue, sps, pps>>
    BY <1>8 DEF ClosedForGood, Cancelled, setVars, hubVars, subVars
  <2>5. Kept' /\ Served' /\ \A u \in Tasks : pc'[u] \notin {"created", "backoff"}
    BY <2>1, <2>2, <2>3, <2>4, AliveMoves DEF Dead
  <2> QED BY <2>4, <2>5, SameQueues DEF Current, AlwaysOnInv
<1>9. CASE StopBegin \/ StopEnd
  <2>1. hub' # "up" /\ UNCHANGED <<pc, sps, pps, queue>>
    BY <1>9 DEF StopBegin, StopEnd, setVars, subVars
  <2> QED BY <2>1, SameQueues DEF Kept, Served, Current, AlwaysOnInv
<1>10. CASE Tick \/ UNCHANGED vars
  BY <1>10, SamePc, SameQueues DEF Tick, vars, taskVars, setVars, hubVars, subVars,
     AlwaysOnInv
<1>11. ASSUME NEW t \in Tasks, Crash(t) PROVE FALSE
  BY <1>11 DEF Crash, AlwaysOnServed
<1> QED BY <1>2, <1>3, <1>4, <1>5, <1>6, <1>7, <1>8, <1>9, <1>10, <1>11
     DEF Next, ClientStep, TaskStep, Work

-----------------------------------------------------------------------------
\* What DESCRIBE would advertise came over the running connection.
THEOREM AlwaysOnReadyCurrent ==
  ASSUME AlwaysOnServed
  PROVE  Spec => []ReadyMeansCurrent
<1>1. AlwaysOnInv => ReadyMeansCurrent
  BY DEF AlwaysOnInv, ReadyBacked, Current, ReadyMeansCurrent, OneConnectionInv, TypeOK,
     SetAges
<1> QED BY <1>1, InitAlwaysOn, StepAlwaysOn, PTL DEF Spec

\* No access unit is sent behind the parameter sets of an earlier connection.
THEOREM AlwaysOnNoStaleSets ==
  ASSUME AlwaysOnServed
  PROVE  Spec => []NoStaleSets
<1>1. AlwaysOnInv => NoStaleSets
  BY DEF AlwaysOnInv
<1> QED BY <1>1, InitAlwaysOn, StepAlwaysOn, PTL DEF Spec

\* While the hub serves, a subscriber has a supervisor to feed its queue.
THEOREM AlwaysOnNoStranded ==
  ASSUME AlwaysOnServed
  PROVE  Spec => []NoStranded
<1>1. AlwaysOnInv => NoStranded
  BY DEF AlwaysOnInv, Served, NoStranded
<1> QED BY <1>1, InitAlwaysOn, StepAlwaysOn, PTL DEF Spec
=============================================================================
