-------------------------- MODULE StreamRefinement --------------------------
(***************************************************************************)
(* Stream implements DeviceSlot, and a DESCRIBE that waits is not idled    *)
(* out, for every set of clients and tasks and every bound.                *)
(***************************************************************************)
EXTENDS StreamProofs

-----------------------------------------------------------------------------
(* Waiting DESCRIBEs.  What is idle and what is left to wait add up to no    *)
(* more than the timeout: a tick moves one as much as the other, and no tick *)
(* passes once nothing is left.                                              *)

Waits(c) == client[c] \in {"describing", "woken"}
WaitBounded == \A c \in Clients : Waits(c) => idle + timer[c] <= DescribeTimeout

LEMMA StepWaitBounded == TypeOK /\ WaitBounded /\ [Next]_vars => WaitBounded'
<1> SUFFICES ASSUME TypeOK, WaitBounded, [Next]_vars, NEW d \in Clients, Waits(d)'
             PROVE  idle' + timer'[d] <= DescribeTimeout
  BY DEF WaitBounded
<1> USE BoundsAssumption
<1>1. timer[d] \in 0 .. DescribeTimeout /\ idle \in Nat
  BY DEF TypeOK
<1>2. Waits(d) => idle + timer[d] <= DescribeTimeout
  BY DEF WaitBounded
<1>3. ASSUME Waits(d), UNCHANGED <<idle, timer>>
      PROVE  idle' + timer'[d] <= DescribeTimeout
  BY <1>2, <1>3
<1>4. ASSUME NEW c \in Clients, Describe(c)
      PROVE  idle' + timer'[d] <= DescribeTimeout
  <2>1. idle' = 0 /\ timer'[d] \in 0 .. DescribeTimeout
    BY <1>1, <1>4 DEF Describe, Touch, TypeOK
  <2> QED BY <2>1
<1>5. ASSUME NEW c \in Clients, Subscribe(c) \/ Unsubscribe(c)
      PROVE  idle' + timer'[d] <= DescribeTimeout
  BY <1>1, <1>5 DEF Subscribe, Unsubscribe, Touch
<1>6. ASSUME NEW c \in Clients, DescribeReply(c) \/ DescribeExpired(c)
      PROVE  idle' + timer'[d] <= DescribeTimeout
  <2>1. d # c /\ Waits(d) /\ idle' = idle /\ timer'[d] = timer[d]
    BY <1>6 DEF DescribeReply, DescribeExpired, StopDescribing, TypeOK, Waits
  <2> QED BY <1>2, <2>1
<1>7. ASSUME NEW c \in Clients, Get(c)
      PROVE  idle' + timer'[d] <= DescribeTimeout
  BY <1>3, <1>7 DEF Get, Waits
<1>8. ASSUME NEW t \in Tasks, NEW f \in Frames, Frame(t, f)
      PROVE  idle' + timer'[d] <= DescribeTimeout
  BY <1>3, <1>8 DEF Frame, OnFrame, Waits
<1>9. ASSUME NEW t \in Tasks,
             \/ Start(t) \/ BackoffEnd(t) \/ Fail(t) \/ Crash(t) \/ ClosedForGood(t)
             \/ ClosedAfterFailure(t) \/ Cancelled(t)
      PROVE  idle' + timer'[d] <= DescribeTimeout
  <2>1. UNCHANGED <<client, idle, timer>>
    BY <1>9 DEF Start, BackoffEnd, LoopHead, Fail, Crash, ClosedForGood,
       ClosedAfterFailure, Cancelled
  <2> QED BY <1>3, <2>1 DEF Waits
<1>10. CASE StopBegin \/ StopEnd \/ UNCHANGED vars
  BY <1>3, <1>10 DEF StopBegin, StopEnd, vars, Waits
<1>11. CASE Tick
  <2>1. Waits(d) /\ timer[d] # 0
    BY <1>11 DEF Tick, Due, Waits
  <2>2. timer'[d] = timer[d] - 1 /\ idle' <= idle + 1 /\ idle' \in Nat
    BY <1>1, <1>11, <2>1 DEF Tick, Down, UpTo, TypeOK
  <2> QED BY <1>1, <1>2, <2>1, <2>2
<1> QED BY <1>4, <1>5, <1>6, <1>7, <1>8, <1>9, <1>10, <1>11
     DEF Next, ClientStep, TaskStep, Work

\* hub.py 135-140: as long as describe_timeout is at most linger, a stream is
\* never idled out under a DESCRIBE that waits for it.
THEOREM DescribeKeepsStream == Spec => []NotIdledWhileDescribing
<1>1. Init => TypeOK /\ WaitBounded
  BY InitType DEF Init, WaitBounded, Waits
<1>2. TypeOK /\ WaitBounded /\ [Next]_vars => (TypeOK /\ WaitBounded)'
  BY StepType, StepWaitBounded
<1>3. TypeOK /\ WaitBounded => NotIdledWhileDescribing
  <2> SUFFICES ASSUME TypeOK, WaitBounded, NEW c \in Clients, Waits(c),
                      DescribeTimeout <= Linger
               PROVE  ~IdleExpired
    BY DEF NotIdledWhileDescribing, Waits
  <2>1. idle \in Nat /\ timer[c] \in Nat /\ idle + timer[c] <= DescribeTimeout
    BY BoundsAssumption DEF TypeOK, WaitBounded
  <2> QED BY <2>1, BoundsAssumption DEF IdleExpired
<1> QED BY <1>1, <1>2, <1>3, PTL DEF Spec

-----------------------------------------------------------------------------
(* The refinement.  The steps of Stream map to those of DeviceSlot where the *)
(* one live supervisor is the handle's and none is left once the hub has     *)
(* stopped.                                                                  *)

StoppedEmpty == hub = "stopped" => ~Running
SlotInv == OneConnectionInv /\ StoppedEmpty

LEMMA StepStopped ==
  ASSUME Quiesced
  PROVE  SlotInv /\ [Next]_vars => StoppedEmpty'
<1> SUFFICES ASSUME SlotInv, [Next]_vars, hub' = "stopped" PROVE ~Running'
  BY DEF StoppedEmpty
<1>1. TypeOK /\ \A t \in Tasks : Alive(t) => t = handle /\ hub # "stopped"
  BY TasksAssumption DEF SlotInv, StoppedEmpty, Running, OneConnectionInv, OneConnection
<1>2. CASE hub = "stopped" /\ UNCHANGED <<handle, pc>>
  BY <1>2 DEF SlotInv, StoppedEmpty, Running, Alive
<1>3. ASSUME NEW c \in Clients, ClientStep(c) PROVE ~Running'
  <2>1. hub = "stopped"
    BY <1>3 DEF ClientStep, Describe, DescribeReply, DescribeExpired, StopDescribing,
       Subscribe, Unsubscribe, Get, hubVars
  <2>2. UNCHANGED <<handle, pc>>
    BY <1>3, <2>1 DEF ClientStep, Describe, DescribeReply, DescribeExpired, StopDescribing,
       Subscribe, Unsubscribe, Get, ServerUp, taskVars
  <2> QED BY <1>2, <2>1, <2>2
<1>4. ASSUME NEW t \in Tasks, TaskStep(t) PROVE FALSE
  <2>1. Alive(t)
    BY <1>4 DEF TaskStep, Work, Start, Frame, Fail, Crash, ClosedForGood,
       ClosedAfterFailure, BackoffEnd, Cancelled, Alive, Dead, Closing
  <2>2. hub = "stopped"
    BY <1>4 DEF TaskStep, Work, Start, LoopHead, Frame, Fail, Crash, ClosedForGood,
       ClosedAfterFailure, BackoffEnd, Cancelled, hubVars
  <2> QED BY <1>1, <2>1, <2>2
<1>5. CASE StopBegin
  <2>1. ~Running /\ UNCHANGED pc /\ (handle' = handle \/ handle' = NoTask)
    BY <1>5 DEF StopBegin
  <2> QED BY <2>1 DEF Running, Alive
<1>6. CASE StopEnd
  BY <1>6 DEF StopEnd, Running
<1>7. CASE Tick \/ UNCHANGED vars
  BY <1>2, <1>7 DEF Tick, vars, taskVars, hubVars
<1> QED BY <1>3, <1>4, <1>5, <1>6, <1>7 DEF Next

LEMMA StepSlotInv ==
  ASSUME Quiesced
  PROVE  SlotInv /\ [Next]_vars => SlotInv'
BY StepOneConnection, StepStopped DEF SlotInv

Slots == [t \in Tasks |-> SlotOf(t)]

\* A step of one task moves its slot and no other.
LEMMA SlotMoves ==
  ASSUME NEW t \in Tasks, \A u \in Tasks : u # t => pc'[u] = pc[u]
  PROVE  Slots' = [Slots EXCEPT ![t] = SlotOf(t)']
BY DEF Slots, SlotOf

\* No slot moves but to stay what it is.
LEMMA SlotStays ==
  ASSUME \A t \in Tasks : SlotOf(t)' = SlotOf(t)
  PROVE  Slots' = Slots
BY DEF Slots

LEMMA SlotFree ==
  ASSUME NEW t \in Tasks, pc[t] \in Dead \cup {"created", "backoff"}
  PROVE  SlotOf(t) = "free"
BY DEF SlotOf, Dead

\* A live supervisor: the handle's, on a hub that has not stopped, and all the
\* other slots are free.
LEMMA LiveTask ==
  ASSUME SlotInv, NEW t \in Tasks, Alive(t)
  PROVE  /\ t = handle /\ hub # "stopped"
         /\ MayRun(t) => hub = "up"
         /\ \A u \in Tasks : u # t => ~Alive(u) /\ SlotOf(u) = "free"
<1>1. t = handle /\ \A u \in Tasks : u # t => ~Alive(u)
  BY DEF SlotInv, OneConnectionInv, OneConnection
<1>2. hub # "stopped"
  BY <1>1, TasksAssumption DEF SlotInv, StoppedEmpty, Running
<1>3. MayRun(t) => hub = "up"
  BY <1>1, <1>2 DEF SlotInv, OneConnectionInv, StopKeepsHandle, TypeOK, MayRun
<1> QED BY <1>1, <1>2, <1>3, SlotFree DEF Alive

-----------------------------------------------------------------------------
(* One lemma per kind of step.                                               *)

\* What else DeviceSlot sees of the stream.
Seen == <<Subs, idle <= Linger, hub>>

LEMMA WantedDef == TypeOK => (Device!Wanted <=> ~IdleExpired)
BY BoundsAssumption DEF TypeOK, Device!Wanted, IdleExpired

\* A step of task t alone, to slot q, is a step of DeviceSlot to q.
LEMMA TaskSlot ==
  ASSUME NEW t \in Tasks, NEW q, \A u \in Tasks : u # t => pc'[u] = pc[u],
         SlotOf(t)' = q, UNCHANGED Seen
  PROVE  Device!Become(t, q)
<1>1. Slots' = [Slots EXCEPT ![t] = q]
  BY SlotMoves
<1> QED BY <1>1 DEF Device!Become, Slots, Seen

\* A step that moves no slot and nothing else DeviceSlot sees.
LEMMA SlotStutter ==
  ASSUME \A t \in Tasks : SlotOf(t)' = SlotOf(t), UNCHANGED Seen
  PROVE  UNCHANGED Device!slotVars
<1>1. Slots' = Slots
  BY SlotStays
<1> QED BY <1>1 DEF Device!slotVars, Slots, Seen

\* create_task makes a task that holds nothing yet.
LEMMA SpawnSlot ==
  ASSUME NEW pcs \in [Tasks -> PCs], Spawn(pcs), NEW t \in Tasks
  PROVE  pc'[t] = pcs[t] \/ (pcs[t] \in Dead /\ pc'[t] = "created")
BY DEF Spawn

LEMMA EnsureRunningSlot ==
  ASSUME TypeOK, EnsureRunning
  PROVE  Slots' = Slots
<1> SUFFICES ASSUME NEW t \in Tasks PROVE SlotOf(t)' = SlotOf(t)
  BY SlotStays
<1>1. CASE pc'[t] = pc[t]
  BY <1>1 DEF SlotOf
<1>2. CASE pc[t] \in Dead /\ pc'[t] = "created"
  BY <1>2 DEF SlotOf, Dead
<1> QED BY <1>1, <1>2, SpawnSlot DEF EnsureRunning, TypeOK

\* Subs is what client says, whatever it says of those who do not play.
LEMMA SameSubs ==
  ASSUME \A c \in Clients : client'[c] = "playing" <=> client[c] = "playing"
  PROVE  Subs' = Subs
BY DEF Subs

LEMMA ClientSlot ==
  ASSUME TypeOK, NEW c \in Clients, ClientStep(c)
  PROVE  Device!SlotNext \/ UNCHANGED Device!slotVars
<1> USE BoundsAssumption
<1>1. Slots' = Slots /\ UNCHANGED hub
  <2>1. CASE EnsureRunning
    BY <2>1, EnsureRunningSlot DEF ClientStep, Describe, DescribeReply,
       DescribeExpired, StopDescribing, Subscribe, Unsubscribe, Get, hubVars
  <2>2. CASE UNCHANGED pc
    BY <2>2, SlotStays DEF ClientStep, Describe, DescribeReply,
       DescribeExpired, StopDescribing, Subscribe, Unsubscribe, Get, hubVars, SlotOf
  <2> QED BY <2>1, <2>2 DEF ClientStep, Describe, DescribeReply,
       DescribeExpired, StopDescribing, Subscribe, Unsubscribe, Get, Touch, taskVars
<1>2. CASE Describe(c)
  <2>1. Subs' = Subs /\ idle' = 0
    BY <1>2, SameSubs DEF Describe, Touch, TypeOK
  <2>2. Device!Ask
    BY <1>1, <2>1 DEF Device!Ask, Slots
  <2> QED BY <2>2 DEF Device!SlotNext
<1>3. CASE Subscribe(c)
  <2>1. Subs' = Subs \cup {c} /\ idle' = 0
    BY <1>3 DEF Subscribe, Touch, Subs, TypeOK
  <2>2. Device!Join(c)
    BY <1>1, <2>1 DEF Device!Join, Slots
  <2> QED BY <2>2 DEF Device!SlotNext
<1>4. CASE Unsubscribe(c)
  <2>1. Subs' = Subs \ {c} /\ idle' = 0
    BY <1>4 DEF Unsubscribe, Subs, TypeOK
  <2>2. Device!Leave(c)
    BY <1>1, <2>1 DEF Device!Leave, Slots
  <2> QED BY <2>2 DEF Device!SlotNext
<1>5. CASE DescribeReply(c) \/ DescribeExpired(c) \/ Get(c)
  <2>1. Subs' = Subs /\ UNCHANGED idle
    BY <1>5, SameSubs DEF DescribeReply, DescribeExpired, StopDescribing, Get, TypeOK
  <2> QED BY <1>1, <2>1 DEF Device!slotVars, Slots
<1> QED BY <1>2, <1>3, <1>4, <1>5 DEF ClientStep

\* Every step of a supervisor leaves alone what the others hold and, but for the
\* clients a frame wakes, what DeviceSlot sees of the RTSP side.
LEMMA TaskSees ==
  ASSUME TypeOK, NEW t \in Tasks, TaskStep(t)
  PROVE  UNCHANGED Seen
<1>1. UNCHANGED <<idle, hub>>
  BY DEF TaskStep, Work, Start, BackoffEnd, LoopHead, Frame, Fail, Crash, ClosedForGood,
     ClosedAfterFailure, Cancelled, hubVars
<1>2. \A c \in Clients : client'[c] = "playing" <=> client[c] = "playing"
  <2>1. CASE \E f \in Frames : Frame(t, f)
    BY <2>1 DEF Frame, OnFrame
  <2>2. CASE UNCHANGED client
    BY <2>2
  <2> QED BY <2>1, <2>2 DEF TaskStep, Work, Start, BackoffEnd, LoopHead, Fail, Crash,
       ClosedForGood, ClosedAfterFailure, Cancelled
<1> QED BY <1>1, <1>2, SameSubs DEF Seen

\* The head of the loop: connect, when the stream is wanted, or exit.
LEMMA LoopHeadSlot ==
  ASSUME SlotInv, NEW t \in Tasks, pc[t] \in {"created", "backoff"}, MayRun(t), NEW b,
         LoopHead(t, b), UNCHANGED Seen
  PROVE  Device!SlotNext \/ UNCHANGED Device!slotVars
<1>1. TypeOK /\ Alive(t) /\ SlotOf(t) = "free"
  BY SlotFree DEF SlotInv, OneConnectionInv, Alive, Dead
<1>2. hub = "up" /\ \A u \in Tasks : SlotOf(u) = "free"
  BY <1>1, LiveTask
<1>3. CASE ~IdleExpired
  <2>1. pc' = [pc EXCEPT ![t] = "reading"]
    BY <1>3 DEF LoopHead, NewConnection
  <2>2. SlotOf(t)' = "held" /\ \A u \in Tasks : u # t => pc'[u] = pc[u]
    BY <1>1, <2>1 DEF SlotOf, TypeOK
  <2>3. Device!Become(t, "held")
    BY <2>2, TaskSlot
  <2>4. Device!Connect(t)
    BY <1>1, <1>2, <1>3, <2>3, WantedDef DEF Device!Connect
  <2> QED BY <2>4 DEF Device!SlotNext
<1>4. CASE IdleExpired
  <2> DEFINE pcs == [pc EXCEPT ![t] = "done"]
  <2>1. pcs \in [Tasks -> PCs]
    BY <1>1, PcType DEF PCs, Dead
  <2>2. ASSUME NEW u \in Tasks PROVE SlotOf(u)' = SlotOf(u)
    <3>1. pc'[u] = pcs[u] \/ (pcs[u] \in Dead /\ pc'[u] = "created")
      <4>1. CASE Spawn(pcs)
        <5> HIDE DEF pcs
        <5> QED BY <2>1, <4>1, SpawnSlot
      <4>2. CASE pc' = pcs
        BY <4>2
      <4> QED BY <1>4, <4>1, <4>2 DEF LoopHead, NormalExit
    <3>2. CASE u = t
      BY <1>1, <3>1, <3>2 DEF SlotOf, Dead, TypeOK
    <3>3. CASE u # t
      <4>1. pc'[u] = pc[u] \/ (pc[u] \in Dead /\ pc'[u] = "created")
        BY <1>1, <3>1, <3>3 DEF TypeOK
      <4> QED BY <4>1 DEF SlotOf, Dead
    <3> QED BY <3>2, <3>3
  <2> QED BY <2>2, SlotStutter
<1> QED BY <1>3, <1>4

LEMMA TaskStepSlot ==
  ASSUME SlotInv, NEW t \in Tasks, TaskStep(t)
  PROVE  Device!SlotNext \/ UNCHANGED Device!slotVars
<1>1. TypeOK /\ UNCHANGED Seen
  BY TaskSees DEF SlotInv, OneConnectionInv
<1>2. CASE Start(t) \/ BackoffEnd(t)
  BY <1>1, <1>2, LoopHeadSlot DEF Start, BackoffEnd
<1>3. ASSUME NEW q \in PCs, pc' = [pc EXCEPT ![t] = q]
      PROVE  /\ pc'[t] = q
             /\ \A s : SlotOf(t)' = s => Device!Become(t, s)
             /\ SlotOf(t)' = SlotOf(t) => UNCHANGED Device!slotVars
  <2>1. pc'[t] = q /\ \A u \in Tasks : u # t => pc'[u] = pc[u]
    BY <1>1, <1>3 DEF TypeOK
  <2>2. \A u \in Tasks : u # t => SlotOf(u)' = SlotOf(u)
    BY <2>1 DEF SlotOf
  <2>3. ASSUME NEW s, SlotOf(t)' = s PROVE Device!Become(t, s)
    BY <1>1, <2>1, <2>3, TaskSlot
  <2>4. SlotOf(t)' = SlotOf(t) => UNCHANGED Device!slotVars
    BY <1>1, <2>2, SlotStutter
  <2> QED BY <2>1, <2>3, <2>4
<1>4. CASE \E f \in Frames : Frame(t, f)
  <2>1. CASE ~IdleExpired
    <3>1. pc' = [pc EXCEPT ![t] = "reading"] /\ pc[t] = "reading"
      BY <1>4, <2>1 DEF Frame
    <3> QED BY <1>3, <3>1 DEF PCs, Connected, SlotOf
  <2>2. CASE IdleExpired
    <3>1. pc' = [pc EXCEPT ![t] = "closing_idle"] /\ pc[t] = "reading"
      BY <1>4, <2>2 DEF Frame
    <3>2. SlotOf(t) = "held" /\ SlotOf(t)' = "idle"
      BY <1>3, <3>1 DEF PCs, Connected, Closing, SlotOf
    <3>3. Device!Become(t, "idle")
      BY <1>3, <3>1, <3>2 DEF PCs, Connected, Closing
    <3>4. Device!LetGo(t)
      BY <1>1, <2>2, <3>2, <3>3, WantedDef DEF Device!LetGo
    <3> QED BY <3>4 DEF Device!SlotNext
  <2> QED BY <2>1, <2>2
<1>5. CASE Fail(t) \/ Crash(t)
  <2>1. PICK q \in {"closing_failed", "closing_crash"} : pc' = [pc EXCEPT ![t] = q]
    BY <1>5 DEF Fail, Crash
  <2>2. q \in PCs
    BY DEF PCs, Connected, Closing
  <2>3. SlotOf(t) = "held" /\ SlotOf(t)' = "failed"
    BY <1>3, <1>5, <2>1, <2>2 DEF Fail, Crash, SlotOf
  <2>4. Device!Become(t, "failed")
    BY <1>3, <2>1, <2>2, <2>3
  <2>5. Device!Lose(t)
    BY <2>3, <2>4 DEF Device!Lose
  <2> QED BY <2>5 DEF Device!SlotNext
<1>6. CASE ClosedForGood(t) \/ ClosedAfterFailure(t)
  <2>1. pc[t] \in Closing
    BY <1>6 DEF ClosedForGood, ClosedAfterFailure, Closing
  <2>2. PICK q \in {"done", "crashed", "backoff"} : pc' = [pc EXCEPT ![t] = q]
    BY <1>6 DEF ClosedForGood, ClosedAfterFailure, Finish
  <2>3. q \in PCs
    BY DEF PCs, Dead
  <2>4. SlotOf(t) \in {"idle", "failed", "stopped"} /\ SlotOf(t)' = "free"
    BY <1>3, <2>1, <2>2, <2>3 DEF Closing, SlotOf
  <2>5. Device!Become(t, "free")
    BY <1>3, <2>2, <2>3, <2>4
  <2>6. Device!Released(t)
    BY <2>4, <2>5 DEF Device!Released, Device!Releasing
  <2> QED BY <2>6 DEF Device!SlotNext
<1>7. CASE Cancelled(t)
  <2>1. Alive(t) /\ hub = "stopping"
    BY <1>1, <1>7, TasksAssumption DEF Cancelled, SlotInv, OneConnectionInv, StopKeepsHandle
  <2>2. CASE pc[t] = "reading"
    <3>1. pc' = [pc EXCEPT ![t] = "closing_cancel"] /\ "closing_cancel" \in PCs
      BY <1>7, <2>2 DEF Cancelled, PCs, Connected, Closing
    <3>2. SlotOf(t) = "held" /\ SlotOf(t)' = "stopped"
      BY <1>3, <2>2, <3>1 DEF SlotOf
    <3>3. Device!Become(t, "stopped")
      BY <1>3, <3>1, <3>2
    <3>4. Device!Withdraw(t)
      BY <2>1, <3>2, <3>3 DEF Device!Withdraw
    <3> QED BY <3>4 DEF Device!SlotNext
  <2>3. CASE pc[t] # "reading"
    <3>1. pc' = [pc EXCEPT ![t] = "done"] /\ "done" \in PCs
      BY <1>7, <2>3 DEF Cancelled, Finish, PCs, Dead
    <3>2. SlotOf(t)' = "free"
      BY <1>3, <3>1 DEF SlotOf
    <3>3. CASE pc[t] \in Closing
      <4>1. SlotOf(t) \in {"idle", "failed", "stopped"}
        BY <3>3 DEF Closing, SlotOf
      <4>2. Device!Become(t, "free")
        BY <1>3, <3>1, <3>2
      <4>3. Device!Released(t)
        BY <4>1, <4>2 DEF Device!Released, Device!Releasing
      <4> QED BY <4>3 DEF Device!SlotNext
    <3>4. CASE pc[t] \in {"created", "backoff"}
      <4>1. SlotOf(t) = "free"
        BY <3>4, SlotFree
      <4> QED BY <1>3, <3>1, <3>2, <4>1
    <3> QED BY <1>1, <2>1, <2>3, <3>3, <3>4 DEF TypeOK, PCs, Connected, Alive
  <2> QED BY <2>2, <2>3
<1> QED BY <1>2, <1>4, <1>5, <1>6, <1>7 DEF TaskStep, Work

LEMMA StepSlot == SlotInv /\ [Next]_vars => [Device!SlotNext]_(Device!slotVars)
<1> SUFFICES ASSUME SlotInv, [Next]_vars
             PROVE  Device!SlotNext \/ UNCHANGED Device!slotVars
  OBVIOUS
<1>1. TypeOK
  BY DEF SlotInv, OneConnectionInv
<1>2. CASE StopBegin \/ StopEnd
  <2>1. Slots' = Slots /\ UNCHANGED <<Subs, idle>>
    BY <1>2, SlotStays DEF StopBegin, StopEnd, SlotOf, Subs
  <2>2. <<hub, hub'>> \in {<<"up", "stopping">>, <<"up", "stopped">>,
                           <<"stopping", "stopped">>}
    BY <1>2 DEF StopBegin, StopEnd
  <2>3. Device!ShutDown
    BY <2>1, <2>2 DEF Device!ShutDown, Slots
  <2> QED BY <2>3 DEF Device!SlotNext
<1>4. CASE Tick
  <2>1. Slots' = Slots /\ UNCHANGED <<Subs, hub>>
    BY <1>4, SlotStays DEF Tick, SlotOf, Subs, hubVars
  <2>2. (idle' <= Linger) \in BOOLEAN /\ (idle' <= Linger => idle <= Linger)
    BY <1>1, <1>4, BoundsAssumption DEF Tick, UpTo, TypeOK
  <2>3. CASE idle' <= Linger
    BY <2>1, <2>2, <2>3 DEF Device!slotVars, Slots
  <2>4. CASE ~(idle' <= Linger)
    <3>1. Device!LingerOver
      BY <2>1, <2>4 DEF Device!LingerOver, Slots
    <3> QED BY <3>1 DEF Device!SlotNext
  <2> QED BY <2>3, <2>4
<1>5. CASE UNCHANGED vars
  BY <1>5, SlotStutter DEF vars, taskVars, hubVars, Seen, SlotOf, Subs
<1> QED BY <1>1, <1>2, <1>4, <1>5, ClientSlot, TaskStepSlot DEF Next

\* hub.py 4-7: what the stream promises the DVR.  At most one connection to a
\* channel, made only while it is wanted, let go under a viewer only because
\* the device failed or the bridge is shutting down.
THEOREM StreamImplementsSlot ==
  ASSUME Quiesced
  PROVE  Spec => ImplementsDeviceSlot
<1>1. Init => SlotInv
  BY InitOneConnection DEF SlotInv, StoppedEmpty, Init
<1>2. Init => Device!SlotInit
  <2> SUFFICES ASSUME Init PROVE Device!SlotInit
    OBVIOUS
  <2>1. \A t \in Tasks : SlotOf(t) = "free"
    BY SlotFree DEF Init, Dead
  <2>2. Subs = {} /\ idle <= Linger /\ hub = "up"
    BY BoundsAssumption DEF Init, Subs
  <2> QED BY <2>1, <2>2 DEF Device!SlotInit
<1>3. SlotInv /\ [Next]_vars => SlotInv'
  BY StepSlotInv
<1>4. SlotInv /\ [Next]_vars => [Device!SlotNext]_(Device!slotVars)
  BY StepSlot
<1> QED BY <1>1, <1>2, <1>3, <1>4, PTL DEF Spec, ImplementsDeviceSlot, Device!SlotSpec
=============================================================================
