------------------------------- MODULE Stream -------------------------------
(***************************************************************************)
(* One `Stream` of the hub (dvrbridge/hub.py): the supervisor task `_run`  *)
(* that keeps one driver connected to one DVR channel, and the interface   *)
(* the RTSP side calls: touch, wait_ready, subscribe, unsubscribe, stop.   *)
(*                                                                         *)
(* asyncio runs one step at a time, from one suspension point to the next: *)
(* an action below is one such step of the supervisor or of a client, and  *)
(* the interleavings are those of the awaits in the code.                  *)
(*                                                                         *)
(* Frames carry what `_on_frame` looks at (the kinds of their NAL units    *)
(* and the keyframe flag).  A cached parameter set is known by the         *)
(* connection it came from: "this" one or an "earlier" one.                *)
(***************************************************************************)
EXTENDS Integers, Sequences, FiniteSets

CONSTANTS
  Clients,          \* RTSP-side users of the stream: a DESCRIBE or a player
  Tasks,            \* identities for supervisor tasks (a finished one is reused)
  NoTask,           \* `_task is None`
  Frames,           \* the kinds of frame a driver may yield
  QMax,             \* Subscriber.queue maxsize
  AlwaysOn,         \* always_on
  Linger,           \* linger, in ticks
  DescribeTimeout,  \* timeout of wait_ready, in ticks
  BackoffStart, BackoffCap, StableReset,
  DriverMayCrash,   \* the driver may raise something _run does not catch
  Quiesced          \* the RTSP server is shut before the hub is, as _serve does

NalKinds == {"SPS", "PPS", "VCL"}
FrameKinds == [nals : SUBSET NalKinds, key : BOOLEAN]

ASSUME TasksAssumption == NoTask \notin Tasks /\ Tasks # {}
ASSUME FramesAssumption == Frames \subseteq FrameKinds
ASSUME BoundsAssumption == QMax \in Nat \ {0} /\ Linger \in Nat
                           /\ DescribeTimeout \in Nat /\ StableReset \in Nat
ASSUME BackoffAssumption == /\ BackoffStart \in Nat \ {0}
                            /\ BackoffCap \in Nat
                            /\ BackoffStart <= BackoffCap
ASSUME FlagsAssumption == /\ AlwaysOn \in BOOLEAN
                          /\ DriverMayCrash \in BOOLEAN
                          /\ Quiesced \in BOOLEAN

VARIABLES
  handle,    \* Stream._task
  pc,        \* pc[t]: where task t is suspended
  backoff,   \* the local `backoff` of _run
  left,      \* what is left of the backoff t is sleeping through
  age,       \* time since `started`, up to StableReset + 1, while there is a
             \* longer backoff for it to reset
  ready,     \* the _ready event
  wake,      \* the _wake event
  sps, pps,  \* the cached parameter sets
  idle,      \* time since _last_activity, up to Linger + 1
  hub,       \* where StreamHub.stop is
  stopping,  \* the task stop() has cancelled and awaits
  client,    \* client[c]: what c is doing on this stream
  timer,     \* what is left of c's wait_ready timeout
  waiting,   \* Subscriber.waiting_key
  queue,     \* Subscriber.queue
  link       \* history: how the next frame follows the last one queued for c

taskVars == <<handle, pc, backoff, left, age>>
eventVars == <<ready, wake>>
setVars == <<sps, pps>>
hubVars == <<hub, stopping>>
subVars == <<waiting, queue, link>>
vars == <<taskVars, eventVars, setVars, idle, hubVars, client, timer, subVars>>

-----------------------------------------------------------------------------
(* Tasks.  A task is "closing" while it awaits the driver's release of the  *)
(* DVR socket, for one of four reasons; what it does next depends on which. *)

Closing == {"closing_idle", "closing_failed", "closing_crash", "closing_cancel"}
Connected == {"reading"} \cup Closing
Dead == {"done", "crashed"}
PCs == Connected \cup Dead \cup {"created", "backoff"}

\* "this": got on the running connection; "earlier": on one before it
SetAges == {"none", "this", "earlier"}

\* how a queued item follows the item queued before it: it is the very next
\* frame, frames of a connection were skipped in between, or only the connection
\* changed; a keyframe can follow any
Links == {"prev", "gap", "new"}
Items == [key : BOOLEAN, sets : SetAges, link : Links]

ClientStates == {"away", "describing", "woken", "playing"}

Alive(t) == pc[t] \notin Dead
Running == handle # NoTask /\ Alive(handle)
Subs == {c \in Clients : client[c] = "playing"}

\* faulty variant: the supervisor swallows the CancelledError
CancelSwallowed(t) == TRUE

\* after stop() has cancelled t, the next step of t is the CancelledError
MayRun(t) == t # stopping

\* faulty variants: the viewers, or always_on, forgotten
IdleExpiredDespiteSubs == ~AlwaysOn /\ idle > Linger
IdleExpiredAlwaysOn == Subs = {} /\ idle > Linger

IdleExpired == ~AlwaysOn /\ Subs = {} /\ idle > Linger

\* faulty variant: only a subscriber ends the backoff
BackoffOverOnWake(t) == wake

\* the backoff runs out or a subscriber cuts it short
BackoffOver(t) == wake \/ left[t] = 0

\* create_task(_run()) once the tasks stand as pcs says
Spawn(pcs) ==
  \E t \in Tasks : /\ pcs[t] \in Dead
                   /\ t # stopping
                   /\ handle' = t
                   /\ pc' = [pcs EXCEPT ![t] = "created"]

\* faulty variant: a running task is not looked for
EnsureRunningAlways == Spawn(pc) /\ UNCHANGED <<backoff, left, age>>

EnsureRunning ==
  /\ IF Running THEN UNCHANGED <<handle, pc>> ELSE Spawn(pc)
  /\ UNCHANGED <<backoff, left, age>>

\* faulty variant: a DESCRIBE does not count as activity
TouchUncounted == UNCHANGED idle /\ EnsureRunning

Touch == idle' = 0 /\ EnsureRunning

Init ==
  /\ backoff = [t \in Tasks |-> BackoffStart]
  /\ left = [t \in Tasks |-> 0]
  /\ age = [t \in Tasks |-> 0]
  /\ ready = FALSE /\ wake = FALSE
  /\ sps = "none" /\ pps = "none"
  /\ idle = 0
  /\ hub = "up" /\ stopping = NoTask
  /\ client = [c \in Clients |-> "away"]
  /\ timer = [c \in Clients |-> 0]
  /\ waiting = [c \in Clients |-> TRUE]
  /\ queue = [c \in Clients |-> <<>>]
  /\ link = [c \in Clients |-> "gap"]
  /\ IF AlwaysOn    \* start_always_on
     THEN \E t \in Tasks : /\ handle = t
                           /\ pc = [u \in Tasks |-> IF u = t THEN "created" ELSE "done"]
     ELSE handle = NoTask /\ pc = [t \in Tasks |-> "done"]

-----------------------------------------------------------------------------
(* The calls of the RTSP side.                                              *)

\* a closed server makes no more calls
ServerUp == Quiesced => hub = "up"

\* DESCRIBE: wait_ready; up to Python 3.11 wait_for takes a turn of the loop
\* even when _ready is set
Describe(c) ==
  /\ ServerUp
  /\ client[c] = "away"
  /\ Touch
  /\ client' = [client EXCEPT ![c] = IF ready THEN "woken" ELSE "describing"]
  /\ timer' = [timer EXCEPT ![c] = DescribeTimeout]
  /\ UNCHANGED <<eventVars, setVars, hubVars, subVars>>

StopDescribing(c) ==
  /\ client' = [client EXCEPT ![c] = "away"]
  /\ timer' = [timer EXCEPT ![c] = 0]
  /\ UNCHANGED <<taskVars, eventVars, setVars, idle, hubVars, subVars>>

\* the waiter resumes, one loop iteration after _on_frame set _ready
DescribeReply(c) == client[c] = "woken" /\ StopDescribing(c)

\* 504
DescribeExpired(c) ==
  client[c] \in {"describing", "woken"} /\ timer[c] = 0 /\ StopDescribing(c)

Subscribe(c) ==
  /\ ServerUp
  /\ client[c] = "away"
  /\ client' = [client EXCEPT ![c] = "playing"]
  /\ waiting' = [waiting EXCEPT ![c] = TRUE]
  /\ wake' = TRUE
  /\ Touch
  /\ UNCHANGED <<ready, setVars, hubVars, timer, queue, link>>

Unsubscribe(c) ==
  /\ client[c] = "playing"
  /\ client' = [client EXCEPT ![c] = "away"]
  /\ waiting' = [waiting EXCEPT ![c] = TRUE]
  /\ queue' = [queue EXCEPT ![c] = <<>>]
  /\ link' = [link EXCEPT ![c] = "gap"]
  /\ idle' = 0
  /\ UNCHANGED <<taskVars, eventVars, setVars, hubVars, timer>>

\* the media pump takes the next item
Get(c) ==
  /\ client[c] = "playing" /\ queue[c] # <<>>
  /\ queue' = [queue EXCEPT ![c] = Tail(@)]
  /\ UNCHANGED <<taskVars, eventVars, setVars, idle, hubVars, client, timer,
                 waiting, link>>

-----------------------------------------------------------------------------
(* _on_frame.                                                               *)

\* the parameter sets a decoder finds in the item made of frame f
SetsOf(f, s, p) ==
  IF "SPS" \in f.nals THEN "this"
  ELSE IF ~f.key \/ s = "none" \/ p = "none" THEN "none"
  ELSE IF s = "this" /\ p = "this" THEN "this" ELSE "earlier"

\* faulty variant: waiting_key is not looked at
AcceptsAll(c, f) == TRUE

Accepts(c, f) == ~waiting[c] \/ f.key
Fits(c) == Len(queue[c]) < QMax

Deliver(f, sets) ==
  /\ waiting' = [c \in Clients |->
       IF c \in Subs /\ Accepts(c, f) THEN ~Fits(c) ELSE waiting[c]]
  /\ queue' = [c \in Clients |->
       IF c \in Subs /\ Accepts(c, f) /\ Fits(c)
       THEN Append(queue[c], [key |-> f.key, sets |-> sets,
                              link |-> IF f.key THEN "prev" ELSE link[c]])
       ELSE queue[c]]
  /\ link' = [c \in Clients |->
       IF c \notin Subs THEN link[c]
       ELSE IF Accepts(c, f) /\ Fits(c) THEN "prev" ELSE "gap"]

OnFrame(f) ==
  /\ sps' = IF "SPS" \in f.nals THEN "this" ELSE sps
  /\ pps' = IF "PPS" \in f.nals THEN "this" ELSE pps
  /\ ready' = (ready \/ (f.nals # {} /\ sps' # "none" /\ pps' # "none"))
  /\ client' = [c \in Clients |->
       IF ready' /\ client[c] = "describing" THEN "woken" ELSE client[c]]
  /\ IF f.nals = {} THEN UNCHANGED subVars
                    ELSE Deliver(f, SetsOf(f, sps', pps'))

-----------------------------------------------------------------------------
(* _run.                                                                    *)

\* faulty variant: no `finally: self._ready.clear()`
FinishReady(t, how) ==
  /\ pc' = [pc EXCEPT ![t] = how]
  /\ backoff' = [backoff EXCEPT ![t] = BackoffStart]
  /\ left' = [left EXCEPT ![t] = 0]
  /\ age' = [age EXCEPT ![t] = 0]
  /\ UNCHANGED ready

\* the end of the coroutine: its locals are gone
Finish(t, how) ==
  /\ pc' = [pc EXCEPT ![t] = how]
  /\ backoff' = [backoff EXCEPT ![t] = BackoffStart]
  /\ left' = [left EXCEPT ![t] = 0]
  /\ age' = [age EXCEPT ![t] = 0]
  /\ ready' = FALSE

Aged(s) == IF s = "this" THEN "earlier" ELSE s

\* the body of the loop up to the first suspension in frames(); b is the
\* backoff the connection starts with
NewConnection(t, b) ==
  /\ pc' = [pc EXCEPT ![t] = "reading"]
  /\ backoff' = [backoff EXCEPT ![t] = b]
  /\ left' = [left EXCEPT ![t] = 0]
  /\ age' = [age EXCEPT ![t] = 0]
  /\ sps' = Aged(sps) /\ pps' = Aged(pps)
  /\ link' = [c \in Clients |->
       IF c \in Subs /\ link[c] = "prev" THEN "new" ELSE link[c]]
  /\ UNCHANGED <<handle, ready>>

\* the loop condition fails: clear the handle, restart for a late subscriber
NormalExit(t) ==
  /\ ready' = FALSE
  /\ IF Subs # {} THEN Spawn([pc EXCEPT ![t] = "done"])
                  ELSE handle' = NoTask /\ pc' = [pc EXCEPT ![t] = "done"]
  /\ backoff' = [backoff EXCEPT ![t] = BackoffStart]
  /\ left' = [left EXCEPT ![t] = 0]
  /\ age' = [age EXCEPT ![t] = 0]
  /\ UNCHANGED <<setVars, link>>

LoopHead(t, b) ==
  /\ IF IdleExpired THEN NormalExit(t) ELSE NewConnection(t, b)
  /\ UNCHANGED <<wake, idle, hubVars, client, timer, waiting, queue>>

Start(t) == pc[t] = "created" /\ MayRun(t) /\ LoopHead(t, BackoffStart)

\* faulty variant: no idle check after a frame
FrameUnchecked(t, f) ==
  /\ pc[t] = "reading" /\ MayRun(t)
  /\ OnFrame(f)
  /\ UNCHANGED <<handle, pc, backoff, left, age, wake, idle, hubVars, timer>>

\* a frame, then the idle check that follows every frame
Frame(t, f) ==
  /\ pc[t] = "reading" /\ MayRun(t)
  /\ OnFrame(f)
  /\ pc' = [pc EXCEPT ![t] = IF IdleExpired THEN "closing_idle" ELSE @]
  /\ UNCHANGED <<handle, backoff, left, age, wake, idle, hubVars, timer>>

\* frames() ends or raises: DriverError or OSError, or something else
Fail(t) ==
  /\ pc[t] = "reading" /\ MayRun(t)
  /\ pc' = [pc EXCEPT ![t] = "closing_failed"]
  /\ UNCHANGED <<handle, backoff, left, age, eventVars, setVars, idle, hubVars,
                 client, timer, subVars>>

Crash(t) ==
  /\ DriverMayCrash
  /\ pc[t] = "reading" /\ MayRun(t)
  /\ pc' = [pc EXCEPT ![t] = "closing_crash"]
  /\ UNCHANGED <<handle, backoff, left, age, eventVars, setVars, idle, hubVars,
                 client, timer, subVars>>

\* `return` after a frame, an uncaught exception or a cancellation: only the
\* outer finally runs
ClosedForGood(t) ==
  /\ pc[t] \in Closing \ {"closing_failed"}
  /\ pc[t] = "closing_cancel" \/ MayRun(t)
  /\ Finish(t, IF pc[t] = "closing_crash" THEN "crashed" ELSE "done")
  /\ UNCHANGED <<handle, wake, setVars, idle, hubVars, client, timer, subVars>>

\* faulty variant: the parameter sets outlive the connection
KeepSets == UNCHANGED setVars

DropSets == sps' = "none" /\ pps' = "none"

\* the driver failed: give up if nobody is left, else back off
ClosedAfterFailure(t) ==
  /\ pc[t] = "closing_failed" /\ MayRun(t)
  /\ IF IdleExpired
     THEN Finish(t, "done") /\ UNCHANGED <<wake, setVars>>
     ELSE /\ pc' = [pc EXCEPT ![t] = "backoff"]
          /\ backoff' = [backoff EXCEPT
               ![t] = IF age[t] > StableReset THEN BackoffStart ELSE @]
          /\ left' = [left EXCEPT ![t] = backoff'[t]]
          /\ age' = [age EXCEPT ![t] = 0]
          /\ ready' = FALSE /\ wake' = FALSE
          /\ DropSets
  /\ UNCHANGED <<handle, idle, hubVars, client, timer, subVars>>

\* faulty variant: the backoff has no cap
DoubledUncapped(b) == 2 * b

Doubled(b) == IF 2 * b <= BackoffCap THEN 2 * b ELSE BackoffCap

BackoffEnd(t) ==
  /\ pc[t] = "backoff" /\ MayRun(t)
  /\ BackoffOver(t)
  /\ LoopHead(t, Doubled(backoff[t]))

-----------------------------------------------------------------------------
(* stop().                                                                  *)

StopBegin ==
  /\ hub = "up"
  /\ Quiesced => Subs = {}    \* a DESCRIBE may still be waiting
  /\ IF Running
     THEN hub' = "stopping" /\ stopping' = handle /\ UNCHANGED handle
     ELSE /\ hub' = "stopped" /\ UNCHANGED stopping
          /\ handle' = IF handle # NoTask /\ pc[handle] = "crashed"
                       THEN handle       \* `await self._task` raises
                       ELSE NoTask
  /\ UNCHANGED <<pc, backoff, left, age, eventVars, setVars, idle, client,
                 timer, subVars>>

\* the CancelledError reaches the task; a connected driver still has to close
Cancelled(t) ==
  /\ t = stopping /\ Alive(t) /\ pc[t] # "closing_cancel"
  /\ IF pc[t] = "reading"
     THEN /\ pc' = [pc EXCEPT ![t] = "closing_cancel"]
          /\ UNCHANGED <<backoff, left, age, ready>>
     ELSE Finish(t, "done")
  /\ UNCHANGED <<handle, wake, setVars, idle, hubVars, client, timer, subVars>>

StopEnd ==
  /\ hub = "stopping" /\ ~Alive(stopping)
  /\ hub' = "stopped" /\ stopping' = NoTask
  /\ handle' = NoTask
  /\ UNCHANGED <<pc, backoff, left, age, eventVars, setVars, idle, client,
                 timer, subVars>>

-----------------------------------------------------------------------------
(* Time.  The loop runs whatever is ready before a second passes: no tick   *)
(* while a timer is due, a new task has not started, a waiter is woken or   *)
(* stop() has seen its task end.                                            *)

Due == \/ \E t \in Tasks : \/ pc[t] = "created"
                           \/ pc[t] = "backoff" /\ BackoffOver(t)
       \/ \E c \in Clients : \/ client[c] = "describing" /\ timer[c] = 0
                             \/ client[c] = "woken"
       \/ hub = "stopping" /\ ~Alive(stopping)

UpTo(n, bound) == IF n < bound THEN n + 1 ELSE bound
Down(n) == IF n > 0 THEN n - 1 ELSE 0

Tick ==
  /\ ~Due
  /\ idle' = UpTo(idle, Linger + 1)
  /\ age' = [t \in Tasks |->
       IF pc[t] \in Connected /\ backoff[t] > BackoffStart
       THEN UpTo(age[t], StableReset + 1) ELSE age[t]]
  /\ left' = [t \in Tasks |-> Down(left[t])]
  /\ timer' = [c \in Clients |-> Down(timer[c])]
  /\ UNCHANGED <<handle, pc, backoff, eventVars, setVars, hubVars, client, subVars>>

-----------------------------------------------------------------------------
ClientStep(c) == \/ Describe(c) \/ DescribeReply(c) \/ DescribeExpired(c)
                 \/ Subscribe(c) \/ Unsubscribe(c) \/ Get(c)

\* what a task does by itself; a driver need not fail
Work(t) == \/ Start(t) \/ (\E f \in Frames : Frame(t, f)) \/ ClosedForGood(t)
           \/ ClosedAfterFailure(t) \/ BackoffEnd(t) \/ Cancelled(t)
TaskStep(t) == Work(t) \/ Fail(t) \/ Crash(t)

Next == \/ \E c \in Clients : ClientStep(c)
        \/ \E t \in Tasks : TaskStep(t)
        \/ StopBegin \/ StopEnd
        \/ Tick

Spec == Init /\ [][Next]_vars

(* Fairness.  The loop runs every ready callback and clock; a driver that    *)
(* stays connected yields, because each of its reads has a timeout.          *)
Fairness ==
  /\ WF_vars(Tick) /\ WF_vars(StopEnd)
  /\ \A t \in Tasks : WF_vars(Work(t))
  /\ \A c \in Clients : WF_vars(DescribeReply(c) \/ DescribeExpired(c))

FairSpec == Spec /\ Fairness

-----------------------------------------------------------------------------
TypeOK ==
  /\ handle \in Tasks \cup {NoTask}
  /\ pc \in [Tasks -> PCs]
  /\ backoff \in [Tasks -> 1 .. BackoffCap]
  /\ left \in [Tasks -> 0 .. BackoffCap]
  /\ age \in [Tasks -> 0 .. StableReset + 1]
  /\ ready \in BOOLEAN /\ wake \in BOOLEAN
  /\ sps \in SetAges /\ pps \in SetAges
  /\ idle \in 0 .. Linger + 1
  /\ hub \in {"up", "stopping", "stopped"}
  /\ stopping \in Tasks \cup {NoTask}
  /\ client \in [Clients -> ClientStates]
  /\ timer \in [Clients -> 0 .. DescribeTimeout]
  /\ waiting \in [Clients -> BOOLEAN]
  /\ queue \in [Clients -> Seq(Items)]
  /\ \A c \in Clients : Len(queue[c]) <= QMax
  /\ link \in [Clients -> Links]

\* The hub holds one connection to a channel: every live supervisor is the one
\* the handle names, whatever touches, restarts and stop() are interleaved
\* with its teardown.
OneConnection == \A t \in Tasks : Alive(t) => t = handle

\* _ready is set only while both parameter sets are cached and some supervisor is
\* connected: never across a failure or after a cancellation.  (The sets may be of
\* an earlier connection, and a waiter it wakes may resume after they are dropped:
\* ReadyMeansCurrent and DescribeHasSets.)
ReadyBacked == ready => /\ sps # "none" /\ pps # "none"
                        /\ \E t \in Tasks : pc[t] \in Connected

\* What a DESCRIBE would advertise came over the running connection, never
\* over one before a reconnect.
ReadyMeansCurrent == ready => sps = "this" /\ pps = "this"

\* No access unit is sent behind parameter sets of an earlier connection.
NoStaleSets ==
  \A c \in Clients : \A i \in 1 .. Len(queue[c]) : queue[c][i].sets # "earlier"

\* As long as one connection lasts, a subscriber gets whole runs of frames:
\* after anything it missed (before it joined, or a full queue) the next frame
\* it is given is a keyframe.
NoGapWithinConnection ==
  \A c \in Clients : \A i \in 1 .. Len(queue[c]) :
     queue[c][i].key \/ queue[c][i].link # "gap"

\* Every frame a subscriber is given can be decoded after what it was given
\* before, across reconnects too.
Decodable ==
  \A c \in Clients : \A i \in 1 .. Len(queue[c]) :
     queue[c][i].key \/ queue[c][i].link = "prev"

\* While the hub serves, a subscriber is never left with no supervisor to
\* feed its queue.
NoStranded == hub = "up" /\ Subs # {} => Running

\* A supervisor that is not already giving up stays for as long as there is
\* always some viewer: no step ends it under them.
Staying == {"created", "reading", "closing_failed", "backoff"}
KeepsViewer ==
  hub' = "up" /\ Running /\ pc[handle] \in Staying /\ Subs # {} /\ Subs' # {}
     => handle' = handle /\ pc'[handle] \in Staying \cup {"closing_crash"}
ViewerKeepsStream == [][KeepsViewer]_vars

\* An always-on stream reconnects again and again for as long as it is served.
KeepsReconnecting ==
  [](hub = "up") => []<>(\E t \in Tasks : pc[t] = "reading")

\* A DESCRIBE that waits no longer than `linger` is never idled out under its
\* waiter: not counting it as activity is safe as long as describe_timeout is at
\* most linger (both are 10 s by default).
NotIdledWhileDescribing ==
  (\E c \in Clients : client[c] \in {"describing", "woken"})
    /\ DescribeTimeout <= Linger => ~IdleExpired

\* wait_ready's promise (hub.py 103): when it returns, SPS and PPS are cached.
DescribeHasSets ==
  \A c \in Clients : client[c] = "woken" => sps # "none" /\ pps # "none"

\* The stream implements DeviceSlot: a task is a holder, `linger` the time for
\* which use counts.
SlotOf(t) == CASE pc[t] = "reading" -> "held"
               [] pc[t] = "closing_idle" -> "idle"
               [] pc[t] \in {"closing_failed", "closing_crash"} -> "failed"
               [] pc[t] = "closing_cancel" -> "stopped"
               [] OTHER -> "free"

Device == INSTANCE DeviceSlot
            WITH Holders <- Tasks, LateCalls <- ~Quiesced, slot <- [t \in Tasks |-> SlotOf(t)],
                 viewers <- Subs, asked <- idle <= Linger, serving <- hub

ImplementsDeviceSlot == Device!SlotSpec
=============================================================================
