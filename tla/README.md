# dvrbridge: verification project

TLA+ models of dvrbridge, the bridge that connects to legacy DVR boards over
their own protocols and serves their channels over RTSP.  The modules translate
the Python code under `src/dvrbridge/`; TLC checks them on small instances, and
TLAPS proves the theorems of eight proof modules for every value of the
constants.

`PROJECT.json` holds, for every definition, the source lines it stands for, and
the runs, mutants, findings, hazards and theorems.

## 1. The system

| Component | Source | State | Operations |
|---|---|---|---|
| `Stream` | `hub.py` 73-222 | task handle, cached SPS/PPS, `_ready`, `_wake`, subscribers and their queues, time of last activity | `touch`, `wait_ready`, `subscribe`, `unsubscribe`, `stop`; the task `_run` with `_on_frame` |
| `StreamHub` | `hub.py` 225-243 | dictionary of streams | `add`, `get`, `start_always_on`, `stop` |
| `TimestampMapper` | `hub.py` 41-70 | last device time, last wall time, moving average, RTP time | `map` |
| RTSP server | `rtsp/server.py` | `_conns`, listening socket | `start`, `_client`, `stop` |
| `ClientConnection` | `rtsp/server.py` | session: stream, transport, pump task, subscriber, write lock | `run`, one handler per RTSP method, `_pump`, `_stop_play`, `close` |
| driver interface | `drivers/base.py` | `info` | `frames()`, an async generator |
| `NetDvr3Driver` | `drivers/netdvr3.py` | TCP connection, receive buffer, `resyncs` | connect, preamble, frame loop, `_resync` |
| RTP packetizer | `rtsp/rtp.py` | sequence number, counters | `packetize` |
| SDP, H.264 helpers | `rtsp/sdp.py`, `h264.py` | none (`AnnexBSplitter` keeps a buffer) | `build_sdp`, `iter_nals`, `parse_sps` |
| CLI, configuration | `cli.py`, `config.py` | none | `serve`, `probe`, `cat` |

How they meet.  `_serve` builds one `Stream` per configured channel, starts the
always-on ones and the RTSP server, and on a signal shuts the server before the
hub (`cli.py` 54-55).  A `DESCRIBE` calls `wait_ready`; a `PLAY` calls
`subscribe` and starts a pump that takes items off the subscriber's queue,
packetizes and sends them; the pump's `finally` calls `unsubscribe`.  A
stream's `_run` makes a driver and a `TimestampMapper` for every connection,
iterates `frames()`, fans each frame out, and on failure backs off and tries
again.  Everything runs on one asyncio loop: what interleaves is what happens
between two awaits.

What is hard here:

* a request arrives while a supervisor is in the middle of releasing a
  connection, and finds a task that is not done yet;
* a cached value (SPS/PPS, `_ready`, the task handle) outlives what it was
  cached from;
* one pump is stopped by up to two others at once, with a lock, a UDP socket
  and a subscription to give back exactly once;
* server and hub keep their own idea of who is subscribed, in separate tasks;
* every loop must go on although the other end stops talking: reconnects, the
  idle disconnect, shutdown;
* 32-bit clocks that jump, wrap and repeat.

`PROJECT.json` lists these as hazards, each at its line.

What makes each component correct, in one line each:

* `Stream`: one device connection per channel; a viewer keeps it, and nobody
  watching ends it; what DESCRIBE advertises belongs to the running connection;
  a subscriber gets runs of frames that start at a keyframe.
* `TimestampMapper`: the timeline only moves forward, by bounded steps.
* RTSP server: no more than `max_connections`; whatever a session takes (UDP
  socket, lock, subscription) is given back however it ends.
* NetDvr3: a delivered payload is a whole access unit, and the stream is found
  again after damage.
* Packetizer: sequence numbers without gaps, fragments that reassemble to the
  NAL unit, the marker exactly on the last packet.
* The bridge as a whole: when the last client has gone, however it went, the
  device is let go; a bridge told to stop ends.

## 2. The modules

| Module | Models | Extended or instantiated by |
|---|---|---|
| `Stream` | `hub.py`'s `Stream` and what the hub and `_serve` do to it | `MCStream`, `System` |
| `DeviceSlot` | abstract: what a stream, and the bridge, promise the DVR | `Stream`, `System` (refinement) |
| `RtspServer` | `rtsp/server.py` | `MCRtspServer`, `System` |
| `System` | `_serve`: the two above as one bridge | `MCSystem` |
| `FrameSource` | abstract: what a driver promises the hub | `NetDvr3` (refinement) |
| `NetDvr3` | `drivers/netdvr3.py`: the `frames()` generator and `_resync` | `MCNetDvr3` |
| `TimestampMapper` | the mapper, and `_run`'s new one per connection | `MCTimestampMapper`, `Media` |
| `AnnexB` | `h264.py`'s `iter_nals` | `Media` |
| `H264Packetizer` | `rtsp/rtp.py` | `Media` |
| `Media` | an access unit's way from the device's bytes to a viewer | `MCMedia` |
| `StreamProofs`, `StreamRefinement` | theorems about `Stream` | TLAPS, `BridgeProofs` |
| `RtspProofs`, `PumpProofs` | theorems about `RtspServer` | TLAPS, `BridgeProofs` |
| `SystemProofs`, `BridgeProofs` | theorems about `System` | TLAPS |
| `NetDvr3Proofs` | theorems about `NetDvr3` | TLAPS |
| `MediaProofs` | theorems about `TimestampMapper` and `Media` | TLAPS |

Each `MC` module only gives TLC its small sets and its symmetry.  A definition
commented "faulty variant" is a plausible mistake in the definition that
follows it; no specification uses it.  The mutants of `PROJECT.json` swap it in
and the property then fails: that is how each property is known to bite.

### 2.1 Stream

An action is a step of the loop from one suspension point to the next.

* The supervisor `_run` is a task `t` with a program counter `pc[t]`:
  `created` (not started), `reading` (suspended in the driver), the four
  `closing_*` states (awaiting `gen.aclose()`, for a reason that decides what
  follows), `backoff`, and `done` or `crashed`.  `Start`, `Frame`, `Fail`,
  `Crash`, `ClosedForGood`, `ClosedAfterFailure`, `BackoffEnd` and `Cancelled`
  are its steps.  `Frame` is `_on_frame` and the idle check behind it;
  `LoopHead` is the loop condition with either the next connection or the normal
  exit (lines 181-191).  The early `return`s (156, 166) run only the
  `finally`: they do not reach the restart, and neither do the model's.
* `Tasks` are identities, not a limit of the code: a finished task's identity
  is used again.  `Spawn` needs a dead identity, so `Tasks` must be large enough
  that one is always there; with the server shut first at most one task
  lives (theorem `OneConnectionHolds`), and two identities suffice.
* Clients are `away`, `describing` (suspended in `wait_ready`), `woken`
  (`_ready` was set, the waiter has not yet resumed) or `playing`.  A client
  that leaves and comes back is another subscriber: all its state is reset.
* A frame is the set of NAL unit kinds in it and the driver's keyframe flag.
  `MCFrames` has one frame of every class `_on_frame` tells apart, the damaged
  ones included (sets alone, nothing at all).
* A cached parameter set is `this` (received over the running connection) or
  `earlier`: a new connection ages what is cached.  That is what lets a property
  tell a stale set from a current one.
* `link` is history, not code: how the next frame relates to the last one
  queued for that subscriber (`prev`: the very next; `gap`: some were missed;
  `new`: another connection).  It is recorded in the queued item so that a
  property can read it; an item that is a keyframe can follow anything and is always
  recorded as `prev`.
* Time is discrete.  `Tick` passes only when nothing is due (`Due`): asyncio
  runs every ready callback before the clock can move by a second.  `idle`,
  `age`, `left` and `timer` are the code's time differences, each counted one
  past the limit it is compared with, which is all the code looks at.  `age` is
  counted only while the backoff is longer than the first one: it decides whether that
  is reset, and resetting the first one changes nothing.
* `Quiesced` says that the RTSP server is shut before the hub, as `_serve`
  does: then no call arrives from `StopBegin` on and no subscriber is left,
  while a DESCRIBE may still be waiting.  `OneConnection` and
  `ViewerKeepsStream` need it.  Without it, a `touch` between the end of the
  cancelled task and the end of `stop()` starts a task whose handle line 125
  then forgets.
* Left out: counters (`frames_relayed`, `reconnects`, `dropped`), `info` and
  `ts90k`, which the hub never reads back.

### 2.2 RtspServer

`conn[c]` is a record: where the request loop is suspended (`loop`), what
follows the response it is sending (`then`), where the pump is (`pump`), whether
it is `cancelled`, who holds the write lock (`lock`), the TCP transport
(`sock`), whether the client reads (`stalled`), the session (`stream`, `tcp`,
`udp`), the number of UDP `sockets` bound, what is `registered` with a stream,
and the `closer` that `stop()` runs for it.  Small operators on such a record
stand for the code's helpers (`Respond`, `ReleaseTransport`, `CancelPump`,
`LoopClose`, `PumpFinally`), and an action is a composition of them.

* Requests: `Plain`, `Malformed`, `Describe`, `SetupRefused`, `SetupTcp`,
  `SetupUnsupported`, `SetupUdp`, `Play`, `TeardownRequest`, `ReadFails`.  The
  bytes of a request are not modelled; every outcome of its parsing and of
  authentication is (a request turned down before its handler is `Plain`).
* Each await is a state of its own, so TEARDOWN, a second SETUP, a pump crash,
  a lost client and `stop()` meet in every order.
* `Python311` distinguishes Python versions.  Up to 3.11 `wait_for` always
  yields, so a pump created by PLAY takes its first step before the next request
  is read, and the server's own `wait_closed()` does not wait for connections.
  From 3.12 on (the Docker image has 3.13) a request that is already buffered
  is read without yielding, and `wait_closed()` does wait.
* `Stall` models a client that stops reading; `drain()` and
  `wait_closed()` then do not return.  `MayStall` and `MayUdp` allow it, and RTP over
  UDP, or not.
* A socket that ends with an `OSError` that is no `ConnectionError` takes another way:
  the pump goes by its crash path (`PumpDrained`, `Crashed`), and one that is a
  `TimeoutError` makes `_dispatch` try to answer 504 on it (`DrainFails`).
* Where the code leaves an order open, the model allows more of it: a `drain`
  that need not suspend is still a step of its own.  Where two tasks await one
  pump, they resume in one iteration of the loop, and `Drained` keeps that order.
  After 3.11 a client that has sent TEARDOWN, SETUP and PLAY ahead could have them all
  served before `stop()`'s closer resumes; that order is left out.
* A subscription that `self.sub` has forgotten is `orphan`.  Up to 3.11 there is never
  one while the server is up; after that there may be more than one of a connection,
  and `orphan` stands for them all.

### 2.3 NetDvr3

The parser is deterministic: what varies is the stream.  `Connect` makes the device
send a preamble; from then on `DeviceSends` may at any time, between any two reads,
add a segment to the bytes that have been sent: a frame (header, start code, body) or a
piece of garbage, `MaxSegments` at most.  `stream` is those bytes, and `sent` is
history: where in them each segment is.  `read` and `buf` are the parser's position,
and an action is a piece of the code between two reads.  Sizes are scaled down
together: a header is `Lead` bytes, the magic, and one byte for the length (4, 4 and the
rest of 24 in the code); the code's 8 (`need + 8`) is `Peek`, its 7 (`len(buf) - 7`)
is `KeptTail`.  The length field wraps at `LenMod` as the u16 does.  Bytes that do
not come stand for both a closed connection and a read timeout; `Abandoned` is the
consumer's `aclose()` or a cancellation.

Two assumptions have names.  `LengthAssumption` is a fact about the code's constants,
2^16 + 3 < 4 MiB: no length the field can hold is refused as too long.
`ContentAssumption` says what kinds of bytes there are, and no more: a magic may stand
anywhere, as `docs/DESIGN.md` 117-120 has it and `tests/test_robustness.py` 138-165
tests it, in a payload, in garbage, in `seq_a`, or across where two of them meet.

One thing the device is not let do: forge a frame.  `Unforged`, a guard of `DeviceSends`,
keeps the two patterns out that the parser could not tell from a frame by what it looks
at: a false magic with a start code as
far behind it as a header has it, and one that stands exactly where a length that wrapped
says the next header is.  For the same reason bytes that vanish are left out: a length
that happens to land on a later header would join two frames.  The keyframe flag,
timestamps and metadata are left out: the parser does not look at them.

A magic inside a payload costs at most what is read past it: the frame loop refutes it and
scans on from it, and the parser only gets to see it when it has given up the frame it
is in.  A
magic that runs into the beginning of a frame can cost that frame, sound as it is.  Bytes
`63 00 0c` right before a `seq_a` that begins with `00` are such a magic: `_resync` skips
it (209-212) with the first byte of the header, finds the header's own magic with too
little before it, and skips that too.  `Clear(i)` says that no magic runs into frame i's
lead or lies in it; `SoundKept` is about clear frames.  The run has leads and bodies that
make such magics, and they are lost in it.

A resync is charged to what it drops: it moves the parser on by a byte at least, so there
are no more of them than bytes left behind (`TypeOK`).  The buffer is charged to the magics
left behind (`LeftBehind`), false ones included, for each of which `_resync` reads a
chunk at most once more than it has to (`BufferBounded`).

`FrameSource` is the promise of a driver: of the access units the device sent whole,
each at most once and in order, one for each time the hub asks for it, none after the
generator has ended, and none left out but those that are `hidden`.  `NetDvr3`
instantiates it (`ImplementsFrameSource`): a unit is the place in `sent` of a frame that
is `Sound`, and it is hidden when it is not `Clear`; damage, reads, the preamble and every
step of a resync are invisible in it.  `NoSplice`, `SoundKept` and
`YieldedInOrder` name the parts of that promise at the byte positions of the stream;
`FrameSource` is the one its consumer sees, and it also says that nothing is yielded
which is no unit at all and that there is one yield to a resumption.

### 2.4 TimestampMapper

`Map` is `map()` with the device timestamp and the elapsed wall time as inputs,
both arbitrary.  Integers stand for floats; the moving average
`0.9 * old + 0.1 * new` may be any value between the two.  `Reconnect` is
line 147.  `MsMod` and `RtpMod` are the two `& 0xFFFFFFFF`.

### 2.5 DeviceSlot

The abstract specification of a channel's one connection: a slot that is free,
held or being released by some holder, who may watch, and whether somebody used
the stream lately.  It is taken only when free, while the hub serves and
somebody wants the channel; it is let go only because nobody does, because the
device failed, or because the bridge shuts down.  `serving` is the hub's state; once it
is `stopped`, that only one holds the slot is promised no longer (2.7).  `Stream` instantiates it
(`ImplementsDeviceSlot`): `closing_idle` is the release nobody wants the channel
for, `closing_failed` and `closing_crash` the failed one, `closing_cancel` the
shutdown; a task that is created, in backoff or dead holds nothing; `asked` is
`idle <= Linger`.

`System` instantiates it too (`BridgeKeepsSlot`), with the RTSP connections for clients:
who may watch is a connection that `RtspServer` has registered, whatever the stream's own
list says.  `LateCalls` is where the two differ.  A stream whose callers are gone before
it is stopped connects no more after that (`LateCalls` is `~Quiesced`); the bridge may,
for the client that `server.stop()` missed (2.7).  All else is promised in both cases.

### 2.6 AnnexB, H264Packetizer and Media

Bytes are real, because start codes, NAL headers and FU-A headers are bit fields
of them and their decoding is what is in question.  `AnnexB` and `H264Packetizer` have
a step for each turn of `iter_nals`' and `packetize`'s loops, and `Media` puts them in
the order an access unit meets them: `DeviceFrame` maps the timestamp and finds the
first start code; `SplitNal` yields a NAL unit; `Offer` queues the item or drops it;
`Relay` is the pump taking it; `SendPacket` makes one packet; `Written` is the writing of
them all; `DriverReconnects` is the new mapper.  Neither loop has an await, so no
other task runs between two of its turns, and `DriverReconnects` may not come there;
that a turn is a step lets an invariant say how far each loop has come.

* An item is dropped when its viewer waits for a keyframe or has a full queue:
  `Stream` says when, here it is a choice.  Its timestamp is the `sent` it was mapped to,
  which a reconnect while it waits in the queue does not change.
* The parameter sets that the hub puts before a keyframe (`hub.py` 206-210) are NAL units
  as any other; `Stream` says when it does.
* `AccessUnits` is what devices send: bytes, and where in them the NAL units are.
  `AnnexBUnit`, which `AccessUnitAssumption` asks of each, is what Annex B promises: a start
  code before each NAL unit and nowhere else (emulation prevention), only zeros between
  a NAL unit and the next start code, no NAL unit that ends with a zero.  What comes
  before the first start code is anything without one, and there may be no NAL unit at
  all.  NAL units of type 28 are excluded: they would be read as FU-A.
* `unit`, `viewer` and `last` are history: the access unit, what a receiver has made of
  the packets so far, and the sequence number before them.  `Receive` is a receiver written
  from `tests/test_rtp.py`; it is what the properties compare with, and no code under
  `src/dvrbridge` does it.

### 2.7 System

`System` instantiates `RtspServer` and `Stream` for one channel and says which of
their steps are one step of the program:

* DESCRIBE is `R!Describe` with `S!Describe`, and its end `S!DescribeReply` or
  `S!DescribeExpired` with the server's answer: without parameter sets
  `build_sdp` raises and the connection ends (`SdpFails`).
* `CallStream` accompanies every step of a connection: one that registers a
  subscriber is `S!Subscribe`, one that gives it back is `S!Unsubscribe`, any
  other leaves the stream alone.  The pump takes an item (`S!Get`) when it starts
  to send one, and when it crashes on one.
* A connection is up to three clients of `Stream` (`Roles`): a waiting DESCRIBE,
  its subscriber, and one more where `RtspServer` has an orphan.
* `HubStopBegin` needs `server = "stopped"`: `_serve` awaits one before the other.
* `Return` is the end of the `gather` in `hub.stop()` and the return of `_serve`
  (`exited`).  It is a step of its own after `HubStopEnd`: between the two the loop runs on,
  and late clients call what they like.  `OtherStreams` says that the hub has other
  streams, whose `stop()` may take longer: then time passes in between too.

Every request of `RtspServer` is one of `System` (`Client`), over TCP and UDP, and a client
may stall; the run turns the last two off (`MayUdp`, `MayStall`), the theorems do not.  Three
definitions say what a loop of one thread already guarantees, to keep the product of the
parts small: no second passes while a step of the server is ready (`Settled`), a `drain()`
with room in the socket's buffers returns at once (`Flushing`), and a new task takes a
fixed one of the free identities (`Canonical`).

`System` does not assume `Stream`'s `Quiesced`; it finds out.  `stop()` closes the
connections it knows.  Up to Python 3.11 a client that was accepted but whose
`_client` has not started is missed, is served on, and its DESCRIBE may start a
supervisor while `hub.stop()` waits for the old one: `OneConnection` of `Stream`,
which speaks of tasks, does not hold here.  What the DVR sees is `OneHolder`,
which speaks of connections, and that holds until `Stream.stop()` is over: the new task
starts only after the old one has finished.

It does not hold to the end of the process.  With two such clients, the `touch` of one makes
a second supervisor before `stop()` resumes; line 125 forgets it; and the `touch` of the
other, before `_serve` has returned, makes a third.  Two connections then last for as long
as the slowest stream takes to stop.  No document or test of the repository says anything of that
moment, so this is no finding, and `OneHolder` and `DeviceSlot` stop at `stopped`.

`ServerAssumption`, `StreamAssumption` and `SystemAssumption` are the assumptions of the
two parts, and of `System` itself, for its constants.

## 3. The runs

| Run | Expect | What it shows |
|---|---|---|
| `stream_on_demand` | pass | an on-demand stream whose driver fails and crashes, with `stop()`: `TypeOK`, `OneConnection`, `ReadyBacked`, `NotIdledWhileDescribing`, `NoGapWithinConnection`, `ViewerKeepsStream`, and the refinement `ImplementsDeviceSlot` |
| `stream_always_on` | pass | an always-on stream: `ReadyMeansCurrent`, `NoStaleSets`, `NoStranded`, and `KeepsReconnecting` under fairness |
| `rtsp_sessions` | pass | two connections and a limit of one: `TypeOK`, `AtMostMax`, `SubscriberHasPump`, `SocketsOwned`, `PumpHasTransport`, `NoZombie`, `LockHeld` |
| `netdvr3` | pass | `TypeOK`, `NoSplice`, `SoundKept`, `HeaderUnderMagic`, `BufferBounded`, `YieldedInOrder`, and the refinement `ImplementsFrameSource`, for every short stream of frames and damage, magics anywhere in it, sent at any moment |
| `media` | pass | `NalsArrive`, `UnitFramed`, `NoGapSeen`, `MapperForward`, `ClocklessAdvance`, `MediaTypeOK` |
| `system` | pass | the bridge: `TypeOK`, `OneHolder`, the refinement `BridgeKeepsSlot`, `DeviceReleased`, `ShutdownEnds`, `ConnectionsEnd` |
| `stream_stranded` | violation | `NoStranded` does not hold on demand |
| `stream_stale_sets` | violation | `ReadyMeansCurrent` does not hold on demand |
| `stream_undecodable` | violation | `Decodable` does not hold across a reconnect |
| `describe_without_sets` | violation | `DescribeHasSets`: a DESCRIBE may resume when its parameter sets are gone again |
| `rtsp_unstarted_pump` | violation | `SubscriberHasPump` does not hold when reads do not yield |
| `timestamp_reconnect` | violation | `TimelineForward` does not hold across a reconnect |

The six violations are disagreements between the code and what its own
comments and tests say; `findings` quotes the lines.

### Bounds

* Two clients: one arrives while the other leaves, or one waits in DESCRIBE
  while the other plays.  Clients interact only through the stream's shared
  state, so a third adds no new pair.
* Two task identities: the running supervisor and its successor.
* `QMax = 1`: a queue that fills at once makes overflow, the drop until the next
  keyframe and the recovery reachable in a few steps.  The proofs hold for
  any size.
* `Linger`, `StableReset`, `BackoffStart` are 1 and `BackoffCap` 2 or 4:
  one doubling below the cap and one at it, a connection younger and one older
  than `StableReset`, idle before and after `linger`.  `DescribeTimeout` equals
  `Linger`, as the two defaults do (10 s): the largest wait for which
  `NotIdledWhileDescribing` promises anything.
* `RtspServer`: two connections and a limit of one make the limit bind; they
  meet only at the limit and in `stop()`, which treats each alike.
* `NetDvr3`: four segments are damage, or a frame with a magic in it, with sound frames
  before and behind, and the header that has to follow. With `LenMod = 4` a body
  of 0 or 3 bytes has a true length and one of 4 wraps; the one of 3 holds a magic and ends as
  another begins, the one of 4 holds two. One of the two leads begins with a magic's second
  byte, so that a body or a piece of garbage before it makes a magic across the border.
  Garbage is shorter than `Lead`, holds a magic with a start code that is not where a
  header has it, or is longer than a chunk, and two long pieces make
  `_resync` give up (`MaxFrame = 14`). The device may fall silent between any two
  segments. `Chunk = 4` is shorter than any frame, so reads end at every byte of a header. The
  preamble is within `MaxPreamble`, and with long garbage behind it exceeds it.
* `Media`: an MTU of 4 leaves two bytes to a fragment, so NAL units of 1 to 9 bytes are
  shorter than it, as long, one longer, and cut into two, three and four pieces with and
  without a rest. Start codes have both lengths in every order, with nothing, a header
  or zeros before the first; one NAL unit holds an emulation prevention byte; some
  access units have no NAL unit. `SeqSpace = 7` wraps inside an access unit and between
  two, at every place.
* `TimestampMapper`: the moduli are 6 and 13 in `Media`, 12 and 16 in
  `timestamp_reconnect`, with a longest step of 3 ms, 6 units and below half of either range, so wraps, jumps in both directions,
  glitches and repeats all occur; one reconnect is enough to relate two mappers.
* `System`: one connection, over TCP and reading, `Linger = StableReset = 0`, keyframes with
  their sets only, `QMax = 1`, no other stream.  The questions are what is given back when a client goes at
  any await and whether everything ends, and frames and timers matter to them
  only as what lets the supervisor decide; the parts' own runs have the rest.
  The backoff is always the first one here (`BackoffCap = 1`), so `StableReset`
  plays no part.

Symmetry over clients, tasks and connections is used in runs that check safety
only; nothing in those modules distinguishes one identity from another.

### Fairness

`Stream`: the loop runs what is ready and the clock moves (`Tick`, `Start`,
`BackoffEnd`, `Cancelled`, `StopEnd`, the replies of `wait_ready`); a driver
that stays connected yields, because the connect and each read have a timeout
(`netdvr3.py` 91, 124, 147), and it need never end; closing a driver ends.  Clients owe
nothing.  There is one thing the code does not bound: a device that sends
damaged frames for ever keeps `_resync` and the frame loop going with neither a
frame nor an error.  Under the fairness stated here that does not happen; see
the hazard at `netdvr3.py` 184.

`System`: every task of a connection, of the closers `stop()` runs and of the
stream runs when it can (`LoopStep`, `PumpStep`, `CloserStep`, `TaskWork`), the
clock moves, and `_serve` goes from one `stop()` to the next and returns.  A silent client
meets `IDLE_TIMEOUT` (`ReadFails`).  A transport that is closing goes when its
client reads what is left (`SocketCloses`, strong because it is disabled and
enabled again while the loop closes it).  All of it only until the process ends
(`Live`).  No client is made to send or leave.  The run sets `MayStall` to
FALSE: `close()` awaits `wait_closed()` with no timeout and the pump holds the
write lock in `drain()`, so a client that never reads again does hold up its
own connection, and `stop()`.

## 4. What is proved

For any clients, connections, tasks, frames, access units, byte streams, queue size,
timers, sizes and moduli that satisfy the named assumptions of the modules.

| Module | Theorem | States |
|---|---|---|
| `StreamProofs` | `TypeCorrect` | `Spec => []TypeOK` |
| | `OneConnectionHolds` | with `Quiesced`, `Spec => []OneConnection` |
| | `ReadyBackedHolds` | `Spec => []ReadyBacked` |
| | `NoGapHolds` | `Spec => []NoGapWithinConnection` |
| | `ViewerKept` | with `Quiesced`, `Spec => ViewerKeepsStream` |
| | `AlwaysOnReadyCurrent`, `AlwaysOnNoStaleSets`, `AlwaysOnNoStranded` | with `AlwaysOnServed` (always on, `Quiesced`, a driver that raises only what `_run` catches), `ReadyMeansCurrent`, `NoStaleSets` and `NoStranded` |
| `StreamRefinement` | `DescribeKeepsStream` | `Spec => []NotIdledWhileDescribing`, whose premise is `DescribeTimeout <= Linger` |
| | `StreamImplementsSlot` | with `Quiesced`, `Spec => ImplementsDeviceSlot` |
| `RtspProofs` | `ServerTyped`, `WriteLockHeld`, `NoSocketLeaks`, `FloodGuard` | `TypeOK`, `LockHeld`, `SocketsOwned`, `AtMostMax` |
| `PumpProofs` | `PumpsHaveTransports`, `NoZombies` | `PumpHasTransport`, `NoZombie` |
| | `SubscribersHavePumps` | with `Python311`, `SubscriberHasPump` |
| `SystemProofs` | `SystemRunsServer`, `SystemRunsStream` | `Spec => R!Spec`, `Spec => S!Spec` |
| | `OneHolderHolds` | `Spec => []OneHolder` |
| | `CondemnedEnd`, `StoppingEnds` | what `ConnectionsEnd` and `ShutdownEnds` say, as leads-to |
| `BridgeProofs` | `BridgeTyped` | `Spec => []TypeOK`, of `System` |
| | `BridgeKeepsConnections` | in `System`: `LockHeld`, `SocketsOwned`, `AtMostMax`, `PumpHasTransport`, `NoZombie` |
| | `BridgeKeepsStream` | in `System`: `ReadyBacked`, `NoGapWithinConnection`, `NotIdledWhileDescribing` |
| | `BridgeKeepsViewer` | in `System`: `ViewerKeepsStream` |
| | `AlwaysOnBridge` | always on, with a driver that raises only what `_run` catches: while the hub is up, `ReadyMeansCurrent`, `NoStaleSets` and `NoStranded` hold in `System` |
| | `BridgeImplementsSlot` | `Spec => BridgeKeepsSlot` |
| `NetDvr3Proofs` | `ParserTyped`, `NothingSpliced`, `SoundFramesKept`, `HeadersUnderMagic`, `BufferStaysBounded` | `TypeOK`, `NoSplice`, `SoundKept`, `HeaderUnderMagic`, `BufferBounded` |
| | `InOrder` | `Spec => YieldedInOrder` |
| | `ParserIsFrameSource` | `Spec => ImplementsFrameSource` |
| `MediaProofs` | `MapperGoesForward`, `ClocklessFramesAdvance` | `MapperForward`, `ClocklessAdvance`, of `TimestampMapper`'s `Spec` |
| | `MediaTyped`, `NalsReachViewer`, `UnitsAreFramed`, `NumbersHaveNoGap` | `MediaTypeOK`, `NalsArrive`, `UnitFramed`, `NoGapSeen`, of `MediaSpec` |
| | `MediaRunsMapper`, `ViewerTimeForward` | `MediaSpec => Spec`, and with it the mapper's two properties |

The condition of a theorem is an `ASSUME` of its own, and the runs that expect a
violation show that it is needed: without `AlwaysOnServed`, `NoStranded` and
`ReadyMeansCurrent` fail; without `Python311`, `SubscriberHasPump` does.  In `System` nothing
stands for `Quiesced`: its theorems are about the callers it really has.

The arguments.

* `Stream`'s `TypeOK` is inductive; the work is in the bounds of backoff, timers
  and queues, stated as lemmas about `Doubled`, `UpTo`, `Down` and `Deliver`.
* `OneConnection` is not inductive: `stop()` clears the handle when the task
  it cancelled is dead, and a state where the handle already names another task
  would lose that one.  `StopKeepsHandle` says that while `stop()` waits, the
  handle still is the task it cancelled; it needs `Quiesced`, because only a
  client's `touch` could replace it.  `OneConnectionInv` is `TypeOK`,
  `OneConnection` and `StopKeepsHandle` together.
* `ReadyBacked` is inductive with `TypeOK` alone: every path that drops the sets or
  leaves the connection clears `_ready` in the same step.
* `NoGapWithinConnection` speaks of queued items, while the decision is made
  from `waiting_key`.  `GapMeansWaiting` links them: whoever has missed a frame
  of this connection is waiting for a keyframe.
* `ViewerKept` is an action property and follows from `OneConnectionInv` and
  the cases of `Next`.
* `DescribeKeepsStream` rests on `WaitBounded`: as long as a DESCRIBE waits, the
  time since the last activity and the time left to wait add up to no more than
  the timeout, because `touch` starts both and a tick moves one up and the other
  down.  The idle check, which wants more than `Linger`, then cannot come true
  first.
* `StreamImplementsSlot` maps every action of `Stream` to one of `DeviceSlot` or
  a stutter.  It needs `SlotInv`: `OneConnectionInv`, so that a connection is
  only made while no other task holds one, and `StoppedEmpty`, so that nobody
  joins or connects once the hub has stopped.
* `AlwaysOnInv` adds three parts to `OneConnectionInv`: `Kept` (no supervisor ends
  while the hub is up), `Served` (the handle's task lives) and `Current` (no cached
  set is of an earlier connection).  The last is what fails on demand, where an
  idle exit keeps the sets.
* `MapperForward` needs the difference of two 32-bit values as it is computed, by
  `%`, to be the step taken.  `StepModulo` proves that for any step below the
  modulus from three facts about `%` that the SMT solver knows (`ModSmall`,
  `ModOver`, `ModUnder`); the rest bounds `Delta`.  `StepAssumption` asks more, that the
  longest step be below half the modulus (450000 and 2^32 in the code), without which a
  receiver would take it for a step back and `Forward` would not mean forward.
* `RtspServer`'s connections step alone, so its invariants are sets of records:
  `Sound` holds what `TypeOK`, `LockHeld` and `SocketsOwned` say of one connection.
  A lemma for each helper of the model says which part of a sound record it
  keeps, `ConnectionStep` that every action changes one connection to a sound
  one.  `FloodGuard` is then a counting argument: only `_client` adds to `Known`,
  and it adds one when there are fewer than `max_connections` (`Limited`);
  everything else stays outside or goes (`StaysOutside`).
* `PumpProofs` strengthens the three properties of the pump to `Tidy`, the
  conjunction of `Wary` (who has cancelled a pump waits for it, and a pump that died
  under a request loop has closed the socket), `Playing` (until `stop()`, a pump
  that runs, or that the response being sent announces, has a stream and a
  transport) and `Registered` (a subscription is that of a pump whose `finally` is to
  come).  Every piece of a handler keeps `Tidy`.
* `SystemProofs` shows that a joint step is a step, or a stutter, of each part, so
  that every invariant proved of `RtspServer`, and of `Stream` without `Quiesced`,
  holds in `System`.  `OneHolder` has an invariant of its own, `HolderInv`: until
  the hub has stopped, the only live supervisor is the handle's.  `StaysStopped` is why nothing need be
  known of what comes after.
* `AgreeInv` says that server and hub agree on who is subscribed and who waits in DESCRIBE.
  In the model it holds because the two are joined in one step; it is no property of the
  code, but what the proofs about the bridge need to speak of the two sides as one.  Its
  proof follows each step of a connection into what it registers and
  each step of the stream into whom it serves.  Lemmas for the helpers say how a
  connection's record changes: `Same` (neither loop nor registration), `Goes` (the
  request loop moves on), `Moves` (`StartPlay` adds one subscriber at most,
  `PumpFinally` gives one back).  `SubscriberMoves` and `WaiterMoves` say what a call
  does to `client`, `TasksServe` that a supervisor can only wake a waiting DESCRIBE.
  `CallStream` makes the two sides move together.
* `BridgeProofs` instantiates the proof modules of the parts: `RP` is `PumpProofs` and `SP`
  is `StreamRefinement`, over `System`'s own variables.  Their theorems hold of `System`
  when `System`'s constants meet the parts' assumptions (`Parameters`) and `System` runs
  their specifications (`RunsRP`, `RunsSP`); the steps of `R` and `RP` are one formula,
  which is seen by unfolding both.  `BridgeTyped`, `BridgeKeepsConnections` and
  `BridgeKeepsStream` follow.
* `System`'s callers do not all stop before the stream is stopped, so what the stream keeps
  only for callers that do needs another argument.  `HP` is the stream with `Quiesced`.  `WhileUp`: a step of
  `System` after which the hub is still up is a step of `HP`, for up to then the guard
  that `Quiesced` adds has no effect.  So the inductive invariants of `StreamProofs`,
  `OneConnectionInv` and `AlwaysOnInv`, hold until the hub is stopped, and they give
  `BridgeKeepsViewer` and `AlwaysOnBridge`.
* `BridgeImplementsSlot` maps every step of `System` to one of `DeviceSlot` or a stutter.
  A connection's step is a join or a leave by what it does to `registered`; a supervisor
  takes, loses and releases the slot as in `StreamImplementsSlot`, except that late
  clients may make a new one while the hub stops, so `HolderInv` takes the place of
  `OneConnectionInv`.  `SlotInv` adds `AgreeInv` (the stream keeps itself for those whom the
  server has registered), `NoDescribePlays` (a waiting DESCRIBE is no subscriber) and
  `StopCancels` (a supervisor is cancelled by `stop()` only).
* `NetDvr3Proofs` has the invariant `Inv`.  Four parts describe what the parser works
  on: `Segmented` and `Framed` (segments lie one behind the other; a frame has its
  magic, length and start code where they belong), `Unforged`, and `Window` (the buffer is
  the last bytes of those read).  `FindMagic` turns a `find(MAGIC)` in the buffer into a
  statement about `Magics`, the places of magics in the stream, and the rest of the
  proof no longer speaks of bytes.  `AtHeader` says what the buffer begins with in each
  place of `frames()`: a magic that is a frame's or a false one, and it gives
  `HeaderUnderMagic`.  At a false one `Deliver` finds no start code, by `Unforged`; at a
  frame's whose length wrapped it finds no magic: that is `NoSplice`.  `Passed` is
  `SoundKept` made inductive: it speaks of every clear frame whose first byte is behind
  the parser, also of one that is `Refuted` because what was sent behind it is no header,
  and of the last one sent, whose successor may still come.  The parser drops bytes in three
  ways (`ToHeader`, past a candidate or a skipped magic, and the tail of a scan), and for
  each it has to be shown that the first byte of no clear frame is among them unless
  that frame was yielded or refuted: by `ClearIs` and `MagicInWindow`, the frame's own magic
  would be the first that `find` sees (`RescanCuts`).  `BufferBounded` is inductive
  because each turn of the scan either leaves a short tail or passes a magic, which
  `LimitGrows` pays the next chunk with; `Counters` charges a resync to the bytes that it
  leaves behind.  `Behind` keeps what was yielded behind the parser and gives
  `YieldedInOrder`: a payload begins a header's length ahead of the parser.
  What the device sends can complete a magic across its border and so make a frame
  sound, or an old one unclear: `Sending` and `SendingKeeps` say what it leaves as it is.
* `ParserIsFrameSource` reads the same invariant for a unit's number.  `DeliveringIsYield`:
  a payload is a sound frame's access unit (`NoSplice`, after the step), that frame is at the
  parser, so none was yielded from there (`Behind`), and every sound frame before it has been
  passed and so was yielded, or is not clear (`Passed`): it is the first one left, hidden ones
  apart.  `SoundBySending` and `SendingIsSends`: what the device sends next decides whether
  the frame before it was whole and nothing else about the frames there are, and no payload
  was taken of that one yet.
* `MediaInv` says how far the two loops have come.  `SplitSoFar`: `nals` are the first
  NAL units of the access unit and `code` is the start code of the next.  The step
  rests on `FindsNext`, `FindsNoMore` (the least position with a start code is
  the next NAL unit's, by `AnnexBUnit`) and `StripsZeros` (stripping ends at the NAL
  unit's own last byte, whether the next start code has three bytes or four).
  `SentSoFar`: the receiver has the NAL units before `cur`, and of that one its first
  `off + 1` bytes, the first of them rebuilt from indicator and header.  `HeaderBits` is
  the bit arithmetic of that, for every byte; `TakesPiece` and `PieceFollows` join the
  next piece to them.  `Numbered` says that `seq` follows the last number given out,
  which is in `out` or, between two access units, in `last`.

Model-checked only:

* liveness (`KeepsReconnecting`, `DeviceReleased`, `ShutdownEnds`,
  `ConnectionsEnd`), which rests on fairness and is outside what the prover does.
  What is proved is what the last three say.  They are written with `[]<>`, which TLC
  checks on the state graph itself, where each `~>` would need a graph of its own.
  `StoppingEnds` proves that `ShutdownEnds` is `server = "stopping" ~> exited`, and
  `CondemnedEnd` that `ConnectionsEnd` is `Condemned(c) ~> Over(c)` of every connection:
  no step makes a server that stops serve again, opens a closed socket or takes a closer
  away (`StepMarked`).  `DeviceReleased` says of its parts `P` and `Q` that `P` does not
  last for ever without `Q`, which is `P ~> (~P \/ Q)` by logic alone.

No theorem speaks of what a recursive definition computes, which would need induction
over data: the loops that matter are state machines with a step per turn, and the
only other searches, `find` and the stripping of zeros, are minima and maxima of sets.

## 5. Not modelled

* `AnnexBSplitter`: only the tests use it.  `parse_sps` reads one number after
  another from a bit string; `build_sdp` and `config.py` make text and values from
  text, once, and keep no state.
* `probe` and `cat`: one-shot, sequential, nothing runs beside them.
* `testing.py`, the tests' fake device.
* RTCP sender reports and the counters they read (`packets_sent`, `octets_sent`);
  `frames_relayed`, `reconnects`, `dropped`: nothing depends on them.
* Basic authentication beyond "accepted or turned down".
* `StreamHub.add` and `get`: no change after start-up.  `StreamHub.stop` gathers
  the streams' `stop()`: streams share nothing, so the model has one, and `OtherStreams`
  says only that the rest may take longer.
* What `asyncio.run` cancels once `_serve` has returned.
* A device that forges a frame, or loses bytes of one (2.3).
* The start packet and the preamble's metadata (`netdvr3.py` 38-52, 97-120).
* NAL units of type 24 and above: the packetizer passes them through as it does
  any other, and no device sends them.
* Behaviour noticed while modelling that no property is about: a DESCRIBE does
  not cut a backoff short; a subscriber that arrives during a failed driver's
  close has its `_wake` cleared before the backoff; a SETUP refused for its
  channel range leaves `interleaved` set, and a PLAY after it is answered 200; the
  pump holds the write lock in `drain()` for as long as a client does not read; a
  device that sends damaged frames for ever keeps the driver in its loop.  The
  models of 2.1 and 2.2 reach the first four; `hazards` says of each why it has
  no property.

## 6. Plan

What the project could still gain:

1. A larger `System`: two connections, one leaving while the other describes.
   `OneHolderHolds` and the theorems of `BridgeProofs` hold for any number of them; the liveness properties are checked for one, whose state space is already the largest of
   the runs.
2. The hub's queue and `Media` as one: `Stream` decides which items a viewer gets,
   `Media` what becomes of each.  `NoGapWithinConnection` and `NalsArrive` then say
   together what a viewer decodes.
3. `NetDvr3` with bytes that vanish, and how often `NoSplice` can then fail.
