-------------------------- MODULE TimestampMapper --------------------------
(***************************************************************************)
(* hub.py's TimestampMapper, which turns device milliseconds into a 90 kHz *)
(* RTP timeline, and the stamps a subscriber sees while `_run` makes a new *)
(* mapper for every connection.  Device clocks are arbitrary: they jump,   *)
(* wrap, repeat and go missing.                                            *)
(***************************************************************************)
EXTENDS Integers

CONSTANTS
  MsMod,       \* device milliseconds wrap here (2^32)
  RtpMod,      \* RTP timestamps wrap here (2^32)
  MaxDelta,    \* the longest step taken at its word (5000 ms)
  TypicalMs,   \* the first guess of a frame's length (100 ms)
  Rate,        \* RTP units in a millisecond (90)
  MaxElapsed,  \* bound on the time between two frames
  Reconnects   \* connections after the first, at most

ASSUME ModuliAssumption == MsMod \in Nat \ {0} /\ RtpMod \in Nat \ {0}
ASSUME StepAssumption == /\ MaxDelta \in Nat \ {0} /\ Rate \in Nat \ {0}
                         /\ TypicalMs \in 1 .. MaxDelta
                         /\ 2 * (MaxDelta * Rate) < RtpMod    \* forward from back
ASSUME LimitsAssumption == MaxElapsed \in Nat /\ Reconnects \in Nat

None == -1                    \* a timestamp the device did not send
Stamps == 0 .. MsMod - 1

VARIABLES
  lastMs,      \* _last_ms
  started,     \* _last_wall is not None
  typical,     \* _typical_ms
  rtp,         \* _rtp
  sent,        \* ts90k of the last frame sent, None before the first
  connections  \* connections made after the first

vars == <<lastMs, started, typical, rtp, sent, connections>>

FreshMapper == /\ lastMs' = None /\ started' = FALSE
               /\ typical' = TypicalMs /\ rtp' = 0

Init == /\ lastMs = None /\ started = FALSE /\ typical = TypicalMs /\ rtp = 0
        /\ sent = None /\ connections = 0

Clamp(n, lo, hi) == IF n < lo THEN lo ELSE IF n > hi THEN hi ELSE n

\* `(ts_ms - self._last_ms) & 0xFFFFFFFF`
DeviceDelta(ts) == (ts - lastMs) % MsMod

\* faulty variant: two frames in one tick of the wall clock do not move on
WallDeltaUnfloored(elapsed) == IF started THEN Clamp(elapsed, 0, MaxDelta) ELSE 0

\* no device clock to go by: the wall clock, `elapsed` since the last frame
WallDelta(elapsed) == IF started THEN Clamp(elapsed, 1, MaxDelta) ELSE 0

\* faulty variant: every device delta is believed
GlitchNever(ts) == FALSE

Glitch(ts) == DeviceDelta(ts) > MaxDelta

Delta(ts, elapsed) ==
  IF ts = None \/ lastMs = None THEN WallDelta(elapsed)
  ELSE IF Glitch(ts) THEN typical ELSE DeviceDelta(ts)

\* the moving average lies between its old value and the new delta
Average(d) == IF d < typical THEN d .. typical ELSE typical .. d

\* faulty variant: a repeated timestamp is averaged in
LearnsRepeats(ts) == ts # None /\ lastMs # None /\ ~Glitch(ts)

Learns(ts) == ts # None /\ lastMs # None /\ ~Glitch(ts) /\ DeviceDelta(ts) > 0

Advance(delta) == (rtp + delta * Rate) % RtpMod

Map(ts, elapsed) ==
  /\ rtp' = Advance(Delta(ts, elapsed))
  /\ typical' \in IF Learns(ts) THEN Average(DeviceDelta(ts)) ELSE {typical}
  /\ lastMs' = ts
  /\ started' = TRUE
  /\ sent' = rtp'
  /\ UNCHANGED connections

\* _run makes a new mapper for every connection
Reconnect ==
  /\ connections < Reconnects
  /\ connections' = connections + 1
  /\ FreshMapper
  /\ UNCHANGED sent

Next == \/ \E ts \in Stamps \cup {None}, elapsed \in 0 .. MaxElapsed : Map(ts, elapsed)
        \/ Reconnect

Spec == Init /\ [][Next]_vars

-----------------------------------------------------------------------------
TypeOK == /\ lastMs \in Stamps \cup {None} /\ started \in BOOLEAN
          /\ typical \in 1 .. MaxDelta
          /\ rtp \in 0 .. RtpMod - 1
          /\ sent \in (0 .. RtpMod - 1) \cup {None}
          /\ connections \in 0 .. Reconnects

\* The mapper never steps backwards, nor further than its longest delta, read
\* as RTP receivers read a timestamp that wraps.
Forward(old, new) == (new - old) % RtpMod <= MaxDelta * Rate
MapperForward == [][connections' = connections => Forward(rtp, rtp')]_vars

\* The timeline a subscriber sees never goes backwards, reconnects included.
TimelineForward == [][sent # None => Forward(sent, sent')]_vars

\* A frame without a clock of its own moves the timeline: it never shares the stamp of
\* the frame before it, however soon it follows.
ClocklessAdvance ==
  [][connections' = connections /\ started /\ lastMs' = None => rtp' # rtp]_vars
=============================================================================
