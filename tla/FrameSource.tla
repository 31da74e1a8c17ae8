---------------------------- MODULE FrameSource ----------------------------
(***************************************************************************)
(* What a driver promises the hub over one connection (drivers/base.py):   *)
(* the access units the device sent whole, each at most once and in their  *)
(* order, one at a time and each when it is asked for, and nothing else.   *)
(* A unit may be left out only if its beginning is hidden, as by a false   *)
(* magic that runs into it.  Once ended it yields no more.  NetDvr3        *)
(* implements it (NetDvr3!ImplementsFrameSource).                          *)
(***************************************************************************)
EXTENDS Integers

CONSTANT Numbers    \* what the units are numbered with, as they are sent

VARIABLES
  whole,     \* the units the device sent whole
  hidden,    \* those of them whose beginning is hidden
  yielded,   \* those of them that were yielded
  state      \* the generator: "fetching", "handed" (a unit out) or "ended"

sourceVars == <<whole, hidden, yielded, state>>

SourceInit == whole = {} /\ hidden = {} /\ yielded = {} /\ state = "fetching"

Sends(i) == /\ state # "ended" /\ \A j \in whole : j < i
            /\ whole' = whole \cup {i} /\ hidden' \in {hidden, hidden \cup {i}}
            /\ UNCHANGED <<yielded, state>>

\* the next unit, or one behind hidden ones
Yield(i) == /\ state = "fetching"
            /\ i \in whole /\ \A j \in yielded : j < i
            /\ \A j \in whole \ (yielded \cup hidden) : i <= j
            /\ yielded' = yielded \cup {i} /\ state' = "handed"
            /\ UNCHANGED <<whole, hidden>>

\* the hub asks for the next
Asked == state = "handed" /\ state' = "fetching" /\ UNCHANGED <<whole, hidden, yielded>>

\* the device is lost, or the hub closes the generator
Ends == state # "ended" /\ state' = "ended" /\ UNCHANGED <<whole, hidden, yielded>>

SourceNext == (\E i \in Numbers : Sends(i) \/ Yield(i)) \/ Asked \/ Ends

SourceSpec == SourceInit /\ [][SourceNext]_sourceVars
=============================================================================
