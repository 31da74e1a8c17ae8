----------------------------- MODULE DeviceSlot -----------------------------
(***************************************************************************)
(* What a Stream promises the DVR, whose boards serve a handful of         *)
(* connections (hub.py, lines 4-7): at most one connection to a channel at *)
(* a time, made only while somebody wants it, and let go under a viewer    *)
(* only because the device failed or the bridge is shutting down.          *)
(* Stream implements it (Stream!ImplementsDeviceSlot).                     *)
(***************************************************************************)
CONSTANTS
  Clients, Holders,  \* who may watch; who may hold the connection
  AlwaysOn,          \* the channel is wanted without a viewer
  LateCalls          \* clients may still call while the hub stops

VARIABLES
  slot,     \* slot[h]: what h has to do with the connection
  viewers,  \* the clients being served
  asked,    \* somebody used the stream within its linger
  serving   \* the hub is "up", "stopping" or "stopped"

slotVars == <<slot, viewers, asked, serving>>

\* a connection is let go for one of three reasons
Releasing == {"idle", "failed", "stopped"}
SlotStates == {"free", "held"} \cup Releasing

Wanted == AlwaysOn \/ viewers # {} \/ asked

SlotInit == /\ slot = [h \in Holders |-> "free"]
            /\ viewers = {} /\ asked = TRUE /\ serving = "up"

Become(h, state) ==
  slot' = [slot EXCEPT ![h] = state] /\ UNCHANGED <<viewers, asked, serving>>

\* a hub that has stopped keeps its promise to late callers no longer
Connect(h) ==
  /\ serving = "up" \/ LateCalls
  /\ Wanted
  /\ slot[h] = "free" /\ (serving # "stopped" => \A g \in Holders : slot[g] = "free")
  /\ Become(h, "held")

LetGo(h) == slot[h] = "held" /\ ~Wanted /\ Become(h, "idle")
Lose(h) == slot[h] = "held" /\ Become(h, "failed")
Withdraw(h) == slot[h] = "held" /\ serving # "up" /\ Become(h, "stopped")
Released(h) == slot[h] \in Releasing /\ Become(h, "free")

Ask == asked' = TRUE /\ UNCHANGED <<slot, viewers, serving>>

\* a client comes or goes: both count as use
Join(c) == viewers' = viewers \cup {c} /\ asked' = TRUE /\ UNCHANGED <<slot, serving>>
Leave(c) == viewers' = viewers \ {c} /\ asked' = TRUE /\ UNCHANGED <<slot, serving>>

LingerOver == asked' = FALSE /\ UNCHANGED <<slot, viewers, serving>>
ShutDown == /\ <<serving, serving'>> \in {<<"up", "stopping">>, <<"up", "stopped">>,
                                         <<"stopping", "stopped">>}
            /\ UNCHANGED <<slot, viewers, asked>>

SlotNext ==
  \/ \E h \in Holders : Connect(h) \/ LetGo(h) \/ Lose(h) \/ Withdraw(h) \/ Released(h)
  \/ \E c \in Clients : Join(c) \/ Leave(c)
  \/ Ask \/ LingerOver \/ ShutDown

SlotSpec == SlotInit /\ [][SlotNext]_slotVars
=============================================================================
