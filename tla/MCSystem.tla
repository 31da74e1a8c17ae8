------------------------------ MODULE MCSystem ------------------------------
(* Small instances of System for TLC. *)
EXTENDS System

\* what the clients of a stream depend on: keyframes with parameter sets
Keyframes == {[nals |-> {"SPS", "PPS", "VCL"}, key |-> TRUE]}
=============================================================================
