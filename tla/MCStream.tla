------------------------------ MODULE MCStream ------------------------------
(* Small instances of Stream for TLC. *)
EXTENDS Stream, TLC

\* a keyframe with its parameter sets, one without, a P-frame, each set alone,
\* a payload with no NAL unit
MCFrames == {[nals |-> {"SPS", "PPS", "VCL"}, key |-> TRUE],
             [nals |-> {"VCL"}, key |-> TRUE],
             [nals |-> {"VCL"}, key |-> FALSE],
             [nals |-> {"SPS"}, key |-> FALSE],
             [nals |-> {"PPS"}, key |-> FALSE],
             [nals |-> {}, key |-> FALSE]}

\* clients and tasks are interchangeable
Symmetry == Permutations(Clients) \cup Permutations(Tasks)
=============================================================================
