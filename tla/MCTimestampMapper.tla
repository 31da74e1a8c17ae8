------------------------- MODULE MCTimestampMapper -------------------------
(* Small instances of TimestampMapper for TLC. *)
EXTENDS TimestampMapper
=============================================================================
