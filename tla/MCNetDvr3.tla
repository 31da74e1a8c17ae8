------------------------------ MODULE MCNetDvr3 ------------------------------
(* Small instances of NetDvr3 for TLC. *)
EXTENDS NetDvr3

\* a seq_a that ends a magic begun before it, and one that does not
MCLeads == {<<Other, Other>>, <<M2, Other>>}

\* an empty unit, one that holds a magic and ends as another begins, and one with
\* two magics whose length wraps
MCBodies == {<<>>, <<M1, M2, M1>>, <<M1, M2, M1, M2>>}

\* shorter than a header's lead, holding a magic, and long enough for _resync to
\* give up
MCGarbage == {<<M1>>, <<Other, M1, M2, StartCode>>, Plain(9)}
=============================================================================
