----------------------------- MODULE MCReshaper -----------------------------
(* A shape with a skip and one with an overlap: the ring is longer than the  *)
(* latency of the first, whose skip it cannot hold, and shorter than that of *)
(* the second; frames of the input may be longer than either.                *)
EXTENDS Reshaper

MCShapes == {<<1, 4>>, <<2, -1>>}
=============================================================================
