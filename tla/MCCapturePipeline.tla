------------------------- MODULE MCCapturePipeline -------------------------
(***************************************************************************)
(* Instances of CapturePipeline for TLC.                                   *)
(***************************************************************************)
EXTENDS CapturePipeline, TLC

CONSTANTS p1, p2, p3, k1, k2

\* The photos Gemini may group are alike, and so are the keys of a client.
Alike == Permutations({p1, p2}) \cup Permutations({k1, k2})
=============================================================================
