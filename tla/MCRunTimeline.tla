--------------------------- MODULE MCRunTimeline ---------------------------
(* Instances of RunTimeline.                                               *)
EXTENDS RunTimeline
=============================================================================
