-------------------------- MODULE MCTranscriptSync --------------------------
(* Small instances of TranscriptSync: the constants are all bounds, given  *)
(* by the configurations.                                                  *)
EXTENDS TranscriptSync
=============================================================================
