-------------------------- MODULE MCTranscriptView --------------------------
(* Instances of TranscriptView.                                            *)
EXTENDS TranscriptView
=============================================================================
