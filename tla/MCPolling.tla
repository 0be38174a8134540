----------------------------- MODULE MCPolling -----------------------------
(* Instances of Polling.                                                   *)
EXTENDS Polling
=============================================================================
