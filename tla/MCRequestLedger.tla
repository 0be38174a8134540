-------------------------- MODULE MCRequestLedger --------------------------
(* Small instances of RequestLedger: the constants are all bounds, given   *)
(* by the configurations.                                                  *)
EXTENDS RequestLedger
=============================================================================
