------------------------------- MODULE MCKeys -------------------------------
(* Instances of KeyRouting: four actions of the keymap, one of them with   *)
(* two combinations.                                                       *)
EXTENDS KeyRouting

MCDefaults ==
    [filter |-> {"/"}, help |-> {"?", "F1"}, logs |-> {"L"}, move_down |-> {"j"}]

MCRank == [filter |-> 1, help |-> 2, logs |-> 3, move_down |-> 4]
=============================================================================
