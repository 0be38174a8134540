------------------------- MODULE MCStreamLifecycle -------------------------
(* Small instances of StreamLifecycle: sessions, runs, the workspace log    *)
(* scope and workspaces as model values.                                    *)
EXTENDS StreamLifecycle, TLC

CONSTANTS s1, s2, r1, here, w1

TwoSessions == {s1, s2}
OneRun == {r1}
WorkspaceScope == {here}
OneWorkspace == {w1}

(* Sessions are told apart by nothing but their name. *)
SessionSymmetry == Permutations(TwoSessions)
=============================================================================
