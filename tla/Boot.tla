-------------------------------- MODULE Boot --------------------------------
(***************************************************************************)
(* The process and the model it runs: Startup hands over what the          *)
(* workspace resolution returned to Onboarding, and ends when the update   *)
(* loop does (app.rs:23, runtime::run); whatever ends the process ends the *)
(* model.                                                                  *)
(***************************************************************************)
EXTENDS Startup, Onboarding

vars == <<startupVars, onboardingVars>>

TypeOK == StartupTypeOK /\ OnboardingTypeOK

Init == StartupInit /\ OnboardingInit

(* tail has a model of its own, which reads no workspace.                  *)
HandOver ==
    CASE phase # "running" /\ phase' = "running" /\ command = "tui" -> Open(resolution'.kind)
      [] open /\ phase' = "exited" -> Close
      [] OTHER -> UNCHANGED onboardingVars

ProcessStep == StartupNext /\ HandOver

ModelStep == OnboardingNext /\ UNCHANGED startupVars

(* q, Ctrl+C, or a terminal that cannot be drawn on.                       *)
Quit ==
    /\ phase = "running"
    /\ Return("ok") \/ Return("error")
    /\ IF open THEN Close ELSE UNCHANGED onboardingVars

Next == ProcessStep \/ ModelStep \/ Quit

Spec == Init /\ [][Next]_vars /\ StartupFairness /\ OnboardingFairness

=============================================================================
