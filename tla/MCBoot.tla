------------------------------- MODULE MCBoot -------------------------------
(* Instances of Boot: three registered workspaces, one inside another and  *)
(* one whose root is gone, under two names.                                *)
EXTENDS Boot

CONSTANT gone

Workspace(id, name, root) == [id |-> id, name |-> name, root |-> root]

MCList ==
    <<Workspace("ws_home", "home", <<"home">>),
      Workspace("ws_app", "app", <<"home", "app">>),
      Workspace("ws_old", "app", gone)>>

NoSelector == [by |-> "none", value |-> "none"]
By(kind, value) == [by |-> kind, value |-> value]

Situation(selector, cwd) == [list |-> MCList, selector |-> selector, cwd |-> cwd]

MCSituations ==
    {Situation(NoSelector, <<"home", "app", "src">>),
     Situation(NoSelector, <<"tmp">>),
     Situation(By("name", "app"), <<"tmp">>),
     Situation(By("id", "ws_old"), <<"tmp">>)}
=============================================================================
