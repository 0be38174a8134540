----------------------------- MODULE Onboarding -----------------------------
(***************************************************************************)
(* The model from its first commands to a workspace that is booted: the    *)
(* onboarding overlay of a directory no workspace contains, the picker,    *)
(* the registration of the directory and the three reads of the boot       *)
(* (batuta-tui/src/app/model.rs, update/picker.rs, update/api.rs,          *)
(* update/keys.rs, update/mod.rs).                                         *)
(*                                                                         *)
(* Requests are told apart by a serial number; what happens to ids that    *)
(* are given out again after a switch is in RequestLedger.                 *)
(***************************************************************************)
EXTENDS Integers, FiniteSets

CONSTANTS
    Supports,         \* whether the daemon can add workspaces
    MaxRequests,      \* bound: requests sent
    MaxResizes        \* bound: times the window gets too small

ASSUME OnboardingAssumption ==
    /\ Supports \subseteq BOOLEAN
    /\ {MaxRequests, MaxResizes} \subseteq Nat

VARIABLES
    supported, registered, \* external: the daemon can add, and knows the directory
    open,             \* the update loop runs
    overlay,          \* "none", "onboarding" or "picker"
    flags,            \* those of the onboarding overlay that are set
    candidate,        \* startup_candidate is there
    workspace,        \* "none", "candidate" or "other"
    items,            \* the picker lists something
    bootPending,      \* kinds of the requests in startup_boot_pending
    requests,         \* on their way: [kind, n]
    answers,          \* in the channel: [kind, n, result]
    small, resizes,   \* the window is too small; history, for the bound
    serial            \* history: requests sent

external == <<supported, registered>>
window == <<small, resizes>>
view == <<overlay, flags, items>>
place == <<candidate, workspace, bootPending>>
channel == <<requests, answers, serial>>
onboardingVars == <<external, open, view, place, channel, window>>

Flags == {"confirming", "adding", "booting", "refresh_required", "registration_complete",
          "registration_unsupported"}
BootKinds == {"sessions", "runs", "overview"}
AddResults == {"added", "conflict", "unsupported", "refused", "lost"}
Results == [workspaces |-> {"found", "missing", "error"},
            add |-> AddResults, late_add |-> AddResults,
            sessions |-> {"ok", "error"}, runs |-> {"ok", "error"}, overview |-> {"ok", "error"}]
Kinds == DOMAIN Results

OnboardingTypeOK ==
    /\ supported \in BOOLEAN /\ registered \in BOOLEAN /\ open \in BOOLEAN
    /\ overlay \in {"none", "onboarding", "picker"}
    /\ flags \subseteq Flags
    /\ flags # {} => overlay = "onboarding"
    /\ candidate \in BOOLEAN
    /\ workspace \in {"none", "candidate", "other"}
    /\ items \in BOOLEAN
    /\ bootPending \subseteq BootKinds
    /\ \A kind \in bootPending : \E message \in requests \cup answers : message.kind = kind
    /\ serial \in Nat
    /\ requests \subseteq [kind : Kinds, n : 1..serial]
    /\ \A a \in answers : a.kind \in Kinds /\ a.n \in 1..serial /\ a.result \in Results[a.kind]
    /\ small \in BOOLEAN /\ resizes \in 0..MaxResizes

OnboardingInit ==
    /\ supported \in Supports /\ registered = FALSE
    /\ open = FALSE
    /\ overlay = "none" /\ flags = {} /\ items = FALSE
    /\ candidate = FALSE /\ workspace = "none" /\ bootPending = {}
    /\ requests = {} /\ answers = {} /\ serial = 0
    /\ small = FALSE /\ resizes = 0

-----------------------------------------------------------------------------
Ask(kind) ==
    /\ serial' = serial + 1
    /\ requests' = requests \cup {[kind |-> kind, n |-> serial + 1]}

(* The requests of a boot go out together, under one number.               *)
Boot(keep) ==
    /\ serial' = serial + 1
    /\ requests' = {[kind |-> k, n |-> serial + 1] : k \in BootKinds} \cup keep

ShowOnboarding == overlay' = "onboarding" /\ flags' = {} /\ items' = FALSE

(* What Model::new and initial_cmds make of how the startup ended.         *)
Open(resolution) ==
    /\ ~open /\ open' = TRUE
    /\ IF resolution = "unresolved"
         THEN /\ candidate' = TRUE /\ workspace' = "none"
              /\ ShowOnboarding
              /\ UNCHANGED <<requests, serial>>
         ELSE /\ candidate' = FALSE /\ workspace' = "other"
              /\ Boot({})
              /\ UNCHANGED view
    /\ UNCHANGED <<external, bootPending, answers, window>>

Close == open' = FALSE /\ UNCHANGED <<external, view, place, channel, window>>

-----------------------------------------------------------------------------
(* The daemon: what it answers with is how things were then.               *)

Reply(r, result) ==
    /\ requests' = requests \ {r}
    /\ answers' = answers \cup {[kind |-> r.kind, n |-> r.n, result |-> result]}
    /\ UNCHANGED <<supported, open, view, place, serial, window>>

AnswerRead(r) ==
    /\ r.kind \notin {"add", "late_add"}
    /\ \/ r.kind = "workspaces" /\ Reply(r, IF registered THEN "found" ELSE "missing")
       \/ r.kind \in BootKinds /\ Reply(r, "ok")
       \/ Reply(r, "error")
    /\ UNCHANGED registered

(* A lost answer leaves open whether the workspace was added.              *)
AnswerAdd(r) ==
    /\ r.kind \in {"add", "late_add"}
    /\ \/ ~supported /\ Reply(r, "unsupported") /\ UNCHANGED registered
       \/ supported /\ registered /\ Reply(r, "conflict") /\ UNCHANGED registered
       \/ supported /\ ~registered /\ Reply(r, "added") /\ registered' = TRUE
       \/ supported /\ Reply(r, "refused") /\ UNCHANGED registered
       \/ Reply(r, "lost") /\ registered' \in {registered, registered \/ supported}

(* compozy workspace add or remove, from another terminal.                 *)
RegisterOutside ==
    /\ open /\ registered' = ~registered
    /\ UNCHANGED <<supported, open, view, place, channel, window>>

-----------------------------------------------------------------------------
(* Answers.                                                                *)

Take(kind, result) ==
    \E a \in answers :
        /\ a.kind = kind /\ a.result = result
        /\ answers' = answers \ {a}

(* picker::switch: a new Model with the requests of its boot; of a write   *)
(* on its way it only remembers the id.                                    *)
Switch(to, onboarding) ==
    /\ workspace' = to
    /\ candidate' = onboarding
    /\ overlay' = IF onboarding THEN "onboarding" ELSE "none"
    /\ flags' = IF onboarding THEN {"booting"} ELSE {}
    /\ items' = FALSE
    /\ bootPending' = IF onboarding THEN BootKinds ELSE {}
    /\ Boot({[kind |-> "late_add", n |-> r.n] :
                r \in {q \in requests : q.kind \in {"add", "late_add"}}})

Shown == candidate /\ overlay = "onboarding"

(* Mutant: the refresh leaves the mark of an add that is under way.        *)
DirectoryMissingAdding ==
    /\ Take("workspaces", "missing")
    /\ IF Shown THEN flags' = flags \ {"confirming", "refresh_required"}
                ELSE UNCHANGED flags
    /\ items' \in IF overlay = "picker" THEN BOOLEAN ELSE {items}
    /\ UNCHANGED <<external, open, overlay, place, requests, serial, window>>

DirectoryMissing ==
    /\ Take("workspaces", "missing")
    /\ IF Shown THEN flags' = flags \ {"adding", "confirming", "refresh_required"}
                ELSE UNCHANGED flags
    /\ items' \in IF overlay = "picker" THEN BOOLEAN ELSE {items}
    /\ UNCHANGED <<external, open, overlay, place, requests, serial, window>>

DirectoryFound ==
    /\ IF Shown
         THEN /\ \E a \in answers : a.kind = "workspaces" /\ a.result = "found"
              /\ answers' = {}
              /\ Switch("candidate", TRUE)
         ELSE /\ Take("workspaces", "found")
              /\ items' = (overlay = "picker")
              /\ UNCHANGED <<overlay, flags, place, requests, serial>>
    /\ UNCHANGED <<external, open, window>>

CatalogFails ==
    /\ Take("workspaces", "error")
    /\ flags' = flags \ {"adding"}
    /\ UNCHANGED <<external, open, overlay, items, place, requests, serial, window>>

(* Done, or done before: the catalog is read for the id.                   *)
WorkspaceAdded(result) ==
    /\ Take("add", result) /\ result \in {"added", "conflict"}
    /\ flags' = flags \cup (IF result = "added" /\ overlay = "onboarding"
                              THEN {"registration_complete"} ELSE {})
    /\ Ask("workspaces")
    /\ UNCHANGED <<external, open, overlay, items, place, window>>

AddUnsupported ==
    /\ Take("add", "unsupported")
    /\ flags' = IF overlay = "onboarding"
                  THEN (flags \ {"adding", "confirming"})
                       \cup {"registration_complete", "registration_unsupported"}
                  ELSE flags
    /\ UNCHANGED <<external, open, overlay, items, place, requests, serial, window>>

AddFails(result) ==
    /\ Take("add", result) /\ result \in {"refused", "lost"}
    /\ flags' = IF overlay = "onboarding"
                  THEN (flags \ {"adding", "confirming", "refresh_required"})
                       \cup (IF result = "lost" THEN {"refresh_required"} ELSE {})
                  ELSE flags
    /\ UNCHANGED <<external, open, overlay, items, place, requests, serial, window>>

(* late_success has nothing to say of it.                                  *)
LateAnswer(result) ==
    /\ Take("late_add", result)
    /\ UNCHANGED <<external, open, view, place, requests, serial, window>>

(* complete_workspace_boot: the last of the reads closes the overlay.      *)
BootRead(kind) ==
    /\ Take(kind, "ok")
    /\ bootPending' = bootPending \ {kind}
    /\ IF bootPending = {kind}
         THEN candidate' = FALSE /\ overlay' = "none" /\ flags' = {}
         ELSE UNCHANGED <<candidate, overlay, flags>>
    /\ UNCHANGED <<external, open, items, workspace, requests, serial, window>>

(* Mutant: only the read that failed is not waited for any more.           *)
BootFailsOne(kind) ==
    /\ \E a \in answers : a.kind = kind /\ a.result = "error"
    /\ bootPending' = bootPending \ {kind}
    /\ IF kind \in bootPending
         THEN /\ requests' = {r \in requests : r.kind \notin BootKinds}
              /\ answers' = {a \in answers : a.kind \notin BootKinds}
              /\ overlay' = "onboarding" /\ flags' = {"registration_complete"}
         ELSE /\ Take(kind, "error")
              /\ UNCHANGED <<requests, overlay, flags>>
    /\ UNCHANGED <<external, open, items, candidate, workspace, serial, window>>

(* fail_workspace_boot: the others are not waited for any more.            *)
BootFails(kind) ==
    /\ \E a \in answers : a.kind = kind /\ a.result = "error"
    /\ IF kind \in bootPending
         THEN /\ bootPending' = {}
              /\ requests' = {r \in requests : r.kind \notin BootKinds}
              /\ answers' = {a \in answers : a.kind \notin BootKinds}
              /\ overlay' = "onboarding" /\ flags' = {"registration_complete"}
         ELSE /\ Take(kind, "error")
              /\ UNCHANGED <<bootPending, requests, overlay, flags>>
    /\ UNCHANGED <<external, open, items, candidate, workspace, serial, window>>

-----------------------------------------------------------------------------
(* Keys; the overlay takes none while something is added or booted, and    *)
(* only some while its directory may be registered.                        *)

Key == open /\ ~small
Few == serial < MaxRequests
Locked == flags \cap {"adding", "booting"} # {}
Guarded == flags \cap {"refresh_required", "registration_complete"} # {}
OnboardingKey == Key /\ overlay = "onboarding" /\ ~Locked

OpenPicker ==
    /\ Key
    /\ overlay = "none" \/ (overlay = "onboarding" /\ ~Locked)
    /\ overlay' = "picker" /\ flags' = {} /\ items' = FALSE
    /\ Few /\ Ask("workspaces")
    /\ UNCHANGED <<external, open, place, answers, window>>

Refresh ==
    /\ OnboardingKey
    /\ Few /\ Ask("workspaces")
    /\ UNCHANGED <<external, open, view, place, answers, window>>

AskAdd ==
    /\ OnboardingKey /\ ~Guarded /\ "confirming" \notin flags
    /\ flags' = flags \cup {"confirming"}
    /\ UNCHANGED <<external, open, overlay, items, place, channel, window>>

CancelAdd ==
    /\ OnboardingKey /\ "confirming" \in flags
    /\ flags' = flags \ {"confirming"}
    /\ UNCHANGED <<external, open, overlay, items, place, channel, window>>

ConfirmAdd ==
    /\ OnboardingKey /\ ~Guarded /\ "confirming" \in flags
    /\ flags' = flags \cup {"adding"}
    /\ Few /\ Ask("add")
    /\ UNCHANGED <<external, open, overlay, items, place, answers, window>>

(* Leaving the picker brings the overlay back as it was at first.          *)
LeavePicker ==
    /\ Key /\ overlay = "picker"
    /\ IF candidate THEN ShowOnboarding
                    ELSE overlay' = "none" /\ flags' = {} /\ items' = FALSE
    /\ UNCHANGED <<external, open, place, channel, window>>

Pick ==
    /\ Key /\ overlay = "picker" /\ items
    /\ Few
    /\ answers' = {}
    /\ Switch("other", FALSE)
    /\ UNCHANGED <<external, open, window>>

(* A window that is too small closes the overlay, whatever it is.          *)
Shrink ==
    /\ open /\ ~small /\ resizes < MaxResizes
    /\ small' = TRUE /\ resizes' = resizes + 1
    /\ overlay' = "none" /\ flags' = {} /\ items' = FALSE
    /\ UNCHANGED <<external, open, place, channel>>

Grow ==
    /\ open /\ small
    /\ small' = FALSE
    /\ UNCHANGED <<external, open, view, place, channel, resizes>>

-----------------------------------------------------------------------------
Answered ==
    /\ open
    /\ \/ DirectoryMissing \/ DirectoryFound \/ CatalogFails
       \/ \E result \in Results.add : WorkspaceAdded(result) \/ AddFails(result)
                                         \/ LateAnswer(result)
       \/ AddUnsupported
       \/ \E kind \in BootKinds : BootRead(kind) \/ BootFails(kind)

Keys ==
    \/ OpenPicker \/ LeavePicker \/ Pick
    \/ Refresh \/ AskAdd \/ CancelAdd \/ ConfirmAdd

Daemon == \E r \in requests : AnswerRead(r) \/ AnswerAdd(r)

OnboardingNext ==
    \/ Daemon
    \/ RegisterOutside
    \/ Answered
    \/ Keys
    \/ Shrink \/ Grow

(* Requests are answered, or time out; the update loop takes the answers.  *)
OnboardingFairness ==
    /\ WF_onboardingVars(Daemon)
    /\ WF_onboardingVars(Answered)

-----------------------------------------------------------------------------
(* The overlay that takes no keys while it adds or boots does take them    *)
(* again, or closes, whatever becomes of the requests and in whatever      *)
(* order their answers come (keys.rs:775, api.rs:41, api.rs:70).           *)
LocksOpen == (open /\ Locked) ~> (~open \/ ~Locked)

=============================================================================
