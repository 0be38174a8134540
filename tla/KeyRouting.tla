----------------------------- MODULE KeyRouting -----------------------------
(***************************************************************************)
(* What takes the next key, and whether it is on the screen: the overlays, *)
(* confirmations, text fields and panels a key is offered to one after the *)
(* other, the keys and answers that open and close them, and what the      *)
(* views draw of them (batuta-tui/src/app/update/keys.rs, palette.rs,      *)
(* attention.rs, detail_run.rs, detail_session.rs, clarify.rs, logs.rs,    *)
(* picker.rs, composer.rs, mod.rs; views/mod.rs, layout.rs, session.rs).   *)
(*                                                                         *)
(* A key is named by what it means where it is pressed; the keymap of      *)
(* Keymap is resolved before.  Only what a key opens or closes is kept: a  *)
(* sticky toast, which takes one Esc, and the quit guard are in Polling.   *)
(***************************************************************************)
EXTENDS Keymap

CONSTANTS
    Modes,            \* "full" for the interface, "tail" for batuta tail
    MaxRemaps,        \* bound: entries of the table when keys are then pressed
    MaxResizes        \* bound: sizes the window takes

ASSUME RoutingAssumption ==
    /\ Modes \subseteq {"full", "tail"}
    /\ {MaxRemaps, MaxResizes} \subseteq Nat

VARIABLES
    mode,
    window, resizes,  \* external: "wide", "compact" or "small"; history, for the bound
    resized,          \* the event that tells of it is on its way
    size,             \* what the model believes of it
    running,
    focus, detail,    \* the panel with the focus; what the fourth one shows
    overlay,
    candidate,        \* startup_candidate is there
    confirms,         \* what waits for Enter or Esc: "row" (attention_confirm), "card"
                      \* (inline_permission_confirm), "chooser", "cancel", "kill"
    awaited,          \* what may still be answered: "clarify", "run", "boot"
    fields            \* text fields that have the focus: "search", "composer", and the
                      \* filters of the lists, "session_filter" and "run_filter"

terminalVars == <<window, resizes, resized, size>>
screen == <<mode, terminalVars>>
panels == <<focus, detail>>
modals == <<overlay, candidate, confirms, fields>>
routingVars == <<screen, running, panels, modals, awaited>>
vars == <<keymapVars, routingVars>>

Lists == {"sessions", "runs"}
Panels == Lists \cup {"attention", "detail"}
Overlays == {"help", "logs", "picker", "onboarding", "palette", "clarify"}
Confirms == {"row", "card", "chooser", "cancel", "kill"}
Filter(list) == IF list = "sessions" THEN "session_filter" ELSE "run_filter"
Fields == {"search", "session_filter", "run_filter", "composer"}
OfDetail == {"chooser", "cancel", "kill"}

TypeOK ==
    /\ KeymapTypeOK
    /\ DirectionsAgree
    /\ mode \in Modes
    /\ {window, size} \subseteq {"wide", "compact", "small"} /\ resizes \in 0..MaxResizes
    /\ {resized, running} \subseteq BOOLEAN
    /\ focus \in Panels /\ detail \in {"none", "session", "run"}
    /\ overlay \in Overlays \cup {"none"} /\ candidate \in BOOLEAN
    /\ confirms \subseteq Confirms /\ fields \subseteq Fields
    /\ awaited \subseteq {"clarify", "run", "boot"}

(* The model takes the window for a large one until it hears otherwise;    *)
(* without a workspace it opens the picker.                                *)
Init ==
    /\ KeymapInit
    /\ mode \in Modes
    /\ window \in {"wide", "compact", "small"} /\ resizes = 0 /\ resized = FALSE
    /\ size = "wide"
    /\ running = TRUE
    /\ focus = IF mode = "tail" THEN "detail" ELSE "sessions"
    /\ detail = IF mode = "tail" THEN "session" ELSE "none"
    /\ candidate \in IF mode = "tail" THEN {FALSE} ELSE BOOLEAN
    /\ overlay \in IF candidate THEN {"onboarding"}
                   ELSE IF mode = "tail" THEN {"none"} ELSE {"none", "picker"}
    /\ confirms = {} /\ fields = {} /\ awaited = {}

-----------------------------------------------------------------------------
(* The order in which key offers it.                                       *)
FirstOf(present, order) == order[CHOOSE i \in DOMAIN order :
    order[i] \in present /\ \A j \in DOMAIN order : order[j] \in present => i <= j]

Taker ==
    CASE size = "small" -> "small"
      [] size # "small" /\ overlay # "none" -> overlay
      [] size # "small" /\ overlay = "none" /\ confirms # {} ->
            FirstOf(confirms, <<"row", "card", "chooser", "cancel", "kill">>)
      [] size # "small" /\ overlay = "none" /\ confirms = {} /\ fields # {} ->
            FirstOf(fields, <<"search", "session_filter", "run_filter", "composer">>)
      [] OTHER -> focus

(* The compact layout draws the panel with the focus and no other.         *)
Drawn(panel) == window = "wide" \/ (window = "compact" /\ focus = panel)

InDetail == Drawn("detail") /\ detail = "session"

(* views::view; batuta tail draws the transcript and nothing over it.      *)
OnScreen(taker) ==
    IF mode = "tail" THEN taker = "detail"
    ELSE CASE taker = "small" -> window = "small"
           [] taker \in Overlays -> window # "small"
           [] taker = "row" -> Drawn("attention")
           [] taker \in {"chooser", "cancel", "search", "composer"} -> InDetail
           [] taker = "session_filter" -> Drawn("sessions")
           [] taker = "run_filter" -> Drawn("runs")
           [] taker \in {"card", "kill"} -> FALSE
           [] OTHER -> Drawn(taker)

-----------------------------------------------------------------------------
Key == running
Pressed(taker) == running /\ Taker = taker
InPanel == running /\ Taker \in Panels

Only(changed) == UNCHANGED changed
Still == Only(<<screen, running, awaited>>)

Show(o) ==
    /\ overlay' = o
    /\ Still /\ Only(<<panels, candidate, confirms, fields>>)

(* open_session_id, open_run_id: a new detail, and the focus on it.        *)
OpenDetail(what) ==
    /\ detail' = what /\ focus' = "detail"
    /\ confirms' = confirms \ OfDetail
    /\ fields' = fields \ {"search", "composer"}
    /\ awaited' = awaited \cup (IF what = "run" THEN {"run"} ELSE {})
    /\ Only(<<screen, running, candidate>>)

Ask(confirm) ==
    /\ confirms' = confirms \cup {confirm}
    /\ Still /\ Only(<<panels, overlay, candidate, fields>>)

Settle(settled) ==
    /\ confirms' = confirms \ settled
    /\ Still /\ Only(<<panels, overlay, candidate, fields>>)

Type(field) ==
    /\ fields' = fields \cup {field}
    /\ Still /\ Only(<<panels, overlay, candidate, confirms>>)

Leave(left) ==
    /\ fields' = fields \ left
    /\ Still /\ Only(<<panels, overlay, candidate, confirms>>)

Quit ==
    /\ running' = FALSE
    /\ Only(<<screen, panels, modals, awaited>>)

-----------------------------------------------------------------------------
(* Keys that are looked at before anything that waits for one.             *)

CtrlC == Key /\ Quit

(* A window that is too small takes q.                                     *)
QuitSmall == Pressed("small") /\ Quit

F1 == Key /\ size # "small" /\ overlay = "none" /\ Show("help")

(* Mutant: wherever the focus is.                                          *)
CtrlXAnywhere ==
    /\ Key /\ size # "small" /\ overlay = "none"
    /\ detail = "session"
    /\ Ask("cancel")

(* When a turn is in progress.                                             *)
CtrlX ==
    /\ Key /\ size # "small" /\ overlay = "none"
    /\ focus = "detail" /\ detail = "session"
    /\ Ask("cancel")

-----------------------------------------------------------------------------
(* Overlays.                                                               *)

(* Esc, or the key that opened it.                                         *)
CloseOverlay ==
    /\ \E o \in {"help", "logs", "palette", "clarify"} : Pressed(o)
    /\ Show("none")

(* Enter leaves the clarification up, so it can be answered again.         *)
AnswerClarification ==
    /\ Pressed("clarify")
    /\ awaited' = awaited \cup {"clarify"}
    /\ Only(<<screen, running, panels, modals>>)

(* The palette closes, and the entry acts as its key would.                *)
PaletteEntry ==
    /\ Pressed("palette")
    /\ \/ /\ mode # "tail" /\ focus' \in Panels
          /\ overlay' = "none"
          /\ Still /\ Only(<<detail, candidate, confirms, fields>>)
       \/ mode # "tail" /\ Show("picker")
       \/ Show("logs")
       \/ Show("help")
       \/ Quit

(* Esc quits where the picker was opened for want of a workspace and there *)
(* is none to choose.                                                      *)
LeavePicker ==
    /\ Pressed("picker")
    /\ \/ Show(IF candidate THEN "onboarding" ELSE "none")
       \/ ~candidate /\ Quit

(* A new Model, with the default size.                                     *)
Fresh(o) ==
    /\ size' = "wide"
    /\ focus' = "sessions" /\ detail' = "none"
    /\ overlay' = o /\ candidate' = (o = "onboarding")
    /\ confirms' = {} /\ fields' = {}
    /\ awaited' = IF o = "onboarding" THEN {"boot"} ELSE {}
    /\ Only(<<mode, window, resizes, resized, running>>)

Switch == Pressed("picker") /\ mode = "full" /\ Fresh("none")

OnboardingKey ==
    /\ Pressed("onboarding")
    /\ Show("picker") \/ Quit

-----------------------------------------------------------------------------
(* Confirmations and text fields.                                          *)

(* Enter or Esc; Esc takes back both kinds of a decision for good.         *)
AnswerConfirm ==
    \E c \in Confirms :
        /\ Pressed(c)
        /\ Settle({c}) \/ (c \in {"row", "card"} /\ Settle({"row", "card"}))

(* Enter in the composer asks for a mode when a turn is in progress;       *)
(* otherwise, or once the mode is chosen, the prompt goes out unless it is *)
(* refused.                                                                *)
ChooseMode == Pressed("composer") /\ Ask("chooser")
Chosen ==
    /\ Pressed("chooser")
    /\ confirms' = confirms \ {"chooser"}
    /\ focus' \in {focus, "detail"}
    /\ Still /\ Only(<<detail, overlay, candidate, fields>>)
Send ==
    /\ Pressed("composer")
    /\ focus' \in {focus, "detail"}
    /\ Still /\ Only(<<detail, modals>>)

LeaveField == \E f \in Fields : Pressed(f) /\ Leave({f})

-----------------------------------------------------------------------------
(* Panels.                                                                 *)

GlobalKey ==
    /\ InPanel
    /\ \/ /\ mode # "tail" /\ focus' \in Panels
          /\ Still /\ Only(<<detail, modals>>)
       \/ mode # "tail" /\ (Show("picker") \/ Show("palette"))
       \/ Show("logs")
       \/ Show("help")
       \/ Quit

ListKey ==
    \E list \in Lists :
        /\ Pressed(list)
        /\ \/ Type(Filter(list))
           \/ /\ OpenDetail(IF list = "sessions" THEN "session" ELSE "run")
              /\ UNCHANGED overlay

(* Opening a clarification opens its session below it.                     *)
AttentionKey ==
    /\ Pressed("attention")
    /\ \/ Ask("row")
       \/ OpenDetail("session") /\ overlay' \in {"none", "clarify"}
       \/ OpenDetail("run") /\ UNCHANGED overlay

(* Enter opens the composer where there is nothing to unfold.              *)
SessionKey ==
    /\ Pressed("detail") /\ detail = "session"
    /\ \/ Ask("card")
       \/ Type("composer")
       \/ mode # "tail" /\ Type("search")

RunKey ==
    /\ Pressed("detail") /\ detail = "run"
    /\ \/ Ask("kill")
       \/ \E what \in {"session", "run"} : OpenDetail(what) /\ UNCHANGED overlay

-----------------------------------------------------------------------------
(* Answers, and the window.                                                *)

(* The answer to a clarification, or its failure, closes the overlay,      *)
(* whatever it is.                                                         *)
ClarificationAnswered ==
    /\ running /\ "clarify" \in awaited
    /\ overlay' = "none"
    /\ awaited' \in {awaited, awaited \ {"clarify"}}
    /\ Only(<<screen, running, panels, candidate, confirms, fields>>)

(* So does the last read of the boot, which ends the onboarding; a read    *)
(* that fails brings the onboarding back.                                  *)
BootEnds ==
    /\ running /\ "boot" \in awaited
    /\ awaited' = awaited \ {"boot"}
    /\ \/ overlay' = "none" /\ candidate' = FALSE
       \/ overlay' = "onboarding" /\ candidate /\ UNCHANGED candidate
    /\ Only(<<screen, running, panels, confirms, fields>>)

(* The directory is found in the catalog, or has just been added.          *)
CandidateSwitch == running /\ candidate /\ overlay = "onboarding" /\ Fresh("onboarding")

(* The 404 of a run clears the detail, whatever it shows by now.           *)
RunGone ==
    /\ running /\ "run" \in awaited
    /\ awaited' \in {awaited, awaited \ {"run"}}
    /\ detail' = "none"
    /\ confirms' = confirms \ OfDetail
    /\ fields' = fields \ {"search", "composer"}
    /\ Only(<<screen, running, focus, overlay, candidate>>)

Window ==
    /\ running /\ ~resized /\ resizes < MaxResizes
    /\ resizes' = resizes + 1 /\ resized' = TRUE
    /\ window' \in {"wide", "compact", "small"} \ {window}
    /\ Only(<<mode, size, running, panels, modals, awaited>>)

Resize ==
    /\ running /\ resized /\ resized' = FALSE
    /\ size' = window
    /\ overlay' = IF window = "small" THEN "none" ELSE overlay
    /\ Only(<<mode, window, resizes, running, panels, candidate, confirms, fields, awaited>>)

RoutingNext ==
    \/ CtrlC \/ QuitSmall \/ F1 \/ CtrlX
    \/ CloseOverlay \/ AnswerClarification \/ PaletteEntry \/ LeavePicker \/ Switch \/ OnboardingKey
    \/ AnswerConfirm \/ ChooseMode \/ Chosen \/ Send \/ LeaveField
    \/ GlobalKey \/ ListKey \/ AttentionKey \/ SessionKey \/ RunKey
    \/ ClarificationAnswered \/ BootEnds \/ CandidateSwitch \/ RunGone
    \/ Window \/ Resize

Next ==
    \/ KeymapNext /\ UNCHANGED routingVars
    \/ /\ phase = "resolved" /\ Cardinality(read) <= MaxRemaps /\ flawed = {}
       /\ RoutingNext
       /\ UNCHANGED keymapVars

Spec == Init /\ [][Next]_vars

-----------------------------------------------------------------------------
(* What takes the keys is on the screen, in every layout and whatever is   *)
(* answered meanwhile, once the model knows the size of the window; a kill *)
(* and a decision for good on a card are asked for but never drawn         *)
(* (keys.rs:12, keys.rs:61, views/mod.rs:27, layout.rs:96).                *)
TakerOnScreen ==
    mode = "full" /\ running /\ size = window =>
        Taker \in {"kill", "card"} \/ OnScreen(Taker)
=============================================================================
