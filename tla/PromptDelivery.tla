---------------------------- MODULE PromptDelivery ----------------------------
(***************************************************************************)
(* From the composer to the daemon: which prompts are sent, under which    *)
(* message and idempotency keys, and what becomes of the draft.            *)
(*                                                                         *)
(* A prompt takes its keys from Model.next_message, except that the same   *)
(* text for the same session as the prompt that failed last goes out again *)
(* under the keys of that one (Model.failed_prompt), so that the daemon    *)
(* can recognise a prompt it had dispatched before the connection broke.   *)
(* A workspace switch builds a new Model while a prompt may be on its way. *)
(*                                                                         *)
(* A draft is a text and, as history, the number of the edit that made it. *)
(* Which request an answer belongs to is the subject of RequestLedger;     *)
(* here a late answer finds its own prompt.  The mode of a prompt and the  *)
(* turn it expects are not told apart: no key depends on them.             *)
(***************************************************************************)
EXTENDS Naturals, FiniteSets

CONSTANTS
    Sessions,       \* session ids
    Texts,          \* what the composer may hold, up to MAX_PROMPT_BYTES
    NoId,           \* no session on screen
    NoText,         \* the empty composer
    ProviderSet,    \* preset.provider is configured
    MaxDrafts,      \* bound: edits of the composer
    MaxMessages,    \* bound: prompts of one Model
    MaxSwitches     \* bound: workspace switches

ASSUME ConstantsAssumption ==
    /\ NoId \notin Sessions /\ NoText \notin Texts
    /\ ProviderSet \in BOOLEAN
    /\ MaxDrafts \in Nat /\ MaxMessages \in Nat /\ MaxSwitches \in Nat

VARIABLES
    catalog,        \* external: the sessions the daemon has
    made,           \* external: the one it made for the present Model and has not yet
                    \* answered for, as a set
    detail,         \* the session on screen, or NoId
    draft,          \* its composer
    busy,           \* what its GET told: it is running, or in a turn
    chooser,        \* SessionDetail.chooser is open
    prompting,      \* Model.prompt_pending
    failed,         \* Model.failed_prompt, as a set of at most one prompt
    next,           \* Model.next_message
    created,        \* Model.app_created_sessions
    creating,       \* Model.create_session_pending
    reading,        \* sessions with a GET Session awaited
    unanswered,     \* prompts posted and not answered
    born,           \* history: the sessions the program created, in whatever Model
    untouched,      \* history: those of the present Model not prompted before the
                    \* answer that said so
    model,          \* history: how many Models there were before the present one
    edits,          \* history: edits of the composer so far
    sent,           \* history: every prompt posted
    accepted        \* history: the prompts whose acceptance a Model has seen

daemon == <<catalog, made>>
screen == <<detail, draft, busy, chooser>>
writes == <<prompting, failed, next, created, creating>>
past == <<born, untouched, model, edits, sent, accepted>>
vars == <<daemon, screen, writes, reading, unanswered, past>>

-----------------------------------------------------------------------------
Keys == 1..(MaxMessages + 1)
NoDraft == [text |-> NoText, edit |-> 0]
Drafts == [text : Texts, edit : 1..MaxDrafts] \cup {NoDraft}

(* types::PromptRequest, with the session it is posted to and, as history, *)
(* the Model that posted it and the edit its text came from.               *)
Prompts == [session : Sessions, text : Texts, key : Keys, runtime : BOOLEAN,
            model : 0..MaxSwitches, edit : 1..MaxDrafts]

TypeOK ==
    /\ catalog \subseteq Sessions /\ made \subseteq catalog
    /\ detail \in Sessions \cup {NoId}
    /\ draft \in Drafts
    /\ busy \in BOOLEAN
    /\ chooser \in BOOLEAN
    /\ prompting \in BOOLEAN
    /\ failed \in SUBSET Prompts /\ Cardinality(failed) <= 1
    /\ next \in Keys
    /\ creating \in BOOLEAN
    /\ reading \in SUBSET Sessions
    /\ unanswered \in SUBSET Prompts
    /\ born \in SUBSET Sessions /\ created \subseteq born /\ untouched \subseteq born
    /\ model \in 0..MaxSwitches
    /\ edits \in 0..MaxDrafts
    /\ sent \in SUBSET Prompts
    /\ accepted \in SUBSET sent

Init ==
    /\ catalog = {} /\ made = {}
    /\ detail = NoId /\ draft = NoDraft /\ busy = FALSE /\ chooser = FALSE
    /\ prompting = FALSE /\ failed = {} /\ next = 1 /\ created = {} /\ creating = FALSE
    /\ reading = {} /\ unanswered = {}
    /\ born = {} /\ untouched = {} /\ model = 0 /\ edits = 0 /\ sent = {} /\ accepted = {}

-----------------------------------------------------------------------------
(* The panel.                                                              *)

(* keys::open_session_id: a new SessionDetail, of which nothing is known   *)
(* until its GET is answered.                                              *)
Open(s) ==
    /\ s \in catalog /\ ~chooser
    /\ detail' = s /\ draft' = NoDraft /\ busy' = FALSE
    /\ reading' = reading \cup {s}
    /\ UNCHANGED <<daemon, chooser, writes, unanswered, past>>

(* keys::open_run_id: the run takes the place of the session.              *)
Leave ==
    /\ ~chooser
    /\ detail # NoId
    /\ detail' = NoId /\ draft' = NoDraft /\ busy' = FALSE
    /\ UNCHANGED <<daemon, chooser, writes, reading, unanswered, past>>

(* api::apply on Session: the chooser stays as it is.                      *)
SessionRead(s, running) ==
    /\ s \in reading
    /\ reading' \in {reading, reading \ {s}}
    /\ busy' = IF detail = s THEN running ELSE busy
    /\ UNCHANGED <<daemon, detail, draft, chooser, writes, unanswered, past>>

(* composer::key: what is typed is a new draft, the same text included.    *)
Type(text) ==
    /\ detail # NoId /\ ~chooser
    /\ edits < MaxDrafts
    /\ edits' = edits + 1
    /\ draft' = [text |-> text, edit |-> edits']
    /\ UNCHANGED <<daemon, detail, busy, chooser, writes, reading, unanswered, born, untouched,
                   model, sent, accepted>>

(* composer::key on Ctrl+U. *)
ClearDraft ==
    /\ detail # NoId /\ ~chooser
    /\ draft # NoDraft
    /\ draft' = NoDraft
    /\ UNCHANGED <<daemon, detail, busy, chooser, writes, reading, unanswered, past>>

-----------------------------------------------------------------------------
(* Sending.                                                                *)

(* Mutation: a failed prompt lends its keys to any text.                   *)
ReusableAnyText == {p \in failed : p.session = detail}

(* The failed prompt whose keys the draft is sent under again.             *)
Reusable == {p \in failed : p.session = detail /\ p.text = draft.text}

(* Mutation: the counter is read and not advanced.                         *)
AdvancedNot == next' = next

(* Model::message_ids, taken when nothing is reused.                       *)
Advanced == next' = IF Reusable = {} THEN next + 1 ELSE next

(* The first prompt of a session the program created selects the preset    *)
(* provider and model.                                                     *)
SelectsRuntime == detail \in created

(* prompt::post.  Without a preset provider a session created here is      *)
(* refused its prompt.                                                     *)
Post ==
    LET p == [session |-> detail, text |-> draft.text, runtime |-> SelectsRuntime,
              key |-> IF Reusable = {} THEN next ELSE (CHOOSE q \in Reusable : TRUE).key,
              model |-> model, edit |-> draft.edit] IN
    /\ SelectsRuntime => ProviderSet
    /\ next <= MaxMessages
    /\ Advanced
    /\ failed' = {}
    /\ prompting' = TRUE
    /\ unanswered' = unanswered \cup {p}
    /\ sent' = sent \cup {p}
    /\ UNCHANGED <<created, creating>>

(* Mutation: a second Enter is not held back by the first.                 *)
SendUnguarded ==
    /\ detail # NoId /\ ~chooser
    /\ draft # NoDraft
    /\ \/ busy /\ chooser' = TRUE /\ UNCHANGED <<writes, unanswered, sent>>
       \/ ~busy /\ Post /\ UNCHANGED chooser
    /\ UNCHANGED <<daemon, detail, draft, busy, reading, born, untouched, model, edits, accepted>>

(* prompt::send, on Enter in the composer.                                 *)
Send ==
    /\ detail # NoId /\ ~chooser
    /\ ~prompting
    /\ draft # NoDraft
    /\ \/ busy /\ chooser' = TRUE /\ UNCHANGED <<writes, unanswered, sent>>
       \/ ~busy /\ Post /\ UNCHANGED chooser
    /\ UNCHANGED <<daemon, detail, draft, busy, reading, born, untouched, model, edits, accepted>>

(* prompt::chooser_key: Esc, or Enter while writes are refused (draining), *)
(* closes the chooser and nothing else.                                    *)
LeaveChooser ==
    /\ chooser
    /\ chooser' = FALSE
    /\ UNCHANGED <<daemon, detail, draft, busy, writes, reading, unanswered, past>>

(* prompt::chooser_key on Enter: whether the session is still busy is not  *)
(* asked again.                                                            *)
Choose ==
    /\ chooser
    /\ chooser' = FALSE
    /\ Post
    /\ UNCHANGED <<daemon, detail, draft, busy, reading, born, untouched, model, edits, accepted>>

-----------------------------------------------------------------------------
(* Answers.                                                                *)

(* Mutation: the session still counts as one nothing was sent to.          *)
AcceptedAsNew(p) ==
    /\ p \in unanswered /\ p.model = model
    /\ unanswered' = unanswered \ {p}
    /\ accepted' = accepted \cup {p}
    /\ prompting' = FALSE
    /\ failed' = {}
    /\ draft' = IF detail = p.session THEN NoDraft ELSE draft
    /\ UNCHANGED <<daemon, detail, busy, chooser, next, created, creating, reading, born, untouched,
                   model, edits, sent>>

(* api::apply on Prompt.  The composer of the session is cleared, whatever *)
(* it holds by now.                                                        *)
Accepted(p) ==
    /\ p \in unanswered /\ p.model = model
    /\ unanswered' = unanswered \ {p}
    /\ accepted' = accepted \cup {p}
    /\ prompting' = FALSE
    /\ failed' = {}
    /\ created' = created \ {p.session}
    /\ draft' = IF detail = p.session THEN NoDraft ELSE draft
    /\ UNCHANGED <<daemon, detail, busy, chooser, next, creating, reading, born, untouched,
                   model, edits, sent>>

(* Mutation: the failed prompt is not kept.                                *)
FailedForgotten(p) ==
    /\ p \in unanswered /\ p.model = model
    /\ unanswered' = unanswered \ {p}
    /\ prompting' = FALSE
    /\ UNCHANGED <<daemon, screen, failed, next, created, creating, reading, past>>

(* api::failure on Prompt: refused, broken off or timed out, dispatched or *)
(* not.                                                                    *)
Failed(p) ==
    /\ p \in unanswered /\ p.model = model
    /\ unanswered' = unanswered \ {p}
    /\ prompting' = FALSE
    /\ failed' = {p}
    /\ UNCHANGED <<daemon, screen, next, created, creating, reading, past>>

(* api::late_success, and api::api on an error of a late write.            *)
AnsweredLate(p) ==
    /\ p \in unanswered /\ p.model # model
    /\ unanswered' = unanswered \ {p}
    /\ UNCHANGED <<daemon, screen, writes, reading, past>>

-----------------------------------------------------------------------------
(* Sessions and workspaces.                                                *)

(* update::sessions::create *)
Create ==
    /\ ~chooser /\ ~creating
    /\ creating' = TRUE
    /\ UNCHANGED <<daemon, screen, prompting, failed, next, created, reading, unanswered, past>>

(* History.                                                                *)
UntouchedWith(s) ==
    untouched' = IF \E p \in sent : p.session = s THEN untouched ELSE untouched \cup {s}

(* The daemon has a new session: another client's, one an earlier Model    *)
(* asked for, or the one this Model waits for, which can then be opened,   *)
(* and prompted, before the answer that tells of it.                       *)
Appears(s) ==
    /\ s \notin catalog
    /\ catalog' = catalog \cup {s}
    /\ made' \in IF creating /\ made = {} THEN {made, {s}} ELSE {made}
    /\ UNCHANGED <<screen, writes, reading, unanswered, past>>

(* Mutation: the session on screen is taken for the created one.           *)
CreatedOnScreen(s) ==
    /\ s \in made /\ made' = {}
    /\ born' = born \cup {s}
    /\ creating' = FALSE
    /\ created' = created \cup {detail}
    /\ UntouchedWith(s)
    /\ UNCHANGED <<catalog, screen, prompting, failed, next, reading, unanswered, model, edits,
                   sent, accepted>>

(* api::created_session.                                                   *)
Created(s) ==
    /\ s \in made /\ made' = {}
    /\ born' = born \cup {s}
    /\ creating' = FALSE
    /\ created' = created \cup {s}
    /\ UntouchedWith(s)
    /\ UNCHANGED <<catalog, screen, prompting, failed, next, reading, unanswered, model, edits,
                   sent, accepted>>

(* api::failure on CreateSession *)
CreateFailed ==
    /\ creating
    /\ creating' = FALSE /\ made' = {}
    /\ UNCHANGED <<catalog, screen, prompting, failed, next, created, reading, unanswered, past>>

(* picker::switch: a new Model; the answers of reads are dropped, a prompt *)
(* on its way becomes a late write.                                        *)
Switch ==
    /\ ~chooser
    /\ model < MaxSwitches
    /\ model' = model + 1
    /\ detail' = NoId /\ draft' = NoDraft /\ busy' = FALSE
    /\ prompting' = FALSE /\ failed' = {} /\ next' = 1 /\ created' = {} /\ creating' = FALSE
    /\ reading' = {} /\ made' = {}
    /\ untouched' = {}
    /\ UNCHANGED <<catalog, chooser, unanswered, born, edits, sent, accepted>>

-----------------------------------------------------------------------------
Next ==
    \/ \E s \in Sessions : Open(s)
    \/ Leave
    \/ \E s \in Sessions, running \in BOOLEAN : SessionRead(s, running)
    \/ \E text \in Texts : Type(text)
    \/ ClearDraft
    \/ Send
    \/ LeaveChooser
    \/ Choose
    \/ \E p \in unanswered : Accepted(p)
    \/ \E p \in unanswered : Failed(p)
    \/ \E p \in unanswered : AnsweredLate(p)
    \/ Create
    \/ \E s \in Sessions : Appears(s) \/ Created(s)
    \/ CreateFailed
    \/ Switch

Spec == Init /\ [][Next]_vars

-----------------------------------------------------------------------------
(* Properties.                                                             *)

(* A key names one prompt: a Model never sends different texts, or a text  *)
(* to different sessions, under the same keys.                             *)
KeyNamesOnePrompt ==
    \A p, q \in sent : p.model = q.model /\ p.key = q.key
                          => p.session = q.session /\ p.text = q.text

(* However often a draft is sent again after failures, with other prompts, *)
(* panels and choosers in between, it goes out under one key: the daemon   *)
(* can tell the repetition from a new prompt.                              *)
DraftHasOneKey ==
    \A p, q \in sent : p.edit = q.edit => p.key = q.key /\ p.model = q.model

(* The keys of a prompt whose acceptance was seen are not used again.      *)
AcceptedKeyRetired ==
    [][\A p \in unanswered' \ unanswered :
          \A q \in accepted : q.model = p.model => q.key # p.key]_vars

(* At most one prompt of the present Model awaits its answer, and          *)
(* prompt_pending says whether one does.                                   *)
OnePromptAtATime ==
    LET own == {p \in unanswered : p.model = model} IN
    Cardinality(own) <= 1 /\ (prompting <=> own # {})

(* Of a session created in the present Model, and not prompted before the  *)
(* answer that said so, the prompts up to the first one accepted take the  *)
(* preset provider along, however many fail, and none after it; a session  *)
(* that was not created here never gets it, and none gets it again after   *)
(* it was accepted once (prompt.rs:115, api.rs:399, api.rs:598).           *)
RuntimeUntilAccepted ==
    [][\A p \in unanswered' \ unanswered :
          LET seen == {q \in accepted : q.session = p.session} IN
          /\ p.session \in untouched => (p.runtime <=> seen = {})
          /\ p.runtime => p.session \in born /\ \A q \in seen : ~q.runtime]_vars

(* The preset provider is "sent with the first prompt of a session created *)
(* by n" (README.md:70): not with one that follows an accepted one.  Not   *)
(* so when the session is opened and its first prompt accepted before the  *)
(* answer that says it was created here.                                   *)
RuntimeGoesFirst ==
    [][\A p \in unanswered' \ unanswered :
          p.runtime => \A q \in accepted : q.session # p.session]_vars

(* An empty prompt is never sent, whatever cleared the composer under an   *)
(* open chooser.                                                           *)
NoEmptyPrompt == \A p \in sent : p.text # NoText
=============================================================================
