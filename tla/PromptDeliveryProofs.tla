------------------------- MODULE PromptDeliveryProofs -------------------------
(***************************************************************************)
(* Proofs about PromptDelivery for any sets of sessions and texts, with or *)
(* without a preset provider, and for any number of edits, prompts and     *)
(* workspace switches.                                                     *)
(***************************************************************************)
EXTENDS PromptDelivery, FiniteSetTheorems, TLAPS

(* The prompts of the present Model that await their answer.               *)
Own == {p \in unanswered : p.model = model}

(* The shapes, TypeOK but for what it says of sizes.  A session that is    *)
(* made was not born before.                                               *)
Shapes ==
    /\ catalog \subseteq Sessions /\ made \subseteq catalog
    /\ born \subseteq catalog /\ untouched \subseteq born /\ made \cap born = {}
    /\ detail \in Sessions \cup {NoId}
    /\ draft \in Drafts
    /\ busy \in BOOLEAN /\ chooser \in BOOLEAN /\ prompting \in BOOLEAN
    /\ creating \in BOOLEAN
    /\ failed \in SUBSET Prompts
    /\ next \in Keys
    /\ reading \in SUBSET Sessions
    /\ unanswered \in SUBSET sent
    /\ born \in SUBSET Sessions /\ created \subseteq born
    /\ model \in 0..MaxSwitches
    /\ edits \in 0..MaxDrafts
    /\ sent \in SUBSET Prompts
    /\ accepted \in SUBSET sent

(* The panel: an open chooser is about a draft, and while it is open no    *)
(* prompt of this Model is on its way that could clear that draft.         *)
Panel ==
    /\ detail = NoId => draft = NoDraft
    /\ draft # NoDraft => draft.edit \in 1..edits
    /\ chooser => draft # NoDraft /\ ~prompting

(* One prompt at a time: prompt_pending is set while one is on its way,    *)
(* and no failed prompt is kept beside it.                                 *)
Single ==
    /\ prompting <=> Own # {}
    /\ \A p, q \in Own : p = q
    /\ \A p, q \in failed : p = q
    /\ prompting => failed = {}
    /\ failed \subseteq {p \in sent : p.model = model}

(* Keys and edits are given out in order.                                  *)
Numbered ==
    \A p \in sent :
        /\ p.model <= model
        /\ p.model = model => p.key < next
        /\ p.edit <= edits

(* A draft that was sent already is the last one sent, and has not been    *)
(* accepted.                                                               *)
Resent ==
    \A r \in sent : draft # NoDraft /\ r.edit = draft.edit =>
        \E q \in Own \cup failed :
            q.edit = draft.edit /\ q.session = detail /\ q.text = draft.text

(* Keys that may be used again belong to no accepted prompt.               *)
Retired ==
    \A f \in Own \cup failed : \A q \in accepted : q.model = model => q.key # f.key

(* A session still owed the preset provider has accepted no prompt with it,*)
(* and one that was not prompted before it was known is owed it as long as *)
(* it has accepted none.                                                   *)
Owed ==
    /\ \A p \in sent : p.runtime => p.session \in born
    /\ \A q \in accepted : q.runtime => q.session \notin created
    /\ \A s \in untouched :
          s \in created <=> {q \in accepted : q.session = s} = {}

(* The inductive invariant. *)
Delivery ==
    /\ Shapes /\ Panel /\ Single /\ Numbered /\ Resent /\ Retired /\ Owed
    /\ KeyNamesOnePrompt /\ DraftHasOneKey
-----------------------------------------------------------------------------
LEMMA DraftShape ==
    ASSUME draft \in Drafts, draft # NoDraft
    PROVE  draft.text \in Texts /\ draft.edit \in 1..MaxDrafts
BY DEF Drafts, NoDraft

LEMMA DeliveryInit == Init => Delivery
<1> SUFFICES ASSUME Init PROVE Delivery
  OBVIOUS
<1>1. Shapes /\ Panel
  <2>1. next \in Keys /\ model \in 0..MaxSwitches /\ edits \in 0..MaxDrafts
    BY ConstantsAssumption DEF Init, Keys
  <2>2. QED
    BY <2>1 DEF Init, Shapes, Panel, Drafts
<1>2. Single /\ Numbered /\ Resent /\ Retired /\ Owed
  BY DEF Init, Single, Numbered, Resent, Retired, Owed, Own
<1>3. KeyNamesOnePrompt /\ DraftHasOneKey
  BY DEF Init, KeyNamesOnePrompt, DraftHasOneKey
<1>4. QED
  BY <1>1, <1>2, <1>3 DEF Delivery

(* Steps of the panel that send nothing: the draft is kept, with its       *)
(* session, or dropped.                                                    *)
LEMMA ScreenStep ==
    ASSUME Delivery, Shapes', UNCHANGED <<writes, unanswered, past>>,
           draft' = NoDraft \/ (draft' = draft /\ detail' = detail),
           detail' = NoId => draft' = NoDraft,
           chooser' => draft' # NoDraft /\ ~prompting
    PROVE  Delivery'
<1>1. Panel'
  BY DEF Delivery, Panel, past, writes
<1>2. Own' = Own /\ UNCHANGED <<prompting, failed, next, created, sent, accepted, born,
                                untouched, model, edits>>
  BY DEF Own, past, writes
<1>3. Single' /\ Numbered' /\ Retired' /\ Owed'
  BY <1>2 DEF Delivery, Single, Numbered, Retired, Owed
<1>4. Resent'
  BY <1>2 DEF Delivery, Resent
<1>5. KeyNamesOnePrompt' /\ DraftHasOneKey'
  BY <1>2 DEF Delivery, KeyNamesOnePrompt, DraftHasOneKey
<1>6. QED
  BY <1>1, <1>3, <1>4, <1>5 DEF Delivery

(* An edit makes a draft that was never sent.                              *)
LEMMA TypeStep ==
    ASSUME Delivery, NEW text \in Texts, Type(text)
    PROVE  Delivery'
<1>1. /\ edits \in Nat /\ edits' = edits + 1 /\ edits' \in 1..MaxDrafts
      /\ draft' = [text |-> text, edit |-> edits'] /\ draft'.edit = edits'
      /\ Own' = Own
      /\ UNCHANGED <<detail, busy, chooser, prompting, failed, next, created, creating, reading,
                     unanswered, born, untouched, model, sent, accepted, catalog, made>>
  BY ConstantsAssumption DEF Delivery, Shapes, Type, daemon, writes, Own
<1>2. draft' \in Drafts
  BY <1>1 DEF Drafts
<1>3. Shapes'
  BY <1>1, <1>2 DEF Delivery, Shapes
<1>4. Panel'
  BY <1>1 DEF Type, Panel
<1>5. Numbered'
  <2>1. \A p \in sent : p.edit \in Nat
    BY DEF Delivery, Shapes, Prompts
  <2>2. QED
    BY <1>1, <2>1 DEF Delivery, Numbered
<1>6. Resent'
  <2>1. \A p \in sent : p.edit \in Nat /\ p.edit <= edits
    BY DEF Delivery, Shapes, Prompts, Numbered
  <2>2. QED
    BY <1>1, <2>1 DEF Resent
<1>7. Single' /\ Retired' /\ Owed' /\ KeyNamesOnePrompt' /\ DraftHasOneKey'
  BY <1>1 DEF Delivery, Single, Retired, Owed, KeyNamesOnePrompt, DraftHasOneKey
<1>8. QED
  BY <1>3, <1>4, <1>5, <1>6, <1>7 DEF Delivery

(* What RuntimeUntilAccepted says of a prompt that goes out.               *)
RuntimeIsOwed(p) ==
    LET seen == {q \in accepted : q.session = p.session} IN
    /\ p.session \in untouched => (p.runtime <=> seen = {})
    /\ p.runtime => p.session \in born /\ \A q \in seen : ~q.runtime

(* A prompt that goes out, from the composer or the chooser.               *)
LEMMA PostStep ==
    ASSUME Delivery, Post, ~prompting, draft # NoDraft, chooser' = FALSE,
           UNCHANGED <<daemon, detail, draft, busy, reading, born, untouched, model, edits,
                       accepted>>
    PROVE  /\ Delivery'
           /\ \A p \in unanswered' \ unanswered :
                 /\ \A q \in accepted : q.model = p.model => q.key # p.key
                 /\ RuntimeIsOwed(p)
<1> DEFINE reused == CHOOSE q \in Reusable : TRUE
           p == [session |-> detail, text |-> draft.text, runtime |-> SelectsRuntime,
                 key |-> IF Reusable = {} THEN next ELSE reused.key,
                 model |-> model, edit |-> draft.edit]
<1>1. /\ next <= MaxMessages /\ failed' = {} /\ prompting' = TRUE
      /\ next' = IF Reusable = {} THEN next + 1 ELSE next
      /\ unanswered' = unanswered \cup {p} /\ sent' = sent \cup {p}
      /\ UNCHANGED <<created, creating>>
  BY DEF Post, Advanced
<1>2. /\ p.session = detail /\ p.text = draft.text /\ p.model = model /\ p.edit = draft.edit
      /\ p.runtime = SelectsRuntime
      /\ p.key = IF Reusable = {} THEN next ELSE reused.key
  OBVIOUS
<1>3. Reusable # {} =>
        reused \in failed /\ reused.session = detail /\ reused.text = draft.text
  BY DEF Reusable
<1> HIDE DEF reused
<1>4. \A q \in failed : q \in sent /\ q.model = model
  BY DEF Delivery, Single
<1>5. next \in Nat /\ next' \in Keys /\ p.key \in Keys /\ p.key < next'
  <2>1. next \in 1..(MaxMessages + 1) /\ MaxMessages \in Nat
    BY ConstantsAssumption DEF Delivery, Shapes, Keys
  <2>2. CASE Reusable = {}
    BY <2>1, <2>2, <1>1, <1>2 DEF Keys
  <2>3. CASE Reusable # {}
    <3>1. reused \in sent /\ reused.model = model
      BY <2>3, <1>3, <1>4
    <3>2. reused.key \in Keys /\ reused.key < next
      BY <3>1 DEF Delivery, Shapes, Prompts, Numbered
    <3>3. QED
      BY <2>1, <2>3, <3>2, <1>1, <1>2 DEF Keys
  <2>4. QED
    BY <2>2, <2>3
<1>6. detail \in Sessions /\ draft.text \in Texts /\ draft.edit \in 1..MaxDrafts /\ draft.edit <= edits
  BY DraftShape DEF Delivery, Shapes, Panel
<1>7. p \in Prompts
  <2>1. SelectsRuntime \in BOOLEAN /\ model \in 0..MaxSwitches
    BY DEF SelectsRuntime, Delivery, Shapes
  <2>2. (IF Reusable = {} THEN next ELSE reused.key) \in Keys
    BY <1>5, <1>2
  <2>3. QED
    BY <1>6, <2>1, <2>2 DEF Prompts
<1> HIDE DEF p
<1>8. Own = {} /\ Own' = {p}
  <2>1. Own = {}
    BY DEF Delivery, Single
  <2>2. QED
    BY <2>1, <1>1, <1>2 DEF Own
<1>9. Shapes'
  BY <1>1, <1>5, <1>7 DEF Delivery, Shapes, daemon
<1>10. Panel'
  BY DEF Delivery, Panel
<1>11. Single'
  BY <1>1, <1>2, <1>8 DEF Single
<1>12. Numbered'
  <2>1. ASSUME NEW q \in sent
        PROVE  q.model <= model /\ q.edit <= edits /\ (q.model = model => q.key < next')
    <3>1. q.model <= model /\ q.edit <= edits /\ (q.model = model => q.key < next) /\ q.key \in Nat
      BY DEF Delivery, Numbered, Shapes, Prompts, Keys
    <3>2. QED
      BY <3>1, <1>1, <1>5
  <2>2. p.model <= model /\ p.edit <= edits /\ p.key < next'
    BY <1>2, <1>5, <1>6, ConstantsAssumption DEF Delivery, Shapes
  <2>3. QED
    BY <1>1, <2>1, <2>2 DEF Numbered
<1>13. Resent'
  BY <1>1, <1>2, <1>8 DEF Resent
<1>14. \A q \in accepted : q.model = model => q.key # p.key
  <2>1. CASE Reusable = {}
    BY <2>1, <1>2, <1>5 DEF Delivery, Shapes, Numbered, Prompts, Keys
  <2>2. CASE Reusable # {}
    BY <2>2, <1>2, <1>3 DEF Delivery, Retired
  <2>3. QED
    BY <2>1, <2>2
<1>15. Retired'
  BY <1>1, <1>8, <1>14 DEF Retired
<1>16. Owed'
  BY <1>1, <1>2 DEF Delivery, Owed, SelectsRuntime, Shapes
<1>17. KeyNamesOnePrompt'
  <2>1. ASSUME NEW q \in sent, q.model = model, q.key = p.key
        PROVE  q.session = p.session /\ q.text = p.text
    <3>1. Reusable # {}
      BY <2>1, <1>2, <1>5 DEF Delivery, Numbered
    <3>2. reused \in sent /\ reused.model = q.model /\ reused.key = q.key
      BY <3>1, <2>1, <1>2, <1>3, <1>4
    <3>3. QED
      BY <3>1, <3>2, <1>2, <1>3 DEF Delivery, KeyNamesOnePrompt
  <2>2. QED
    BY <2>1, <1>1, <1>2 DEF Delivery, KeyNamesOnePrompt
<1>18. DraftHasOneKey'
  <2>1. ASSUME NEW q \in sent, q.edit = p.edit
        PROVE  q.key = p.key /\ q.model = p.model
    <3>1. PICK f \in failed : f.edit = draft.edit /\ f.session = detail /\ f.text = draft.text
      BY <2>1, <1>2, <1>8 DEF Delivery, Resent
    <3>2. f \in Reusable
      BY <3>1 DEF Reusable
    <3>3. reused = f
      BY <3>2, <1>3 DEF Delivery, Single
    <3>4. q.key = f.key /\ q.model = f.model
      BY <2>1, <3>1, <1>2, <1>4 DEF Delivery, DraftHasOneKey
    <3>5. QED
      BY <3>2, <3>3, <3>4, <1>2, <1>4
  <2>2. QED
    BY <2>1, <1>1 DEF Delivery, DraftHasOneKey
<1>19. RuntimeIsOwed(p)
  BY <1>2 DEF Delivery, Owed, Shapes, SelectsRuntime, RuntimeIsOwed
<1>20. QED
  BY <1>1, <1>2, <1>9, <1>10, <1>11, <1>12, <1>13, <1>14, <1>15, <1>16, <1>17, <1>18, <1>19
     DEF Delivery

(* The answer of a prompt of this Model is that of the only one on its way.*)
LEMMA AnswerStep ==
    ASSUME Delivery, NEW p \in unanswered, p.model = model, Accepted(p) \/ Failed(p)
    PROVE  Delivery'
<1>1. /\ unanswered' = unanswered \ {p} /\ prompting' = FALSE
      /\ failed' \in {{}, {p}}
      /\ UNCHANGED <<detail, busy, chooser, next, creating, reading, born, untouched, model, edits,
                     sent, catalog, made>>
  BY DEF Accepted, Failed, daemon, screen, past
<1>2. Own = {p} /\ prompting /\ failed = {} /\ ~chooser
  BY DEF Own, Delivery, Single, Panel
<1>3. Own' = {}
  BY <1>1, <1>2 DEF Own
<1>4. p \in sent /\ p \in Prompts
  BY DEF Delivery, Shapes
<1>5. Single' /\ Numbered' /\ KeyNamesOnePrompt' /\ DraftHasOneKey'
  BY <1>1, <1>3, <1>4 DEF Delivery, Single, Numbered, KeyNamesOnePrompt, DraftHasOneKey
<1>6. CASE Accepted(p)
  <2>1. /\ accepted' = accepted \cup {p} /\ failed' = {} /\ created' = created \ {p.session}
        /\ draft' = IF detail = p.session THEN NoDraft ELSE draft
    BY <1>6 DEF Accepted
  <2>2. Shapes'
    BY <1>1, <1>4, <2>1 DEF Delivery, Shapes, Drafts
  <2>3. Panel'
    BY <1>1, <1>2, <2>1 DEF Delivery, Panel
  <2>4. Resent'
    BY <1>1, <1>2, <2>1 DEF Delivery, Resent
  <2>5. Retired'
    BY <1>3, <2>1 DEF Retired
  <2>6. Owed'
    BY <1>1, <2>1 DEF Delivery, Owed
  <2>7. QED
    BY <1>5, <2>2, <2>3, <2>4, <2>5, <2>6 DEF Delivery
<1>7. CASE Failed(p)
  <2>1. failed' = {p} /\ UNCHANGED <<created, accepted, draft>>
    BY <1>7 DEF Failed, past, screen
  <2>2. Shapes'
    BY <1>1, <1>4, <2>1 DEF Delivery, Shapes
  <2>3. Panel'
    BY <1>1, <2>1 DEF Delivery, Panel
  <2>4. Resent'
    BY <1>1, <1>2, <2>1 DEF Delivery, Resent
  <2>5. Retired'
    BY <1>1, <1>2, <1>3, <2>1 DEF Delivery, Retired
  <2>6. Owed'
    BY <1>1, <2>1 DEF Delivery, Owed
  <2>7. QED
    BY <1>5, <2>2, <2>3, <2>4, <2>5, <2>6 DEF Delivery
<1>8. QED
  BY <1>6, <1>7

LEMMA AnsweredLateStep ==
    ASSUME Delivery, NEW p \in unanswered, AnsweredLate(p)
    PROVE  Delivery'
<1>1. /\ p.model # model /\ unanswered' = unanswered \ {p}
      /\ UNCHANGED <<daemon, screen, writes, reading, past>>
  BY DEF AnsweredLate
<1>2. Own' = Own
  BY <1>1 DEF Own, past
<1>3. Shapes' /\ Panel'
  BY <1>1 DEF Delivery, Shapes, Panel, daemon, screen, writes, past
<1>4. Single' /\ Numbered' /\ Resent' /\ Retired' /\ Owed'
  BY <1>1, <1>2 DEF Delivery, Single, Numbered, Resent, Retired, Owed, screen, writes, past
<1>5. KeyNamesOnePrompt' /\ DraftHasOneKey'
  BY <1>1 DEF Delivery, KeyNamesOnePrompt, DraftHasOneKey, past
<1>6. QED
  BY <1>3, <1>4, <1>5 DEF Delivery

(* A session that is born was not counted as created before.               *)
LEMMA SessionStep ==
    ASSUME Delivery,
           Create \/ CreateFailed \/ \E s \in Sessions : Appears(s) \/ Created(s)
    PROVE  Delivery'
<1>1. /\ UNCHANGED <<screen, prompting, failed, next, reading, unanswered, model, edits, sent,
                     accepted>>
      /\ creating' \in BOOLEAN
  BY DEF Create, CreateFailed, Appears, Created, writes, past, Delivery, Shapes
<1>2. Own' = Own
  BY <1>1 DEF Own
<1>3. ASSUME UNCHANGED <<born, created, untouched>>
      PROVE  Shapes' /\ Owed'
  <2>1. /\ catalog' \subseteq Sessions /\ made' \subseteq catalog'
        /\ born \subseteq catalog' /\ made' \cap born = {}
    BY <1>3 DEF Create, CreateFailed, Appears, Created, daemon, Delivery, Shapes
  <2>2. Shapes'
    BY <1>1, <1>3, <2>1 DEF Delivery, Shapes, screen
  <2>3. Owed'
    BY <1>1, <1>3 DEF Delivery, Owed
  <2> QED
    BY <2>2, <2>3
<1>4. ASSUME NEW s \in Sessions, Created(s)
      PROVE  Shapes' /\ Owed'
  <2>1. /\ s \in catalog /\ s \notin born /\ s \notin untouched
        /\ catalog' = catalog /\ made' = {}
        /\ born' = born \cup {s} /\ created' = created \cup {s}
        /\ untouched' = IF \E p \in sent : p.session = s THEN untouched ELSE untouched \cup {s}
    BY <1>4 DEF Created, UntouchedWith, Delivery, Shapes
  <2>2. Shapes'
    BY <1>1, <2>1 DEF Delivery, Shapes, screen
  <2>3. \A q \in accepted : q.runtime => q.session \notin created'
    BY <2>1 DEF Delivery, Owed, Shapes
  <2>4. ASSUME NEW t \in untouched'
        PROVE  t \in created' <=> {q \in accepted : q.session = t} = {}
    <3>1. CASE t = s
      BY <2>1, <3>1 DEF Delivery, Shapes
    <3>2. CASE t # s
      BY <2>1, <3>2 DEF Delivery, Owed
    <3> QED
      BY <3>1, <3>2
  <2>5. \A p \in sent : p.runtime => p.session \in born'
    BY <2>1 DEF Delivery, Owed
  <2>6. Owed'
    BY <1>1, <2>3, <2>4, <2>5 DEF Owed
  <2> QED
    BY <2>2, <2>6
<1>5. Create \/ CreateFailed \/ (\E s \in Sessions : Appears(s))
      => UNCHANGED <<born, created, untouched>>
  BY DEF Create, CreateFailed, Appears, writes, past
<1>6. Shapes' /\ Owed'
  BY <1>3, <1>4, <1>5
<1>7. Panel' /\ Single' /\ Numbered' /\ Resent' /\ Retired'
  BY <1>1, <1>2 DEF Delivery, Panel, Single, Numbered, Resent, Retired, screen
<1>8. KeyNamesOnePrompt' /\ DraftHasOneKey'
  BY <1>1 DEF Delivery, KeyNamesOnePrompt, DraftHasOneKey
<1>9. QED
  BY <1>6, <1>7, <1>8 DEF Delivery

(* A new Model has sent nothing: what is on its way belongs to earlier ones.*)
LEMMA SwitchStep ==
    ASSUME Delivery, Switch
    PROVE  Delivery'
<1>1. model \in Nat /\ model' = model + 1 /\ model' \in 0..MaxSwitches
  BY ConstantsAssumption DEF Delivery, Shapes, Switch
<1>2. /\ detail' = NoId /\ draft' = NoDraft /\ busy' = FALSE
      /\ prompting' = FALSE /\ failed' = {} /\ next' = 1 /\ created' = {} /\ creating' = FALSE
      /\ reading' = {} /\ chooser' = chooser /\ chooser = FALSE
      /\ made' = {} /\ untouched' = {}
      /\ UNCHANGED <<unanswered, born, edits, sent, accepted, catalog>>
  BY DEF Switch, Delivery, Shapes
<1>3. \A p \in sent : p.model \in Nat /\ p.model <= model /\ p.edit <= edits
  BY DEF Delivery, Shapes, Numbered, Prompts
<1>4. Own' = {}
  BY <1>1, <1>2, <1>3 DEF Own, Delivery, Shapes
<1>5. 1 \in Keys
  BY ConstantsAssumption DEF Keys
<1>6. Shapes'
  BY <1>1, <1>2, <1>5 DEF Delivery, Shapes, Drafts
<1>7. Numbered'
  BY <1>1, <1>2, <1>3 DEF Numbered
<1>8. Panel' /\ Single' /\ Resent' /\ Retired' /\ Owed'
  BY <1>2, <1>4 DEF Delivery, Panel, Single, Resent, Retired, Owed
<1>9. KeyNamesOnePrompt' /\ DraftHasOneKey'
  BY <1>2 DEF Delivery, KeyNamesOnePrompt, DraftHasOneKey
<1>10. QED
  BY <1>6, <1>7, <1>8, <1>9 DEF Delivery

(* Enter in the composer and in the chooser: the prompt goes out, if it    *)
(* does, with nothing else on its way.                                     *)
LEMMA Posting ==
    ASSUME Delivery, (Send /\ ~busy) \/ Choose
    PROVE  /\ Post /\ ~prompting /\ draft # NoDraft /\ chooser' = FALSE
           /\ UNCHANGED <<daemon, detail, draft, busy, reading, born, untouched, model, edits,
                       accepted>>
BY DEF Delivery, Panel, Shapes, Send, Choose

LEMMA ScreenActions ==
    ASSUME Delivery,
           \/ \E s \in Sessions : Open(s)
           \/ Leave
           \/ \E s \in Sessions, running \in BOOLEAN : SessionRead(s, running)
           \/ ClearDraft
           \/ LeaveChooser
           \/ Send /\ busy
    PROVE  Delivery'
<1> USE DEF daemon, screen, writes, past
<1>1. Shapes /\ Panel
  BY DEF Delivery
<1>2. ASSUME NEW s \in Sessions, Open(s) PROVE Delivery'
  <2>1. Shapes' /\ chooser' = FALSE /\ detail' # NoId
    BY <1>1, <1>2, ConstantsAssumption DEF Open, Shapes, Drafts
  <2>2. QED
    BY <1>2, <2>1, ScreenStep DEF Open
<1>3. CASE Leave
  <2>1. Shapes' /\ chooser' = FALSE
    BY <1>1, <1>3 DEF Leave, Shapes, Drafts
  <2>2. QED
    BY <1>3, <2>1, ScreenStep DEF Leave
<1>4. ASSUME NEW s \in Sessions, NEW running \in BOOLEAN, SessionRead(s, running) PROVE Delivery'
  <2>1. Shapes'
    BY <1>1, <1>4 DEF SessionRead, Shapes
  <2>2. QED
    BY <1>1, <1>4, <2>1, ScreenStep DEF SessionRead, Panel
<1>5. CASE ClearDraft
  <2>1. Shapes' /\ chooser' = FALSE
    BY <1>1, <1>5 DEF ClearDraft, Shapes, Drafts
  <2>2. QED
    BY <1>5, <2>1, ScreenStep DEF ClearDraft
<1>6. CASE LeaveChooser
  <2>1. Shapes' /\ chooser' = FALSE
    BY <1>1, <1>6 DEF LeaveChooser, Shapes
  <2>2. QED
    BY <1>1, <1>6, <2>1, ScreenStep DEF LeaveChooser, Panel
<1>7. CASE Send /\ busy
  <2>1. /\ chooser' = TRUE /\ ~prompting /\ draft # NoDraft
        /\ UNCHANGED <<daemon, writes, unanswered, sent, detail, draft, busy, reading, past>>
    BY <1>7 DEF Send
  <2>2. Shapes'
    BY <1>1, <2>1 DEF Shapes
  <2>3. QED
    BY <1>1, <2>1, <2>2, ScreenStep DEF Panel
<1>8. QED
  BY Zenon, <1>2, <1>3, <1>4, <1>5, <1>6, <1>7

LEMMA DeliveryStep == Delivery /\ [Next]_vars => Delivery'
<1> SUFFICES ASSUME Delivery, [Next]_vars PROVE Delivery'
  OBVIOUS
<1>1. ASSUME NEW text \in Texts, Type(text) PROVE Delivery'
  BY <1>1, TypeStep
<1>2. CASE (Send /\ ~busy) \/ Choose
  BY <1>2, Posting, PostStep
<1>3. ASSUME NEW p \in unanswered, Accepted(p) \/ Failed(p) PROVE Delivery'
  <2>1. p.model = model
    BY <1>3 DEF Accepted, Failed
  <2>2. QED
    BY <1>3, <2>1, AnswerStep
<1>4. ASSUME NEW p \in unanswered, AnsweredLate(p) PROVE Delivery'
  BY <1>4, AnsweredLateStep
<1>5. CASE Create \/ CreateFailed \/ \E s \in Sessions : Appears(s) \/ Created(s)
  BY <1>5, SessionStep
<1>6. CASE Switch
  BY <1>6, SwitchStep
<1>7. CASE UNCHANGED vars
  BY <1>7 DEF vars, daemon, screen, writes, past, Delivery, Shapes, Panel, Single, Numbered, Resent,
              Retired, Owed, KeyNamesOnePrompt, DraftHasOneKey, Own
<1>8. QED
  BY Zenon, ScreenActions, <1>1, <1>2, <1>3, <1>4, <1>5, <1>6, <1>7 DEF Next
-----------------------------------------------------------------------------
(* Results.                                                                *)

LEMMA AtMostOne ==
    ASSUME NEW S, \A p, q \in S : p = q
    PROVE  Cardinality(S) \in Nat /\ Cardinality(S) <= 1
<1>1. CASE S = {}
  BY <1>1, FS_EmptySet
<1>2. CASE S # {}
  <2>1. PICK p : S = {p}
    BY <1>2
  <2>2. Cardinality({p}) = 1
    BY FS_Singleton, Zenon
  <2>3. Cardinality(S) = 1
    BY <2>1, <2>2, Zenon
  <2>4. QED
    BY <2>3
<1>3. QED
  BY <1>1, <1>2

LEMMA DeliveryInvariant == Spec => []Delivery
BY DeliveryInit, DeliveryStep, PTL DEF Spec

(* TypeOK is an invariant; it rests on Panel, since what Enter in the      *)
(* chooser sends must not have been cleared under it.                      *)
THEOREM TypeCorrect == Spec => []TypeOK
<1>1. Delivery => TypeOK
  <2> SUFFICES ASSUME Delivery PROVE TypeOK
    OBVIOUS
  <2>1. Cardinality(failed) <= 1
    BY AtMostOne DEF Delivery, Single
  <2>2. QED
    BY <2>1 DEF Delivery, Shapes, TypeOK
<1>2. QED
  BY <1>1, DeliveryInvariant, PTL

(* A key names one prompt, in every Model.                                 *)
THEOREM KeysNamePrompts == Spec => []KeyNamesOnePrompt
<1>1. Delivery => KeyNamesOnePrompt
  BY DEF Delivery
<1>2. QED
  BY <1>1, DeliveryInvariant, PTL

(* A draft goes out under one key, however often it is sent again.         *)
THEOREM DraftsHaveKeys == Spec => []DraftHasOneKey
<1>1. Delivery => DraftHasOneKey
  BY DEF Delivery
<1>2. QED
  BY <1>1, DeliveryInvariant, PTL

(* One prompt at a time, and prompt_pending says whether there is one.     *)
THEOREM OneAtATime == Spec => []OnePromptAtATime
<1>1. Delivery => OnePromptAtATime
  <2> SUFFICES ASSUME Delivery PROVE OnePromptAtATime
    OBVIOUS
  <2>1. Cardinality(Own) <= 1
    BY AtMostOne DEF Delivery, Single
  <2>2. QED
    BY <2>1 DEF Delivery, Single, OnePromptAtATime, Own
<1>2. QED
  BY <1>1, DeliveryInvariant, PTL

(* No empty prompt is sent.                                                *)
THEOREM NoneEmpty == Spec => []NoEmptyPrompt
<1>1. Delivery => NoEmptyPrompt
  BY ConstantsAssumption DEF Delivery, Shapes, Prompts, NoEmptyPrompt
<1>2. QED
  BY <1>1, DeliveryInvariant, PTL

(* What a step sends is sent by Post.                                      *)
LEMMA SentByPost ==
    ASSUME Delivery, Next, NEW p \in unanswered' \ unanswered
    PROVE  (Send /\ ~busy) \/ Choose
<1>1. unanswered' \subseteq unanswered \/ (Send /\ ~busy) \/ Choose
  BY DEF Next, Open, Leave, SessionRead, Type, ClearDraft, Send, LeaveChooser, Accepted, Failed,
         AnsweredLate, Create, Appears, Created, CreateFailed, Switch
<1>2. QED
  BY <1>1

(* The keys of an accepted prompt are not used again.                      *)
THEOREM AcceptedKeysRetire == Spec => AcceptedKeyRetired
<1> DEFINE Fresh == \A p \in unanswered' \ unanswered :
                       \A q \in accepted : q.model = p.model => q.key # p.key
<1>1. Delivery /\ [Next]_vars => [Fresh]_vars
  <2> SUFFICES ASSUME Delivery, Next PROVE Fresh
    OBVIOUS
  <2>1. QED
    BY SentByPost, Posting, PostStep
<1>2. QED
  BY <1>1, DeliveryInvariant, PTL DEF Spec, AcceptedKeyRetired

(* A session created here, and not prompted before that was known, is      *)
(* prompted with the preset provider up to the first prompt it accepts;    *)
(* none goes back to it, and no other session gets it.                     *)
THEOREM RuntimeOnce == Spec => RuntimeUntilAccepted
<1> DEFINE OwedOnly ==
      \A p \in unanswered' \ unanswered :
          LET seen == {q \in accepted : q.session = p.session} IN
          /\ p.session \in untouched => (p.runtime <=> seen = {})
          /\ p.runtime => p.session \in born /\ \A q \in seen : ~q.runtime
<1>1. Delivery /\ [Next]_vars => [OwedOnly]_vars
  <2> SUFFICES ASSUME Delivery, Next PROVE OwedOnly
    OBVIOUS
  <2>1. \A p \in unanswered' \ unanswered : RuntimeIsOwed(p)
    BY SentByPost, Posting, PostStep
  <2>2. QED
    BY <2>1 DEF RuntimeIsOwed
<1>2. QED
  BY <1>1, DeliveryInvariant, PTL DEF Spec, RuntimeUntilAccepted
=============================================================================
