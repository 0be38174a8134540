------------------------------ MODULE Attention -------------------------------
(***************************************************************************)
(* The attention panel: permissions, clarifications and tasks that wait    *)
(* for the user, gathered from reads that arrive in any order and from the *)
(* transcript on screen, listed in one panel, and answered from it by the  *)
(* row that is selected.                                                   *)
(*                                                                         *)
(* The permissions of a session are those of the last page read of it,     *)
(* except for the session on screen: its pages are not asked for again,    *)
(* and every refresh takes its permissions from the transcript shown.      *)
(* Which rows a transcript shows is the subject of TranscriptSync; here    *)
(* its stream brings every change in the end.                              *)
(***************************************************************************)
EXTENDS Naturals, Sequences, FiniteSets

CONSTANTS
    Sessions,       \* the sessions of the list, all of them visible
    Perms, Clars, Tasks,    \* what may wait for the user
    SessionOf,      \* the session of a permission or clarification
    Always,         \* the permissions that offer the persistent decisions
    Waiting,        \* what is open already when the panel is first filled
    Order,          \* the items as the panel orders them
    NoId,           \* no session on screen, no overlay
    MaxMoves,       \* bound: sessions opened, older pages asked for, reads failed
    MaxPosts        \* bound: writes on their way

Items == Perms \cup Clars \cup Tasks

ASSUME ConstantsAssumption ==
    /\ Perms \cap Clars = {} /\ Perms \cap Tasks = {} /\ Clars \cap Tasks = {}
    /\ SessionOf \in [Perms \cup Clars -> Sessions]
    /\ Always \subseteq Perms
    /\ Waiting \subseteq Items
    /\ Order \in Seq(Items)
    /\ NoId \notin Sessions \cup Items
    /\ MaxMoves \in Nat /\ MaxPosts \in Nat

VARIABLES
    status,         \* the daemon's: not asked yet, open or closed
    detail,         \* the session on screen, or NoId
    panel,          \* the permissions as its transcript shows them
    perms,          \* Model.attention_permissions
    clars,          \* Model.attention_clarifications
    tasks,          \* Model.attention_overview
    items,          \* Model.attention
    selected,       \* Model.attention_selected, counted from 1, or 0 for none
    confirm,        \* attention_confirm or inline_permission_confirm: at most one
    overlay,        \* the clarification of Overlay::Clarify, or NoId
    reads,          \* reads on their way, with what they have seen
    posts,          \* decisions and answers on their way
    moves           \* history: sessions opened, older pages asked for, reads failed

lists == <<perms, clars, tasks, items, selected>>
attentionVars == <<status, detail, panel, lists, confirm, overlay, reads, posts, moves>>

-----------------------------------------------------------------------------
Statuses == {"none", "open", "closed"}
Decisions == {"once", "always"}

(* An Overview, the Clarifications of a session, its VisibleTranscript,    *)
(* and, when it is opened or scrolled up, its TranscriptPage.              *)
Reads == [kind : {"overview"}, session : {NoId}] \cup
         [kind : {"clars", "visible", "newest", "older"}, session : Sessions]
Read(kind, s) == [kind |-> kind, session |-> s]

(* What a read can tell of.  No permission is undecided in an older page,  *)
(* for its turn waits for it.                                              *)
Scope(r) ==
    CASE r.kind = "overview" -> Tasks
      [] r.kind = "clars" -> {c \in Clars : SessionOf[c] = r.session}
      [] r.kind = "older" -> {}
      [] OTHER -> {p \in Perms : SessionOf[p] = r.session}

(* What it sees now.  Only a page opened tells what was decided from what  *)
(* was not asked; of the others only what is open is taken.                *)
Seen(r) ==
    [read |-> r, seen |-> [i \in Scope(r) |->
        IF status[i] = "open" \/ r.kind = "newest" THEN status[i] ELSE "none"]]

(* A decision, an answer or a task verb, with, as history, the item whose  *)
(* row it was meant for.                                                   *)
Posts == [item : Items, decision : Decisions, asked : Items]

(* attention_confirm, with the item of the row as history, or, with index  *)
(* 0, inline_permission_confirm, which holds the item itself.              *)
Confirms == [index : 0..Len(Order), asked : Perms]

AttentionTypeOK ==
    /\ status \in [Items -> Statuses]
    /\ detail \in Sessions \cup {NoId}
    /\ panel \in [Perms -> Statuses]
    /\ perms \in SUBSET Perms /\ clars \in SUBSET Clars /\ tasks \in SUBSET Tasks
    /\ items \in Seq(Items)
    /\ Len(items) <= Len(Order) /\ selected \in 0..Len(Order) \cup {1}
    /\ confirm \in SUBSET Confirms /\ Cardinality(confirm) <= 1
    /\ overlay \in Clars \cup {NoId}
    /\ \A a \in reads : a.read \in Reads /\ a.seen \in [Scope(a.read) -> Statuses]
    /\ posts \in SUBSET Posts
    /\ moves \in 0..MaxMoves

AttentionInit ==
    /\ status = [i \in Items |-> IF i \in Waiting THEN "open" ELSE "none"]
    /\ detail = NoId /\ panel = [p \in Perms |-> "none"]
    /\ perms = {} /\ clars = {} /\ tasks = {} /\ items = <<>> /\ selected = 0
    /\ confirm = {} /\ overlay = NoId
    /\ reads = {Seen(Read("overview", NoId))} /\ posts = {}
    /\ moves = 0

Open(known) == {i \in DOMAIN known : known[i] = "open"}
OfSession(set, s) == {i \in set : SessionOf[i] = s}

-----------------------------------------------------------------------------
(* What the handlers share.                                                *)

(* The items of a set as the panel orders them.                            *)
Listed(set) ==
    LET upTo[n \in 0..Len(Order)] ==
            IF n = 0 THEN <<>>
            ELSE IF Order[n] \in set THEN Append(upTo[n - 1], Order[n])
            ELSE upTo[n - 1]
    IN  upTo[Len(Order)]

(* panels::attention::rebuild: the list from its three sources, and the    *)
(* selection brought back into it.                                         *)
Rebuild(p, c, t) ==
    /\ items' = Listed(p \cup c \cup t)
    /\ selected' = IF items' = <<>> THEN 0
                   ELSE IF selected = 0 THEN 1
                   ELSE IF selected > Len(items') THEN Len(items') ELSE selected

(* Mutation: the transcript on screen is not consulted.                    *)
SyncedNot(known, p, s) == p

(* panels::attention::sync_open_detail, given the transcript, what was     *)
(* listed and the session on screen.                                       *)
Synced(known, listed, s) ==
    IF s = NoId THEN listed
    ELSE (listed \ OfSession(Perms, s)) \cup OfSession(Open(known), s)

(* panels::attention::refresh: the reads it asks for.                      *)
Refreshed ==
    {Seen(r) : r \in {Read("overview", NoId)} \cup {Read("clars", s) : s \in Sessions}
        \cup {Read("visible", s) : s \in Sessions \ {detail}}}

(* A refresh of its own: what the transcript shows is taken over, the list *)
(* is not rebuilt before an answer arrives.                                *)
RefreshOnly ==
    /\ perms' = Synced(panel, perms, detail)
    /\ reads' = reads \cup Refreshed
    /\ UNCHANGED <<clars, tasks, items, selected>>

-----------------------------------------------------------------------------
(* The daemon, external: items are asked once and closed once, reads show  *)
(* what is open when they are made.                                        *)
Ask(i) ==
    /\ status[i] = "none"
    /\ status' = [status EXCEPT ![i] = "open"]
    /\ UNCHANGED <<detail, panel, lists, confirm, overlay, reads, posts, moves>>

(* Decided elsewhere, expired, or its turn ended.                          *)
Close(i) ==
    /\ status[i] = "open"
    /\ status' = [status EXCEPT ![i] = "closed"]
    /\ UNCHANGED <<detail, panel, lists, confirm, overlay, reads, posts, moves>>

(* A read is made some time after it was asked for.                        *)
Serve(a) ==
    /\ reads' = (reads \ {a}) \cup {Seen(a.read)}
    /\ UNCHANGED <<status, detail, panel, lists, confirm, overlay, posts, moves>>

(* api::failure on a read: only an overview has the list rebuilt.          *)
ReadFails(a) ==
    /\ moves < MaxMoves
    /\ moves' = moves + 1
    /\ reads' = reads \ {a}
    /\ IF a.read.kind = "overview" THEN Rebuild(perms, clars, tasks)
       ELSE UNCHANGED <<items, selected>>
    /\ UNCHANGED <<status, detail, panel, perms, clars, tasks, confirm, overlay, posts>>

-----------------------------------------------------------------------------
(* Reads and deltas arrive.                                                *)

(* panels::attention::apply_transcript: the permissions of the session are *)
(* those undecided in the page.                                            *)
ApplyTranscript(a) ==
    /\ perms' = (perms \ OfSession(Perms, a.read.session)) \cup Open(a.seen)
    /\ UNCHANGED <<clars, tasks>>
    /\ Rebuild(perms', clars, tasks)

(* api::apply on VisibleTranscript.                                        *)
VisibleArrives(a) ==
    /\ a.read.kind = "visible"
    /\ reads' = reads \ {a}
    /\ ApplyTranscript(a)
    /\ UNCHANGED <<status, detail, panel, confirm, overlay, posts, moves>>

(* api::apply on TranscriptPage, which then also brings the transcript on  *)
(* screen the entries it has not.                                          *)
PageArrives(a) ==
    /\ a.read.kind \in {"newest", "older"}
    /\ reads' = reads \ {a}
    /\ ApplyTranscript(a)
    /\ panel' = IF detail # a.read.session THEN panel
                ELSE [p \in Perms |-> IF p \in DOMAIN a.seen /\ panel[p] = "none"
                                      THEN a.seen[p] ELSE panel[p]]
    /\ UNCHANGED <<status, detail, confirm, overlay, posts, moves>>

(* api::apply on Clarifications.                                           *)
ClarsArrive(a) ==
    /\ a.read.kind = "clars"
    /\ reads' = reads \ {a}
    /\ clars' = (clars \ OfSession(Clars, a.read.session)) \cup Open(a.seen)
    /\ UNCHANGED <<perms, tasks>>
    /\ Rebuild(perms, clars', tasks)
    /\ UNCHANGED <<status, detail, panel, confirm, overlay, posts, moves>>

(* api::apply on Overview.                                                 *)
OverviewArrives(a) ==
    /\ a.read.kind = "overview"
    /\ reads' = reads \ {a}
    /\ tasks' = Open(a.seen)
    /\ UNCHANGED <<perms, clars>>
    /\ Rebuild(perms, clars, tasks')
    /\ UNCHANGED <<status, detail, panel, confirm, overlay, posts, moves>>

(* Mutation: the list is left to the refresh.                              *)
DeltaNotRebuilt(p) ==
    /\ SessionOf[p] = detail
    /\ panel[p] # status[p]
    /\ panel' = [panel EXCEPT ![p] = status[p]]
    /\ perms' = Synced(panel', perms, detail)
    /\ UNCHANGED <<clars, tasks, items, selected>>
    /\ reads' = reads \cup Refreshed
    /\ UNCHANGED <<status, detail, confirm, overlay, posts, moves>>

(* stream::stream on a delta or snapshot with a permission.                *)
Delta(p) ==
    /\ SessionOf[p] = detail
    /\ panel[p] # status[p]
    /\ panel' = [panel EXCEPT ![p] = status[p]]
    /\ perms' = Synced(panel', perms, detail)
    /\ UNCHANGED <<clars, tasks>>
    /\ Rebuild(perms', clars, tasks)
    /\ reads' = reads \cup Refreshed
    /\ UNCHANGED <<status, detail, confirm, overlay, posts, moves>>

(* timers::timer on AttentionPoll and CatalogDebounce.                     *)
Poll ==
    /\ RefreshOnly
    /\ UNCHANGED <<status, detail, panel, confirm, overlay, posts, moves>>

-----------------------------------------------------------------------------
(* Keys of the panel, with nothing open over it.                           *)
Keys == confirm = {} /\ overlay = NoId

(* Mutation: the end of the list is not minded.                            *)
MoveDownPast ==
    /\ Keys /\ items # <<>>
    /\ selected' = selected + 1
    /\ UNCHANGED <<status, detail, panel, perms, clars, tasks, items, confirm, overlay, reads,
                   posts, moves>>

(* attention::key on j and k; k selects the first row of an empty list.    *)
MoveDown ==
    /\ Keys /\ items # <<>>
    /\ selected' = IF selected < Len(items) THEN selected + 1 ELSE Len(items)
    /\ UNCHANGED <<status, detail, panel, perms, clars, tasks, items, confirm, overlay, reads,
                   posts, moves>>

MoveUp ==
    /\ Keys
    /\ selected' = IF selected > 1 THEN selected - 1 ELSE 1
    /\ UNCHANGED <<status, detail, panel, perms, clars, tasks, items, confirm, overlay, reads,
                   posts, moves>>

Write(i, decision, asked) ==
    [item |-> i, decision |-> decision, asked |-> asked]

(* Mutation: the row is taken for the permission it was.                   *)
VerbUnchecked(row, decision, asked) ==
    {Write(items[i], decision, asked) : i \in {row} \cap DOMAIN items}

(* attention::verb: what is posted for a row, nothing if it does not offer *)
(* the decision.                                                           *)
Verb(row, decision, asked) ==
    {Write(items[i], decision, asked) : i \in {row} \cap {j \in DOMAIN items :
        \/ items[j] \in Perms /\ (decision = "always" => items[j] \in Always)
        \/ items[j] \in Tasks /\ decision = "once"}}

(* A write is refused while the daemon is offline or draining.             *)
PostOrRefuse(writes) ==
    /\ posts' \in {posts, posts \cup writes}
    /\ Cardinality(posts') <= MaxPosts

(* attention::key on a and x, and on r for a task.                         *)
Decision ==
    /\ Keys /\ selected \in DOMAIN items
    /\ PostOrRefuse(Verb(selected, "once", items[selected]))
    /\ UNCHANGED <<status, detail, panel, lists, confirm, overlay, reads, moves>>

(* attention::persistent, on A and X: the row is remembered, not the item. *)
Persistent ==
    /\ Keys /\ selected \in DOMAIN items
    /\ items[selected] \in Always
    /\ confirm' = {[index |-> selected, asked |-> items[selected]]}
    /\ UNCHANGED <<status, detail, panel, lists, overlay, reads, posts, moves>>

(* attention::confirm *)
Confirm(c) ==
    /\ overlay = NoId
    /\ c.index # 0
    /\ confirm' = {}
    /\ selected' = c.index
    /\ PostOrRefuse(Verb(c.index, "always", c.asked))
    /\ UNCHANGED <<status, detail, panel, perms, clars, tasks, items, overlay, reads, moves>>

(* attention::inline_key on the card of a transcript entry, undecided or   *)
(* not.                                                                    *)
InlineDecision(p) ==
    /\ Keys
    /\ panel[p] # "none"
    /\ PostOrRefuse({Write(p, "once", p)})
    /\ UNCHANGED <<status, detail, panel, lists, confirm, overlay, reads, moves>>

InlinePersistent(p) ==
    /\ Keys
    /\ panel[p] # "none" /\ p \in Always
    /\ confirm' = {[index |-> 0, asked |-> p]}
    /\ UNCHANGED <<status, detail, panel, lists, overlay, reads, posts, moves>>

(* attention::confirm_inline *)
ConfirmInline(c) ==
    /\ overlay = NoId
    /\ c.index = 0
    /\ confirm' = {}
    /\ PostOrRefuse({Write(c.asked, "always", c.asked)})
    /\ UNCHANGED <<status, detail, panel, lists, overlay, reads, moves>>

(* attention::cancel_confirm, on Esc. *)
CancelConfirm ==
    /\ confirm # {} /\ overlay = NoId
    /\ confirm' = {}
    /\ UNCHANGED <<status, detail, panel, lists, overlay, reads, posts, moves>>

(* keys::open_session_id from this panel or the list of sessions: nothing  *)
(* is known of the transcript, its newest page is asked for.               *)
Show(s) ==
    /\ moves < MaxMoves
    /\ moves' = moves + 1
    /\ detail' = s
    /\ panel' = [p \in Perms |-> "none"]
    /\ reads' = reads \cup {Seen(Read("newest", s)), Seen(Read("clars", s))}

OpenSession(s) ==
    /\ Keys
    /\ Show(s)
    /\ UNCHANGED <<status, lists, confirm, overlay, posts>>

(* attention::open on a clarification. *)
OpenClarify ==
    /\ Keys /\ selected \in DOMAIN items
    /\ items[selected] \in Clars
    /\ Show(SessionOf[items[selected]])
    /\ overlay' = items[selected]
    /\ UNCHANGED <<status, lists, confirm, posts>>

(* keys::open_run_id: the run takes the place of the session.              *)
OpenRun ==
    /\ Keys /\ detail # NoId
    /\ detail' = NoId
    /\ panel' = [p \in Perms |-> "none"]
    /\ UNCHANGED <<status, lists, confirm, overlay, reads, posts, moves>>

(* keys::move_up at the top of the transcript. *)
ScrollUp ==
    /\ Keys /\ detail # NoId
    /\ moves < MaxMoves
    /\ moves' = moves + 1
    /\ reads' = reads \cup {Seen(Read("older", detail))}
    /\ UNCHANGED <<status, detail, panel, lists, confirm, overlay, posts>>

(* clarify::key on Enter and on Esc.  The overlay stays until its answer   *)
(* is answered.                                                            *)
Answer ==
    /\ overlay # NoId
    /\ PostOrRefuse({Write(overlay, "once", overlay)})
    /\ UNCHANGED <<status, detail, panel, lists, confirm, overlay, reads, moves>>

LeaveOverlay ==
    /\ overlay # NoId
    /\ overlay' = NoId
    /\ UNCHANGED <<status, detail, panel, lists, confirm, reads, posts, moves>>

-----------------------------------------------------------------------------
(* Writes are answered: api::apply and api::failure on Approve,            *)
(* AnswerClarification and TaskVerb.  The write closes its item when it is *)
(* answered or, as Close, before.                                          *)

(* A permission the daemon does not know is taken off the list at once,    *)
(* before the refresh.                                                     *)
NotFound(w) ==
    /\ w.item \in Perms /\ status[w.item] = "closed"
    /\ posts' = posts \ {w}
    /\ Rebuild(perms \ {w.item}, clars, tasks)
    /\ perms' = Synced(panel, perms \ {w.item}, detail)
    /\ reads' = reads \cup Refreshed
    /\ UNCHANGED <<status, detail, panel, clars, tasks, confirm, overlay, moves>>

(* Done, or refused, or broken off: the outcomes differ in their toasts.   *)
Answered(w) ==
    /\ posts' = posts \ {w}
    /\ status' \in {status, [status EXCEPT ![w.item] = "closed"]}
    /\ overlay' = IF w.item \in Clars THEN NoId ELSE overlay
    /\ RefreshOnly
    /\ UNCHANGED <<detail, panel, confirm, moves>>

-----------------------------------------------------------------------------
Arrives(a) ==
    VisibleArrives(a) \/ PageArrives(a) \/ ClarsArrive(a) \/ OverviewArrives(a)

AttentionNext ==
    \/ \E i \in Items : Ask(i)
    \/ \E i \in Items : Close(i)
    \/ \E a \in reads : Serve(a)
    \/ \E a \in reads : ReadFails(a)
    \/ \E a \in reads : Arrives(a)
    \/ \E p \in Perms : Delta(p)
    \/ Poll
    \/ MoveDown
    \/ MoveUp
    \/ Decision
    \/ Persistent
    \/ \E c \in confirm : Confirm(c)
    \/ \E p \in Perms : InlineDecision(p)
    \/ \E p \in Perms : InlinePersistent(p)
    \/ \E c \in confirm : ConfirmInline(c)
    \/ CancelConfirm
    \/ \E s \in Sessions : OpenSession(s)
    \/ OpenClarify
    \/ OpenRun
    \/ ScrollUp
    \/ Answer
    \/ LeaveOverlay
    \/ \E w \in posts : NotFound(w)
    \/ \E w \in posts : Answered(w)

(* AttentionPoll is armed again whenever it fires, every read is answered, *)
(* and the stream of the session on screen goes on.                        *)
Fairness ==
    /\ WF_attentionVars(Poll)
    /\ \A r \in Reads : WF_attentionVars(\E a \in reads : a.read = r /\ Arrives(a))
    /\ \A p \in Perms : WF_attentionVars(Delta(p))

AttentionSpec == AttentionInit /\ [][AttentionNext]_attentionVars /\ Fairness

-----------------------------------------------------------------------------
(* Properties.                                                             *)

(* A persistent decision reaches only permissions that offer one, although *)
(* the list may have changed between the key and the confirmation.         *)
PersistentOffered ==
    \A w \in posts : w.decision = "always" => w.item \in Always

(* The card of the transcript and the item of the list are one: when the   *)
(* transcript on screen learns that a permission was decided, the list     *)
(* loses it in the same step.                                              *)
DecidedLeavesList ==
    [][\A p \in Perms :
          panel[p] # "closed" /\ panel'[p] = "closed"
              => \A n \in DOMAIN items' : items'[n] # p]_attentionVars

(* However reads, deltas, panels and answers are interleaved, in the end   *)
(* the list holds what is open and nothing else.                           *)
ListSettles ==
    <>[](\A i \in Items : status[i] = "open" <=> \E n \in DOMAIN items : items[n] = i)

(* A persistent decision is made for the permission its confirmation was   *)
(* asked for ("persistent permission requires confirm",                    *)
(* batuta-tui/tests/panels_attention.rs:270).                              *)
PersistentConfirmed ==
    \A w \in posts : w.decision = "always" => w.item = w.asked
=============================================================================
