--------------------------- MODULE StreamLifecycle ---------------------------
(***************************************************************************)
(* Which server-sent-event streams the TUI believes are open, and which    *)
(* tokio tasks the runtime is running for them.                            *)
(*                                                                         *)
(* The Elm-style `update` (crates/batuta-tui/src/app/update) keeps         *)
(* `Model.active_streams`; the runtime (runtime/mod.rs) keeps one task per *)
(* stream id in `Tasks.streams`.  They are tied together only by the       *)
(* StartStream and StopStream commands each handler returns, so every      *)
(* handler must keep the two in step.  Stream tasks talk to the update     *)
(* loop through one unbounded FIFO channel: what a task sent before it was *)
(* aborted is still delivered after.                                       *)
(*                                                                         *)
(* One step is one message taken by the loop: `update` and the execution   *)
(* of all the commands it returned, which run without interruption.        *)
(*                                                                         *)
(* Abstracted: transcript and log contents (module TranscriptSync), the    *)
(* lists and the attention panel, cursors, rendering.                      *)
(***************************************************************************)
EXTENDS Naturals, Sequences

CONSTANTS
    Sessions,       \* session ids
    Runs,           \* loop-run ids
    LogScopes,      \* scopes the logs overlay is opened with (cmd::LogScope)
    Workspaces,     \* workspace ids
    Home,           \* the workspace the process started in
    NoId,           \* filler for ids that name nothing
    MaxInFlight,    \* bound: responses of one kind awaited at once
    MaxInbox        \* bound: stream messages queued for the update loop

ASSUME ConstantsAssumption ==
    /\ Home \in Workspaces
    /\ MaxInFlight \in Nat \ {0}
    /\ MaxInbox \in Nat \ {0}

VARIABLES
    up,             \* FALSE once the runtime has returned
    workspace,      \* Model.workspace
    detail,         \* Model.detail, as the id of the stream it shows
    view,           \* the open SessionDetail: view.stopped, stream, view.fetching
    overlay,        \* Model.overlay
    active,         \* Model.active_streams
    tasks,          \* Tasks.streams: "none", or an entry whose task runs or ended
    inflight,       \* requests whose response the loop still awaits
    inbox           \* stream messages in the mpsc channel, oldest first

vars == <<up, workspace, detail, view, overlay, active, tasks, inflight, inbox>>
ui == <<workspace, detail, view, overlay>>

-----------------------------------------------------------------------------
(* cmd::StreamId, Detail, Overlay: a kind and an id.  The help and palette *)
(* overlays only withhold keys, so they are left out.                      *)

Catalog == <<"catalog", NoId>>
Transcript(s) == <<"transcript", s>>
RunEvents(r) == <<"run", r>>
Logs(x) == <<"logs", x>>

TranscriptStreams == {"transcript"} \X Sessions
RunStreams == {"run"} \X Runs
LogStreams == {"logs"} \X LogScopes
StreamIds == {Catalog} \cup TranscriptStreams \cup RunStreams \cup LogStreams

EmptyDetail == <<"empty", NoId>>
Details == {EmptyDetail} \cup TranscriptStreams \cup RunStreams

NoOverlay == <<"none", NoId>>
ClarifyOverlay == <<"clarify", NoId>>
PickerOverlay == <<"picker", NoId>>
Overlays == {NoOverlay, ClarifyOverlay, PickerOverlay} \cup LogStreams

StreamStatus == {"live", "stopped", "lost", "fatal"}
Views == [stopped : BOOLEAN, stream : StreamStatus, fetching : BOOLEAN]

(* Requests whose answer a handler turns into stream commands.             *)
Page(s) == <<"page", s>>
RunGet(r) == <<"run", r>>
Prompt(s) == <<"prompt", s>>
Clarify == <<"clarify", NoId>>
Requests == ({"page"} \X Sessions) \cup ({"run"} \X Runs)
                \cup ({"prompt"} \X Sessions) \cup {Clarify}

Events == {"stopped", "lost", "reconnected", "fatal", "rejected", "gap", "terminal"}
Messages == [id : StreamIds, event : Events]
NoneInFlight == [r \in Requests |-> 0]

TypeOK ==
    /\ up \in BOOLEAN
    /\ workspace \in Workspaces
    /\ detail \in Details
    /\ view \in Views
    /\ overlay \in Overlays
    /\ active \in SUBSET StreamIds
    /\ tasks \in [StreamIds -> {"none", "running", "ended"}]
    /\ inflight \in [Requests -> Nat]
    /\ inbox \in Seq(Messages)

-----------------------------------------------------------------------------
(* runtime::execute.  StopStream drops the entry, aborts the task and waits *)
(* for it; StartStream first stops a task of the same id.                   *)

StopTasks(ids) == [i \in StreamIds |-> IF i \in ids THEN "none" ELSE tasks[i]]
StopAndStart(ids, id) == [StopTasks(ids) EXCEPT ![id] = "running"]
StartTask(id) == StopAndStart({}, id)

Issue(r) == /\ inflight[r] < MaxInFlight
            /\ inflight' = [inflight EXCEPT ![r] = @ + 1]

(* Mutation: a response is accepted whether or not its request is pending. *)
AnsweredUnasked(r) == inflight' = [inflight EXCEPT ![r] = @ - 1]

Answered(r) == /\ inflight[r] > 0
               /\ inflight' = [inflight EXCEPT ![r] = @ - 1]

(* The detail streams a newly opened panel closes.                         *)
Closed(new) == IF detail = EmptyDetail \/ detail = new THEN {} ELSE {detail}

(* SessionDetail::new *)
FreshView(stopped) ==
    [stopped |-> stopped, stream |-> IF stopped THEN "stopped" ELSE "live", fetching |-> TRUE]

Init ==
    /\ up = TRUE
    /\ workspace = Home
    /\ detail = EmptyDetail
    /\ view = FreshView(FALSE)
    /\ overlay = NoOverlay
    /\ active = {Catalog}
    /\ tasks = [i \in StreamIds |-> IF i = Catalog THEN "running" ELSE "none"]
    /\ inflight = NoneInFlight
    /\ inbox = <<>>

-----------------------------------------------------------------------------
(* Opening and closing panels.                                             *)

(* keys::open_session_id: the row of the session list says whether the     *)
(* session is stopped; the page is fetched and the stream opened at once.  *)
ShowSession(s, stopped) ==
    LET id == Transcript(s) IN
    /\ Issue(Page(s))
    /\ detail' = id
    /\ view' = FreshView(stopped)
    /\ active' = (active \ Closed(id)) \cup {id}
    /\ tasks' = StopAndStart(Closed(id), id)
    /\ UNCHANGED <<up, workspace, inbox>>

(* Enter on a session, a permission, or an overview or run-detail row that *)
(* names a session.                                                        *)
OpenSession(s, stopped) ==
    /\ up /\ overlay = NoOverlay
    /\ ShowSession(s, stopped)
    /\ UNCHANGED overlay

(* attention::open on a clarification: its session, under the question.    *)
OpenClarify(s, stopped) ==
    /\ up /\ overlay = NoOverlay
    /\ ShowSession(s, stopped)
    /\ overlay' = ClarifyOverlay

(* keys::open_run_id *)
OpenRun(r) ==
    LET id == RunEvents(r) IN
    /\ up /\ overlay = NoOverlay
    /\ Issue(RunGet(r))
    /\ detail' = id
    /\ view' = FreshView(FALSE)
    /\ active' = (active \ Closed(id)) \cup {id}
    /\ tasks' = StopAndStart(Closed(id), id)
    /\ UNCHANGED <<up, workspace, overlay, inbox>>

(* logs::open, logs::start *)
OpenLogs(x) ==
    /\ up /\ overlay = NoOverlay
    /\ overlay' = Logs(x)
    /\ active' = active \cup {Logs(x)}
    /\ tasks' = StartTask(Logs(x))
    /\ UNCHANGED <<up, workspace, detail, view, inflight, inbox>>

(* logs::key on Esc or L, and update on a resize below 80x24.              *)
CloseLogs ==
    /\ up /\ overlay \in LogStreams
    /\ overlay' = NoOverlay
    /\ active' = active \ {overlay}
    /\ tasks' = StopTasks({overlay})
    /\ UNCHANGED <<up, workspace, detail, view, inflight, inbox>>

(* logs::key on e: the filter is a query parameter of the stream.          *)
ToggleErrorOnly ==
    /\ up /\ overlay \in LogStreams
    /\ active' = active \cup {overlay}
    /\ tasks' = StopAndStart({overlay}, overlay)
    /\ UNCHANGED <<up, workspace, detail, view, overlay, inflight, inbox>>

(* picker::open *)
OpenPicker ==
    /\ up /\ overlay = NoOverlay
    /\ overlay' = PickerOverlay
    /\ UNCHANGED <<up, workspace, detail, view, active, tasks, inflight, inbox>>

(* clarify::key and picker::key on Esc, and a resize below 80x24.          *)
CloseOverlay ==
    /\ up /\ overlay \in {ClarifyOverlay, PickerOverlay}
    /\ overlay' = NoOverlay
    /\ UNCHANGED <<up, workspace, detail, view, active, tasks, inflight, inbox>>

(* picker::switch: every active stream is stopped, then a new Model boots. *)
SwitchWorkspace(w) ==
    /\ up /\ overlay = PickerOverlay
    /\ workspace' = w
    /\ detail' = EmptyDetail
    /\ view' = FreshView(FALSE)
    /\ overlay' = NoOverlay
    /\ active' = {Catalog}
    /\ tasks' = StopAndStart(active, Catalog)
    /\ inflight' = NoneInFlight
    /\ UNCHANGED <<up, inbox>>

(* Mutation: only the streams the model knows of are stopped.              *)
QuitStopsActiveOnly ==
    /\ up
    /\ up' = FALSE
    /\ tasks' = StopTasks(active)
    /\ inbox' = <<>>
    /\ UNCHANGED <<workspace, detail, view, overlay, active, inflight>>

(* keys::quit, then Cmd::Quit: Tasks::stop_all.                            *)
Quit ==
    /\ up
    /\ up' = FALSE
    /\ tasks' = StopTasks(StreamIds)
    /\ inbox' = <<>>
    /\ UNCHANGED <<workspace, detail, view, overlay, active, inflight>>

-----------------------------------------------------------------------------
(* Writes and their answers.                                               *)

(* prompt::post; prompt_pending admits one prompt at a time.               *)
SendPrompt(s) ==
    /\ up /\ overlay = NoOverlay
    /\ detail = Transcript(s)
    /\ \A t \in Sessions : inflight[Prompt(t)] = 0
    /\ Issue(Prompt(s))
    /\ UNCHANGED <<up, ui, active, tasks, inbox>>

(* Mutation: whether the session was stopped is read after the reset.      *)
PromptAcceptedReadAfterReset(s) ==
    /\ up
    /\ Answered(Prompt(s))
    /\ view' = IF detail = Transcript(s)
               THEN [view EXCEPT !.stopped = FALSE, !.stream = "live"] ELSE view
    /\ UNCHANGED <<up, workspace, detail, overlay, active, tasks, inbox>>

(* api::apply on a prompt: a stopped session was restarted by the daemon.  *)
PromptAccepted(s) ==
    LET id == Transcript(s)
        restart == detail = id /\ (view.stopped \/ view.stream = "stopped") IN
    /\ up
    /\ Answered(Prompt(s))
    /\ view' = IF detail = id THEN [view EXCEPT !.stopped = FALSE, !.stream = "live"]
                              ELSE view
    /\ active' = IF restart THEN active \cup {id} ELSE active
    /\ tasks' = IF restart THEN StartTask(id) ELSE tasks
    /\ UNCHANGED <<up, workspace, detail, overlay, inbox>>

(* api::failure on a prompt, a page or a run: a toast.                     *)
RequestFailed(r) ==
    /\ up /\ r # Clarify
    /\ Answered(r)
    /\ UNCHANGED <<up, ui, active, tasks, inbox>>

(* clarify::key on Enter: the overlay stays until the answer comes back.   *)
AnswerClarification ==
    /\ up /\ overlay = ClarifyOverlay
    /\ Issue(Clarify)
    /\ UNCHANGED <<up, ui, active, tasks, inbox>>

(* api::apply and api::failure on AnswerClarification: `overlay = None`.   *)
ClarificationAnswered ==
    /\ up
    /\ Answered(Clarify)
    /\ overlay' = NoOverlay
    /\ UNCHANGED <<up, workspace, detail, view, active, tasks, inbox>>

-----------------------------------------------------------------------------
(* Reads.                                                                  *)

(* keys::move_up at the top of a transcript with older pages.              *)
FetchOlder(s) ==
    /\ up /\ overlay = NoOverlay
    /\ detail = Transcript(s)
    /\ ~view.fetching
    /\ Issue(Page(s))
    /\ view' = [view EXCEPT !.fetching = TRUE]
    /\ UNCHANGED <<up, workspace, detail, overlay, active, tasks, inbox>>

(* api::apply on a TranscriptPage: restart the stream at the page's cursor. *)
PageArrived(s) ==
    LET id == Transcript(s) IN
    /\ up
    /\ Answered(Page(s))
    /\ \/ /\ detail = id
          /\ view' = [view EXCEPT !.fetching = FALSE]
          /\ active' = IF view.stopped THEN active \ {id} ELSE active \cup {id}
          /\ tasks' = IF view.stopped THEN tasks ELSE StartTask(id)
       \/ /\ detail # id
          /\ UNCHANGED <<view, active, tasks>>
    /\ UNCHANGED <<up, workspace, detail, overlay, inbox>>

(* api::apply on a Run. *)
RunArrived(r) ==
    /\ up
    /\ Answered(RunGet(r))
    /\ UNCHANGED <<up, ui, active, tasks, inbox>>

(* api::failure, `Request::Run { .. } if not_found`. *)
RunNotFound(r) ==
    /\ up
    /\ Answered(RunGet(r))
    /\ detail' = EmptyDetail
    /\ UNCHANGED <<up, workspace, view, overlay, active, tasks, inbox>>

(* Mutation: the stream is marked active again and never started.          *)
SessionsListedNotStarted(s) ==
    /\ up
    /\ detail = Transcript(s)
    /\ view.stopped \/ view.stream = "stopped"
    /\ view' = [view EXCEPT !.stopped = FALSE, !.stream = "live"]
    /\ active' = active \cup {Transcript(s)}
    /\ UNCHANGED <<up, workspace, detail, overlay, tasks, inflight, inbox>>

(* api::apply on Sessions, detail_session::reopen_if_active: the refreshed *)
(* list says the stopped session on screen runs again.                     *)
SessionsListed(s) ==
    LET id == Transcript(s) IN
    /\ up
    /\ detail = id
    /\ view.stopped \/ view.stream = "stopped"
    /\ view' = [view EXCEPT !.stopped = FALSE, !.stream = "live"]
    /\ active' = active \cup {id}
    /\ tasks' = StartTask(id)
    /\ UNCHANGED <<up, workspace, detail, overlay, inflight, inbox>>

-----------------------------------------------------------------------------
(* Stream tasks and what they send.                                        *)

(* What each kind of stream can report: EventStream::open, and the         *)
(* terminal status or 400 the run and log handlers look at.                *)
Sends(id) ==
    CASE id \in TranscriptStreams -> {"stopped", "lost", "reconnected", "fatal", "gap"}
      [] id \in RunStreams -> {"terminal", "fatal"}
      [] id \in LogStreams -> {"rejected", "fatal"}
      [] OTHER -> {"fatal"}

Emit(id, e) ==
    /\ up
    /\ tasks[id] = "running"
    /\ e \in Sends(id)
    /\ Len(inbox) < MaxInbox
    /\ inbox' = Append(inbox, [id |-> id, event |-> e])
    /\ tasks' = IF e \in {"stopped", "fatal", "rejected"}
                THEN [tasks EXCEPT ![id] = "ended"] ELSE tasks
    /\ UNCHANGED <<up, ui, active, inflight>>

Receive(e) ==
    /\ up
    /\ inbox # <<>>
    /\ Head(inbox).event = e
    /\ inbox' = Tail(inbox)
    /\ UNCHANGED <<up, workspace, detail, overlay>>

(* stream::stream drops a message of a stream that is not active, and      *)
(* stream::transcript one of a session that is not the one on screen.      *)
Heard(id) == id \in active
HeardByDetail(id) == Heard(id) /\ detail = id

ReceiveIgnored ==
    LET m == Head(inbox) IN
    /\ \E e \in Events : Receive(e)
    /\ \/ ~Heard(m.id)
       \/ m.id \in TranscriptStreams \cup RunStreams /\ detail # m.id
       \/ m.event = "fatal" /\ m.id \notin TranscriptStreams
       \/ m.event = "rejected" /\ overlay # m.id
    /\ UNCHANGED <<view, active, tasks, inflight>>

(* TranscriptEvent::Stopped, and a run event with a terminal status.       *)
ReceiveEnd ==
    LET id == Head(inbox).id IN
    /\ Receive("stopped") \/ Receive("terminal")
    /\ HeardByDetail(id)
    /\ view' = IF id \in TranscriptStreams
               THEN [view EXCEPT !.stopped = TRUE, !.stream = "stopped"] ELSE view
    /\ active' = active \ {id}
    /\ tasks' = StopTasks({id})
    /\ UNCHANGED inflight

(* TranscriptEvent::Lost, Reconnected and Fatal only change the status.    *)
StatusAfter(e) ==
    CASE e = "lost" -> "lost" [] e = "reconnected" -> "live" [] OTHER -> "fatal"

ReceiveStatus ==
    LET m == Head(inbox) IN
    /\ \E e \in {"lost", "reconnected", "fatal"} : Receive(e)
    /\ m.id \in TranscriptStreams
    /\ HeardByDetail(m.id)
    /\ view' = [view EXCEPT !.stream = StatusAfter(m.event)]
    /\ UNCHANGED <<active, tasks, inflight>>

(* A delta with an unknown start: refetch the newest page, once.           *)
ReceiveGap ==
    LET id == Head(inbox).id IN
    /\ Receive("gap")
    /\ id \in TranscriptStreams
    /\ HeardByDetail(id)
    /\ \/ /\ ~view.fetching
          /\ Issue(Page(id[2]))
          /\ view' = [view EXCEPT !.fetching = TRUE]
       \/ /\ view.fetching
          /\ UNCHANGED <<view, inflight>>
    /\ UNCHANGED <<active, tasks>>

(* logs::cursor_reset on a 400: read again and reopen without a cursor.    *)
ReceiveCursorReset ==
    LET id == Head(inbox).id IN
    /\ Receive("rejected")
    /\ Heard(id) /\ overlay = id
    /\ tasks' = StartTask(id)
    /\ UNCHANGED <<view, active, inflight>>

-----------------------------------------------------------------------------
Keys ==
    \/ \E s \in Sessions, stopped \in BOOLEAN : OpenSession(s, stopped)
    \/ \E r \in Runs : OpenRun(r)
    \/ \E x \in LogScopes : OpenLogs(x)
    \/ CloseLogs
    \/ ToggleErrorOnly
    \/ \E s \in Sessions, stopped \in BOOLEAN : OpenClarify(s, stopped)
    \/ OpenPicker
    \/ CloseOverlay
    \/ \E w \in Workspaces : SwitchWorkspace(w)
    \/ Quit
    \/ \E s \in Sessions : SendPrompt(s)
    \/ AnswerClarification
    \/ \E s \in Sessions : FetchOlder(s)

Responses ==
    \/ \E s \in Sessions : PromptAccepted(s)
    \/ \E r \in Requests : RequestFailed(r)
    \/ ClarificationAnswered
    \/ \E s \in Sessions : PageArrived(s)
    \/ \E r \in Runs : RunArrived(r)
    \/ \E r \in Runs : RunNotFound(r)
    \/ \E s \in Sessions : SessionsListed(s)

Streams ==
    \/ \E id \in StreamIds, e \in Events : Emit(id, e)
    \/ ReceiveIgnored
    \/ ReceiveEnd
    \/ ReceiveStatus
    \/ ReceiveGap
    \/ ReceiveCursorReset

Next == Keys \/ Responses \/ Streams

Spec == Init /\ [][Next]_vars

-----------------------------------------------------------------------------
(* Properties.                                                             *)

(* A stream the model counts as open has an entry in the runtime: no       *)
(* handler marks a stream active and forgets to return its StartStream, or *)
(* stops one that another handler still counts on.                         *)
ActiveHasTask == up => \A id \in active : tasks[id] # "none"

(* A session on screen that is not stopped is being followed, whatever     *)
(* pages, prompts, list refreshes and stop notices crossed each other.     *)
OpenSessionFollowed ==
    up /\ detail \in TranscriptStreams /\ ~view.stopped => detail \in active

(* The only task that outlives its place in active_streams is that of a    *)
(* transcript: catalog, run and log streams are always stopped with it.    *)
OrphansAreTranscripts ==
    \A id \in StreamIds : tasks[id] # "none" /\ id \notin active => id \in TranscriptStreams

(* Quitting leaves no stream task behind, not even one the model lost      *)
(* track of.                                                               *)
QuitLeavesNoTask == ~up => \A id \in StreamIds : tasks[id] = "none"

(* A session panel never leaves "stopped" without a fresh stream task.     *)
RestartIsLive ==
    [][detail' = detail /\ detail \in TranscriptStreams /\ view.stopped /\ ~view'.stopped
        => detail \in active' /\ tasks'[detail] = "running"]_vars
=============================================================================
