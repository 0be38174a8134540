# Formal models of batuta-cli

TLA+ modules, TLC configurations and TLAPS proofs about the terminal client of
the CompozyOS daemon in this repository (`src/` below is its root). The design
document is `docs/internal/specs/2026-08-17-batuta-cli-design.md`; definitions
are translated from the Rust sources, the document is only quoted where the
code is checked against it.

## 1. The system

| Part | Source | State | Operations | Talks to |
|---|---|---|---|---|
| Model and update | `batuta-tui/src/app` | `Model`: workspace, panels, detail, overlay, `active_streams`, `pending`, `late_writes`, composer, toasts | one `update` per `Msg` (key, mouse, resize, API answer, stream event, timer) returning `Cmd`s | the runtime, by commands |
| Runtime | `batuta-tui/src/runtime/mod.rs` | `Tasks`: request, stream and timer tasks; watched cursors | `execute` of `Get`, `Post`, `StartStream`, `StopStream`, `After`, `Quit` | update, by messages in one mpsc channel; the client |
| Transcript | `batuta-tui/src/transcript.rs` | entries by `start_sequence`, epoch and generation, `max_sequence` | snapshot, delta, page | update |
| SSE engine | `compozy-client/src/sse` | connection, last id, cursor, backoff | open, reconnect, decode | the daemon |
| HTTP client | `compozy-client/src` | none | one call per route | the daemon |
| Command line | `batuta/src` | configuration, workspace, terminal mode | start, wait for the daemon, run the TUI, headless commands | all of them |
| Test kit | `compozy-testkit/src` | a real daemon | start, proxy, stop | tests only |

`update` is sequential and is the only writer of the model. What makes the
system hard is around it: requests and streams run as tokio tasks, everything
they report goes through one unbounded FIFO channel, and what a task has sent
is still taken after the task was aborted, after another panel was opened, and
after the workspace was switched. Commands are executed without interruption
after each `update`. Connections drop and are resumed from a cursor; the daemon
rewrites transcripts under new fences; requests fail or time out; every panel
reads state that answers to other requests may have changed.

What makes each part correct:

- *Stream lifecycle.* `Model.active_streams` and the runtime's stream tasks are
  two views of one thing, tied only by the commands handlers return. No stream
  is counted as open without a task; the session on screen is followed unless
  it is stopped; nothing is left running after quit.
- *Transcript.* Between the oldest page loaded and the cursor the panel shows
  every entry in a version at least as new as the cursor, and nothing of a
  transcript the daemon has rewritten.
- *Request ledger.* An answer is applied to the request it answers; every
  pending request is answered.
- *Prompt delivery.* A prompt is dispatched at most once per intention; what
  was typed is not lost on failure.
- *Attention.* A card stays until the daemon says it was resolved; a
  confirmation executes the verb on the row it was asked about.
- *SSE engine.* No event is skipped by a reconnect; delays stay in their
  bounds; a dead daemon is reported.
- *Polling and daemon state.* What waits for a timer has one on its way, and a
  poll goes round once (the runtime does not keep that up when a timer is armed
  again after it has rung: section 4); writes are refused exactly while the daemon
  cannot take them.
- *Session view.* The selection, the search and the cached text follow the rows
  of the transcript, which group several entries; a verb decides the card the
  user has selected.
- *Run detail.* The panel of a run shows every event that can be read, in order,
  over lost connections; a run that ended is shown as ended.
- *Onboarding.* An overlay that takes no keys while requests are on their way
  takes them again, whatever becomes of those.
- *Startup.* However the process ends, the terminal is as it was; waiting for a
  daemon ends when there is one; the workspace is the deepest that contains the
  directory.
- *Keys.* The keymap is what the configuration file says, and what is lost by it
  is told; the key that is pressed goes to something that is on the screen.

The behaviours hard to test are listed, each at its line, under `hazards` in
`PROJECT.json`.

## 2. Plan

In order of importance:

1. `StreamLifecycle` - streams and tasks over every handler that starts or
   stops one. **Done**, with proofs.
2. `TranscriptSync` - pages, deltas and cursors against a model of the daemon's
   log. **Done**, with proofs.
3. `RequestLedger` - request ids over workspace switches. **Done**, with proofs.
4. `PromptDelivery` - idempotency keys, failed prompts, composer, busy chooser.
   **Done**, with proofs.
5. `Attention` - permissions, clarifications, approvals, confirmations. **Done**,
   with proofs.
6. `RunTimeline` - the SSE engine with its reconnects, the runtime's task and the
   run panel, and `EventFeed`, what such a panel is promised, which it implements.
   **Done**, with proofs.
7. `Polling` - timers, poll chains, catalog debounce, daemon state. **Done**, with
   proofs.
8. `Startup` and `Onboarding`, composed in `Boot` - the process and the terminal,
   the wait for the daemon, the workspace and its registration. **Done**, with
   proofs.
9. `Keymap`, and `KeyRouting` on top of it - the rebinding of keys, and what takes
   a key. **Done**, with proofs.
10. `TranscriptView` - rows, selection, search, debug mode and the verbs of a card.
    **Done**, with proofs.

Every safety property and action property that a passing run checks is a theorem
(section 5). Left: the lines of the log overlay, the precedence of the
configuration, and two compositions, `StreamLifecycle`
with `RequestLedger` (late answers reaching panels) and `TranscriptSync` with
`TranscriptView` (out of order arrivals under a selection).

Bounds: two sessions are enough for one panel to be confused with another, two
switches for ids to be given out twice, two queued messages for one to be stale
when taken; longer queues only repeat these situations.

## 3. Modules

### StreamLifecycle

State: `workspace`, `detail`, `view`, `overlay`, `active` are the fields of
`Model` of those names (`view` stands for the open `SessionDetail`: `stopped`,
`stream` status, `fetching_older`); `tasks` is `Tasks.streams` ("none", or an
entry whose task is running or has ended by itself); `inflight` counts the
requests of `Model.pending` whose answers lead to stream commands; `inbox` is
the mpsc channel. `up` is false once the runtime has returned.

One action is one message: the handler in `update` and the execution of all its
commands. `ShowSession` is `keys::open_session_id`, used by `OpenSession` (list
rows) and `OpenClarify` (attention, under the clarification overlay);
`OpenRun`, `OpenLogs`, `CloseLogs`, `ToggleErrorOnly`, `OpenPicker`,
`CloseOverlay`, `SwitchWorkspace` and `Quit` are the other keys;
`PromptAccepted`, `ClarificationAnswered`, `PageArrived`, `RunArrived`,
`RunNotFound`, `SessionsListed` and `RequestFailed` are `api::apply` and
`api::failure`; `Emit` is what a stream task sends and the `Receive...`
actions are `stream::stream`, `stream::transcript` and `logs::cursor_reset`.

Left out: transcript and log contents, lists, cursors; the help and palette
overlays, which only withhold keys; the delay of forwarding a cursor to a
running task. Ids of requests are abstracted to counters: answers of an earlier
workspace are dropped (`RequestLedger` says when that is not so).

Bounds: `MaxInFlight` requests of one kind awaited at once, `MaxInbox` stream
messages queued.

### TranscriptSync

One session on screen and the daemon's transcript. `log` is the daemon's: event
`n` belongs to the entry that started at `log[n]`; `epoch` stands for the pair
of fences. `shown` is `TranscriptState`, `fetching` is `fetching_older`,
`cursor` what `Model.stream_cursors` and the watch channel hold, `stream` the
connection (its own last id, the cursor it was opened with and the fence the
daemon holds it to), `pages` the page requests, asked and read, `inbox` the
queued frames. The daemon's actions (`AppendEvent`, `Rewrite`, `ReadPage`,
`SendFrame`) are external, modelled from the types and from what `transcript.rs`
and its tests expect; `Reconnect` is `EventStream::open`. The client's actions are
`PageArrived` (`prepend_page` and the restart of the stream), `PageFailed`,
`FetchOlder`, `Reopen`, and `ReceiveSnapshot`, `ReceiveDelta`,
`ReceiveMismatch`, `ReceiveGap`.

`crossed` is a history variable: a page and the stream have crossed in one of
five named ways (`KeepsStaleEntry`, `MixesFences`, `OvertakesFrames`,
`BringsPassedEntry`, `LeavesHole`), or a delta of other fences was taken for a
snapshot. The invariants hold without that; what happens with it is described
in section 4.

Bounds: `PageSize` entries in a page, `MaxSequence` events, `MaxEpoch` fences,
`MaxPages` page requests, `MaxInbox` frames, and `MaxRewritten` events of a
transcript that is rewritten and of the new one (three, so that old and new
entries share start sequences). Five events with pages of two give
three pages, so that a middle page can be asked for, overtaken and outdated.

### RequestLedger

`pending` and `late` are `Model.pending` and `Model.late_writes`, `tasks` is
`Tasks.requests`, `unsent` the futures still running, `inbox` the answers in
the channel. `Issue` is `Model::allocate` with `execute`, `Switch` is
`picker::switch` with the boot of the new model, `Complete` the end of a
request, `DeliverLate` and `Deliver` are `api::api`. `collided` is history: an
id was given out while an earlier model's request with that id was in use.

Bounds: `MaxId` requests of one model (three are the boot reads, so two more),
`MaxSwitches`, `MaxInbox`.

Fairness: every request ends (weak fairness of `Complete` for each request),
because the client puts a timeout on every request; the update loop goes on
taking messages (weak fairness of delivery), because it awaits the channel in
every turn. Nothing forces keys or switches.

### PromptDelivery

`detail` is the session on screen with its composer (`draft`), what its `GET`
told (`busy`) and the chooser; `prompting`, `failed`, `next`, `created` and
`creating` are `prompt_pending`, `failed_prompt`, `next_message`,
`app_created_sessions` and `create_session_pending` of `Model`. A draft carries
the number of the edit that made it and a prompt the number of its Model, so that
the properties can say which sends are the same prompt. `catalog` has the sessions
the daemon has and the list can show, `made` the `POST`s it has answered without the
answer having been taken. `sent`, `accepted`, `born`, `untouched` (the sessions
created here and not prompted before that was known), `model` and `edits` are
history.

`Send` is Enter in the composer, `Choose` and `LeaveChooser` Enter and Esc in the
chooser, `Post` what both send; `Accepted`, `Failed` and `AnsweredLate` are the
three ways an answer is taken; `Create`, `Created` and `CreateFailed` make a
session, which `Appears` in the catalog when the daemon has it, so that it can be
opened and prompted before `Created` says it is this client's; `Switch` is
`picker::switch`. Left out: the mode and the expected turn of
a prompt (no key depends on them), toasts, and the request ids (`RequestLedger`).

Bounds: `MaxDrafts` edits, `MaxMessages` numbers given out by one Model,
`MaxSwitches`. Three drafts are enough for one to fail, another to be sent in
between, and the first text to be typed again.

### Attention

`status` is the daemon's side: each permission, clarification or task is asked
for once and closed once. `perms`, `clars` and `tasks` are
`attention_permissions`, `attention_clarifications` and `attention_overview` of
`Model`, `items` and `selected` the list built from them and its selection.
`detail` is the session on screen and `panel` what its transcript shows of each
permission. `confirm` is `attention_confirm` (a row) or
`inline_permission_confirm` (a permission), with the permission the user was
asked about as history; `overlay` is the clarification overlay. `reads` are the
reads on their way with what they have seen, `posts` the writes.

`Ask`, `Close` and `Serve` are the daemon's. `VisibleArrives`, `PageArrives`,
`ClarsArrive`, `OverviewArrives` and `ReadFails` are `api::apply` and
`api::failure` with the functions of `panels/attention.rs` they call, `Delta`
is `stream::stream`, `Poll` the timers. `Decision`, `Persistent`, `Confirm`,
`InlineDecision`, `InlinePersistent`, `ConfirmInline`, `CancelConfirm`,
`OpenClarify`, `Answer`, `LeaveOverlay`, `OpenSession`, `OpenRun`, `ScrollUp` and
the moves are keys; `NotFound` and `Answered` take the answers of writes.

Left out: filters (every session of the list is visible), runs as targets, the
text and choices of an answer, and the outcomes of writes that differ only in
their toasts. The two persistent options of a permission are taken together.
Assumed of the daemon: no permission is undecided in an older page, because the
turn it belongs to waits for it; without that an older page removes a card until
the next read (listed under `hazards`).

Bounds: `MaxMoves` sessions opened, pages asked for and reads failed,
`MaxPosts` writes on their way. The passing instance has one session with a
permission and a clarification, so that three kinds of reads, the transcript and
the answers cross over one list of two rows; tasks are in the model and behave
as clarifications do, but are not in this instance.

Fairness: the poll timer is armed again each time it fires, every kind of read is
answered in the end (the client's timeout bounds it; failed reads are bounded by
`MaxMoves`), and the stream of the session on screen delivers.

### RunTimeline and EventFeed

`EventFeed` is what a panel is promised of a stream: the daemon produces events
(`log`), the panel is brought those it can read in order (`seen`), and only those
that came by while it was closed may be passed over (`missed`). Its one fairness
condition says that a new event that can be brought is brought.

`RunTimeline` is how the code does it for a loop run. `engine` is the task of
`EventStream::open`: its phase, the last id it received (`own`), the cursor the
connection was opened with (`source`), the next frame. `watch` is the channel the
runtime forwards cursors through, `inbox` the messages of the stream in the mpsc
channel, `active`, `cursor` and `live` the entries of the run in
`active_streams`, `stream_cursors` and `stream_status`; `screen`, `run`, `shown`,
`selection` and `confirm` are `detail`. `seen`, `missed` and `crossed` are history.

`RunChecked`, `Accepted`, `Refused`, `ReadFrame`, `ConnectionLost` and `Retry` are
the engine (the probe of a run before its events, the connection, a frame with its
id taken over before it is decoded, the reports, the waits), `ForwardCursor` the
runtime, `ReceiveUnwanted`, `ReceiveReport` and `ReceiveEvent` `stream::stream`;
`OpenRun` and `LeaveRun` are `open_run_id` and what takes its place, `RunArrives`
and `RunFails` the reads, `Select`, `Control`, `AskKill`, `AnswerKill`, `Approve`
and `WriteAnswered` `detail_run.rs` with the answers. `Produce` is the daemon's.

Left out: the length of the waits, the bytes of a frame, what a control does at the
daemon. Bounds: `MaxEvents`, `MaxBreaks`, `MaxOpens`, `MaxInbox`, `MaxReads`;
three events are enough for one that cannot be read between two that can, two
openings for a cursor that is older than the panel.

Fairness: the engine's task runs and tries again after every wait (breaks are
bounded by `MaxBreaks`), and the update loop takes messages. `Produce`, keys and
breaks are not fair.

### Polling

`timers` has for each `TimerId` whether a task that sleeps is in `Tasks.timers`
(`held`), how many sleep outside it (`stray`), and the messages in the channel
(`fired`). There are tasks outside because the loop removes the entry of a timer
whenever a message of it is taken, also when the entry is a later task than the one
that sent the message; its handle is then dropped, which does not abort it
(`Taken`), and the next arming does not find it (`Armed`). `late` is history: a
timer was armed while a message of it waited, and has not been idle since. `asked` and `answered` the requests
of the polls and of writes; `pollOk`, `status`, `active` and `lost` what
`DaemonState::derive` and `is_offline` read; `listed` and `hidden` the one run of
the list and whether the filter hides it; the flags are those of `Model`.

`Fire` is a task, `Arm` and `Take` the runtime, `TakeTimer` `timers::timer`, `Reply` and
`TakeAnswer` the requests and `api::api`, `StreamLost` and `StreamLive` the
reports, `CatalogEvent`, `Resynchronized`, `OpenPanel`, `ToggleLoop`, `Filter`,
`Write`, `CtrlC` and `Switch` the messages and keys that arm a timer or depend on
one. `Turn` changes the daemon or ends the run. Answers of a workspace that was
left are dropped (`RequestLedger` says when that is not so).

Fairness: requests are answered or time out, timers fire and the loop takes both
kinds of messages. `Reply` and `Fire` are strongly fair because the bound on the
queue (`MaxAnswers`, `MaxFired`), which the code does not have, would otherwise be
able to shut them out. A stream that has no connection reports it, which assumes of
an open stream that is idle that it notices a daemon that is gone, as it does when
the connection is closed or reset. `MaxTasks` bounds the tasks of the toast's timer,
the only one that a message from outside can arm without end.

### Startup, Onboarding and Boot

`Startup` has one `phase` for what the process does next and the state that has to
be undone: the panic hook, raw mode, the guard, the handlers. `situation` is the
list of workspaces of the daemon with the directory and the way a workspace is
asked for, `daemon` the transports it answers on. `Progress` is the process itself
(each of its disjuncts a step of `app::run`, `tail`, `sessions` or `doctor`),
`QuitWhileWaiting`, `Interrupted`, `Terminated` and `Panic` what may end it,
`Turn` and `CloseInput` the outside. `ResolveStartup` and `ResolveExplicit` are
the two functions of `workspace.rs`.

`Onboarding` is the model from there on: the overlay with its flags, the picker,
`startup_candidate`, the kinds of requests in `startup_boot_pending`, requests and
answers by serial number. `Daemon` answers or times out, `Answered` is
`api::apply` and `api::failure`, `Keys` the keys of the two overlays, `Shrink` and
`Grow` the resizes that close an overlay.

`Boot` lets `Startup` hand the resolution over to `Onboarding` and ends one with
the other.

Left out: what is printed, the comparison of version strings (the daemon is "old"
or not), the list in the picker (empty or not). Bounds: `MaxTurns` changes of the
daemon, `MaxRequests` requests that keys send (a boot counts as one), `MaxResizes`. One
change is enough for a daemon to come, to go or to be replaced while a step waits.

Fairness: the process makes progress, for every probe, read and wait has a timeout;
requests are answered or time out and the answers are taken.

### Keymap and KeyRouting

`forward` and `reverse` are the two directions of `Keymap`, `file` what the table
says, `read` its entries read so far, in the order of their names; `unbound` and
`shadowed` are the warnings. `Entry` is one entry of the table with everything
`rebind` takes from others, `Resolve` the check for shadowed keys at the end.
`PanelCombos` and `OtherCombos` are the combinations in the rows of the table of
documented keys that belong to no action. A combination is a value; how it is parsed
and displayed is left out but for what matters here: `Parsed` is what
`reserved_combos` makes of a row, and the separator of the parser, "/", is itself
the key of a row and gets lost there.

`KeyRouting` then presses keys: `overlay`, `confirms`, `fields`, `focus`,
`detail` and `size` are what `key` looks at, in its order, which is `Taker`;
`OnScreen` is what the views draw of it in each layout. `window` is the terminal,
which `size` follows when the resize event is taken. `awaited` are the answers
that may open or close something: a clarification, the 404 of a run, the boot.

Bounds: two entries of a table over four actions (a victim that has lost one of two
keys and one that has lost all), sizes of the window.

### TranscriptView

`full` is the transcript of the daemon, by the number an entry starts at, of which
the client has those from `low` on; here entries arrive in order (`TranscriptSync`
has what happens when they do not). `raw` to `fetching` are the fields of
`TranscriptView` in `model.rs`, `cache` the keys of `render_cache`. `Rows` is
`presentation_rows`: adjacent entries of the same operational kind are one row,
unless debug mode shows them one by one.

`PageArrives`, `DeltaArrives` and `SnapshotArrives` are the three ways entries
come (`page_into_detail`, `stream::transcript`, `apply_snapshot` with
`remap_selection`), with the search and the cache brought up to date as the code
does at the end of each; `MoveUp`, `MoveDown`, `PageDown`, `Jump`, `ToggleDebug`,
`Unfold`, `OpenSearch`, `Type`, `ConfirmSearch`, `CycleSearch`, `LeaveSearch` and
`Decide` are keys.

Left out: the footer, markers, the reasoning mode (one more flag of every cache
key), the clipboard, the width and theme in the cache key. Bounds: three entries
(a group of two beside another, a group of three, and none), one snapshot, which
may keep any of them, one entry unfolded at a time. The daemon appends one event to
the two entries it begins with, which can split a group, lengthen one or begin a
row.

## 4. Runs

| Run | Configuration | Shows |
|---|---|---|
| `stream_lifecycle` | two sessions, a run, the log overlay | `TypeOK`, `ActiveHasTask`, `OpenSessionFollowed`, `QuitLeavesNoTask`, `RestartIsLive` hold |
| `transcript_sync` | pages of 2, 5 events, one rewrite | `NothingLost`, `NothingForeign`, `SettledIsCurrent`, `NeverGoesBack` hold |
| `request_ledger` | two switches, two requests of each model beside the boot reads | `TypeOK`, `EntriesAreBacked`, `AnswersTheirRequest`, `PendingIsAnswered` hold |
| `prompt_delivery` | two sessions, two texts, three drafts, one switch | `TypeOK`, `KeyNamesOnePrompt`, `DraftHasOneKey`, `AcceptedKeyRetired`, `OnePromptAtATime`, `RuntimeUntilAccepted` hold |
| `attention` | one session with a permission and a clarification | `AttentionTypeOK`, `PersistentOffered`, `DecidedLeavesList`, `ListSettles` hold |
| `run_timeline` | 3 events, 2 breaks, 2 openings | `TimelineComplete` and `EndedIsShown` hold; engine, runtime and panel implement `EventFeed` (`FeedImplemented`) |
| `polling` | a panel beside the catalog, 2 changes of the daemon, a key or a switch | `TimersInStep`, `DaemonStateSettles`, `RunsCatchUp` hold |
| `boot` | four commands, three workspaces (one nested, one gone), four ways of asking | `TypeOK`, `TerminalRestored`, `DeepestChosen`, `Settles`, `LocksOpen` hold |
| `keys` | four actions, tables of two entries; then keys, answers and resizes, in the interface and in `batuta tail` | `TypeOK`, `FileDecides`, `LossesWarned`, `TakerOnScreen` hold |
| `transcript_view` | entries of three kinds, two of them grouped, a page of one, one snapshot | `RowsAreCurrent`, `AnchorKept` hold |

Deadlock is checked except where the system stops (`Quit`) or where the bounds
of ids, edits and switches end it (`RequestLedger`, `PromptDelivery`); in
`Attention` the poll always goes on and in `TranscriptView` there is always a key.

Runs that end in a counterexample, each a disagreement between the code and a
document or a test, described under `findings`:

| Run | What happens |
|---|---|
| `attention_confirm` | the list changes while a persistent decision waits for its confirmation: the row is remembered, and the decision is made for another permission |
| `inline_row` | below a group of tool updates the number of the selected row is that of another entry: `a`, `x`, `A` and `X` decide that entry's card, not the selected one |

Disagreements that have no run (the histories and guards of the models keep them
apart from what does hold, where the models reach them). The first three are stated
in the modules; TLC finds the trace when the configuration of the module's run has
the property named:

- `RearmReplaces` of `Polling`: a timer that is armed while a message of it waits goes
  on twice. A switch arms the status poll while its message is in the channel; taking
  that message lets go of the new task, arming again finds nothing to abort, and two
  tasks sleep, each of which sends a message that arms another
  (`runtime/mod.rs:534`; test ut_663_timer_rearm_replaces_old_timer,
  `runtime/mod.rs:842`; design `:212`, "every 30 s"). `TimersInStep` says that it
  takes this to double a timer, and the history `late` when it has happened.
- `RuntimeGoesFirst` of `PromptDelivery`: a session created here is listed, opened,
  prompted and the prompt accepted before the answer that says it was created here;
  that answer puts it into `app_created_sessions` all the same, so that the preset
  provider goes with its second prompt (`update/api.rs:598` after `:399`;
  `README.md:70`, "sent with the first prompt of a session created by `n`"; design
  `:221`). `RuntimeUntilAccepted` says what holds for the others.
- `PanelLossesWarned` of `Keymap`: the row "/" of the session detail is split at every
  "/" and yields no combination, so it is not reserved; with `filter = "a"` and
  `help = "/"` the documented search of the transcript (`README.md:171`) is taken by
  help, and nothing is warned of (`keymap.rs:106`, `:699`, `:735`; `config.rs:370`
  has the warning for every key of a panel). `LossesWarned` says what holds for the
  other combinations.

- A page answered while its session is stopped takes the stream out of
  `active_streams` without stopping it (`update/api.rs:375`); the switch then does
  not stop it, although the design (`:243`) has it cancel every stream task.
  `StreamLifecycleProofs` shows that only transcripts are orphaned so.
- The streams go to the workspace the process started in, also after a switch
  (`runtime/mod.rs:498`; design `:209`).
- The 404 of a run clears the detail of a session, whose frames then store their
  cursor under another stream id (`update/stream.rs:30`; design `:192`).
- A page that overtakes a queued delta keeps the older entry and moves the cursor
  past its update (`transcript.rs:194`; design `:200`).
- After a switch an answer of the new workspace can be taken for the late result of
  a write with the same id (`update/api.rs:16`; `tests/picker.rs:160`), and another
  prompt can go out under the idempotency key of an earlier one
  (`app/model.rs:707`; `tests/prompt.rs:105`).
- A switch forgets which sessions were created here: one that was not prompted before
  it goes without the preset provider (`update/picker.rs:94`; `README.md:70`).
- The answer to a clarification closes whatever overlay is open, and the clarification
  can be answered twice while the answer is on its way (`update/api.rs:447`,
  `update/clarify.rs:51`); nothing in the repository is contradicted by it.
- A run that is opened again starts with an empty timeline at the cursor of the
  panel that is gone, so its earlier gates cannot be selected
  (`update/keys.rs:345`, `README.md:181` of the repository).
- A filter that hides the last live run stops the poll of the runs for good
  (`panels/runs.rs:88`; design `:207`).
- A plain refresh lets a second registration be sent while the outcome of the first
  is unknown (`update/keys.rs:786`; `tests/picker.rs:680`).
- In `batuta tail`, `i` and Enter focus a composer that is not drawn, which then
  takes `q` (`update/keys.rs:475`; `tests/tail_mode.rs:72`). F1, `L` and `?` open
  overlays there that are not drawn either.
- A delta that regroups the rows under a reader keeps the index of the selection
  and not the entry (`update/stream.rs:128`; test
  ut_717_off_tail_deltas_preserve_the_anchor). `AnchorKept` is therefore about the
  steps that do remap, debug mode and snapshots.
- A group of telemetry is labelled "Enter expand", but Enter focuses the composer:
  only tools and permissions are expandable (`views/transcript.rs:115`,
  `model.rs:873`).
- The key of a cached text has neither the fences nor the agent's name, so what was
  drawn before either changed stays (`model.rs:311`, `render_cache.rs:20`).
- A key that `F1`, `Ctrl+X` or `Ctrl+C` is bound to in the file is taken before the
  keymap, and `quit = []` neither unbinds nor warns; the confirmations of a kill
  and of a decision for good on a card are never drawn, which `TakerOnScreen`
  excepts.
- In a window that is too small Ctrl+C quits without the guard for drafts
  (`README.md:138` of the repository), and a resize to it closes the onboarding
  overlay (test ut_730).
- A wait for the daemon whose input has been closed goes on as long as the daemon
  stays away (`batuta/src/app.rs:107`). `Settles` leaves it out.
- A daemon below the version floor is waited for like one that is not there
  (design `:212`, `:253`).

## 5. Proofs

`StreamLifecycleProofs` holds for any sets of sessions, runs, log scopes and
workspaces and any positive bounds (`ConstantsAssumption`).

- `TypeCorrect`: `TypeOK` is inductive by itself.
- `OnlyTranscriptsOrphaned` is a theorem without a run: no task of another kind
  outlives its place in `active_streams`.
- `Supervised` is the inductive invariant: `ActiveHasTask`,
  `OrphansAreTranscripts`, `OpenSessionFollowed` and `QuitLeavesNoTask`
  together. They need each other: that a page of a stopped session may drop its
  stream without stopping it is harmless to `ActiveHasTask` but makes an orphan,
  which must be shown to be a transcript; that a followed session keeps its task
  when another panel opens rests on `Closed` never containing the new panel's
  stream. The lemmas `Reopened`, `Started`, `Stopped` and `Bystander` say what
  the four ways in which handlers touch the two tables preserve, and
  `SupervisionStep` goes through the actions.
- `RestartsAreLive` is an action property: a panel leaves the stopped state only
  in the three handlers that start its stream in the same step.

`RequestLedgerProofs` holds for any bounds with room for the boot reads.

- `Ledger` is the inductive invariant: `EntriesAreBacked` is not inductive, since
  an answer could take out the entry of another request and leave that one's
  answer without an entry, or be aborted under a shared id. It is joined by
  `Recorded` (a Model gives ids out in order; the boot reads have the first ones,
  so a remembered write never shares an id with them) and `OneOwner` (as long as
  no id in use was given out again, an id is in one table at most and every answer
  with that id is its answer). From it follow `Backed` and `AnswersMatch`.

`PromptDeliveryProofs` holds for any sets of sessions and texts, with or without a
preset provider.

- `Delivery` is the inductive invariant. `KeyNamesOnePrompt` rests on `Numbered`
  (keys in use are below the counter). `DraftHasOneKey` rests on `Resent`: a draft
  that was sent before is the last thing this Model sent, and sits in
  `failed_prompt` when it can be sent again; that in turn rests on `Single` (one
  prompt on its way, nothing kept as failed beside it) and on `Panel`: while the
  chooser is open nothing is on its way, so its draft is not cleared or accepted
  under it. Even `TypeOK` needs `Panel`, because the chooser sends without looking
  at the composer again. `Retired` and `Owed` carry the two action properties:
  `Owed` says that a session not prompted before it was known to be created here is
  in `app_created_sessions` until it has accepted a prompt (`RuntimeIsOwed`).
  `PostStep` is the lemma for everything that is sent.

`SessionProofs` is about the session on screen. Of `TranscriptSync`, for any page
size, log and window:

- `IInv` is the inductive invariant, checked by TLC on the instance of the run. The
  theorems follow from it: `TypeCorrect` (proved only), `LosesNothing` (`NothingLost`),
  `ShowsNothingForeign` (`NothingForeign`), `SettlesCurrent` (`SettledIsCurrent`)
  and the action property `MovesOn` (`NeverGoesBack`).
- `LogShape` is the daemon's: an event names the first event of its entry, and
  entries do not interleave. `Dated`: nothing carries a fence still to come.
  `MessagesOK` says of every page and frame on its way which events it covers, so
  that reading one later than it was made loses nothing.
- `ShownOK` restates the two safety properties by events: each event up to the
  cursor, of an entry not older than the page, is in what is shown. The lemma
  `DeltaShows` is the heart of it: a delta that `apply_delta` does not refuse as a
  gap continues the panel wherever the stream had started, because the least entry
  in it reaches back to the event after the cursor. The gap detection is therefore
  enough by itself to lose nothing; where the engine reconnects does not matter to
  `NothingLost`, only to `SettledIsCurrent`.
- `QueueOK`: frames are queued in the order of the log and none is behind the
  panel. `StreamOK`: unless a page is awaited, which restarts the stream, the
  panel's cursor is the watched one, and the stream is not ahead of what is shown
  or queued. `SettlesCurrent` needs both.
- `MovesOn` needs `QueueOK` for the cursor and, for the entries, that a frame which
  touches an entry has all its events up to the frame's last one (`FrameOK`): then
  it cannot bring an older version than the panel has. A page may be older than the
  panel, but `prepend_page` keeps what is loaded. It is about the fence the daemon
  has: of one that is rewritten there is no log any more to compare with.
- The history variable `crossed` is a hypothesis of all but `TypeCorrect`, as in
  the run: what happens after a crossing is in section 4.

Of `Attention`, for any items, orders and bounds (`ConstantsAssumption`; the kinds
of items are disjoint):

- `ListTypeCorrect`: sources, list, confirmation and reads are well formed. The
  list is built by the recursive function of `Listed`, about which `ListedIs` says
  that it has only items of the set and is no longer than the order.
- `DecidedIsOffTheList` is an action property: a delta (`Synced`) or a page
  (`ApplyTranscript`) that closes the card on screen takes the permission out of its
  source, and the list is rebuilt from the three sources in the same step; it has
  the item from no other source, the kinds being disjoint.
- `PersistentIsOffered`: the row is looked at again when the confirmation comes, so
  that the decision may hit another permission (`attention_confirm`) but never one
  that does not offer it.

`RunTimelineProofs` holds for any kinds of events and any bounds.

- `Typed` is the type invariant with what it needs of the queue: an event in it is
  in the daemon's log and can be read. `TypeCorrect` (proved only, no run checks it)
  and `EndShown` follow from it.
- `InOrder` is what the refinement rests on. `QueueInOrder`: of an event in the
  queue, everything before it is known or stands before it. `EngineInOrder`: what
  the engine's last id has passed is known or in the queue. `CursorsInOrder`: what
  the panel's cursor and the watch channel have passed is known. A reconnect takes
  the watched cursor if it has changed since the last connection and else the
  engine's id, so neither skips an event; none of the three is inductive without
  the others.
- `Fresh` says what the panel of a run that is open for the first time has;
  `NoGap`, which is `TimelineComplete`, follows.
- `StepsImplementFeed`: initial states are initial states of `EventFeed`, and every
  step is a step of it or a stutter (`ReceiptFeed` for the messages,
  `QuietFeed` for the rest). The fairness of `EventFeed` is only model-checked.

`PanelProofs` holds for any streams, kinds of entries and bounds. Of `Polling`:
`TypeCorrect`, which no run checks, and `TimersArePending`, which is `TimersInStep`.
Its inductive invariant is `TimersBacked` with `EachOnce`: of a timer that was not
armed after it had rung nothing sleeps outside `Tasks.timers`, and one task or one
message is all there is of it. The first half is needed because arming it again
replaces only a task it finds. `Ringing`, `RingingAstray`, `Arming` and `Taking` say
what a task, an arming and the taking of a message do to one timer, `FiresOne`,
`ArmsOne`, `TakesOne` and `PollsAgain` to all of them; the rest is that each handler
that sets a flag arms its timer in the same step. Of `TranscriptView`:

- `RowsAre`: the rows are nonempty sets of entries, and every entry is in one. They
  are cut from `Sorted`, which puts each member where its rank is; `SortedIs` shows
  by counting (ranks are an injection into the places, hence onto them) that it
  leaves nobody out.
- `RowsStayCurrent` is inductive with `ViewTypeOK`: what arrives ends in
  `recompute_search` and the rebuilding of the cache (`RedrawnKeeps`), and the keys
  that do not change neither rows nor what is unfolded (`Moved`). It starts true
  because the first page is still to come.
- `AnchorStays` is an action property: `RowOf` finds the row an entry is in, since
  there the nearest entry is the entry itself (`NearestIs`, `RowOfIs`), and then
  `source` keeps the anchor within the row. It needs no relation between `source`
  and the selection before the step.

`StartupProofs` holds for any directories, registrations and changes of the daemon,
where a path is a sequence of names (`StartupAssumption`):

- `TerminalComesBack` rests on `Ownership`, which says for each phase how much of
  hook, raw mode, guard and handlers is in place: an error, a panic or a signal
  between two of these steps restores what has been taken so far.
- `DeepestIsChosen`: among the roots that contain the directory a longest one
  exists, for none is longer than the directory, and no other contains it more
  deeply, for prefixes of one path nest (`PrefixesNest`). The situation does not
  change after it was read, so the answer stays right while the interface runs.
- `TypeCorrect` is the type invariant of `Boot`: `Startup` and `Onboarding` apart,
  and `HandOver` between them, for which the resolution must still be that of the
  situation (`StartOK`). Its conjunct about `startup_boot_pending` is not about
  types: a read the boot waits for is always on its way or answered, so that the
  overlay cannot wait for an answer that nobody owes (`BootKeeps`, `TakeKeeps`).
- `LocksAreBacked` is the safety half of `LocksOpen`: an overlay that takes no keys
  has a request on its way, or answered, that opens it. `Waits` adds that the
  overlay is there only with `startup_candidate`, without which an answer to the
  catalog read would unlock nothing, and that a boot that locks waits for a read;
  `Early` that the model which opens is a new one, so that nothing is left over
  from before (`RunsOnce`).

`KeyRoutingProofs` holds for any actions, combinations, defaults and tables.

- `KeymapInv` is inductive: `FileDecides` needs the two directions to agree
  (`DirectionsAgree`, by itself `HelpIsTrue`), a group to bind its own actions
  (`OwnGroup`), and entries to come in order (`EntryIsLast`). `LossesAreTold` adds
  the step at the end of the table: whatever is not the separator is found among
  the reserved combinations when an action takes it from a panel. Of the separator it
  says nothing; section 4 has what happens to it.
- `KeysGoWhereTheEyeIs` rests on `RoutingInv`, which says which panel has the focus
  while a confirmation or a field is open, and that the palette has none beside it; `TakerIs` turns the order of `key`
  into cases, and one lemma for each group of keys and answers keeps the invariant.

Each inductive invariant was checked by TLC on the instance of its run before it
was proved.

Induction over data is not available: the library's induction theorems take an
operator as a parameter. Where a proof needs it, it takes a least counterexample
instead: every nonempty set of numbers has a least member (`LeastExists`, from the
well-foundedness of `<`) and, if bounded, a greatest one (`GreatestExists`).
`ListedIs`, `LongestExists` and `RowsAre` are proved so; no module declares a
RECURSIVE operator.

Only model-checked: liveness under fairness, which with ENABLED is out of the
prover's reach. `PendingIsAnswered`, `ListSettles`, `DaemonStateSettles`,
`RunsCatchUp`, `Settles`, `LocksOpen` and the liveness of `FeedImplemented` are
checked by TLC alone; of `LocksOpen`, `LocksAreBacked` proves what does not need
fairness. The two runs that expect a violation have no theorem.

## 6. Not modelled

- The lines of the log overlay (`update/logs.rs`): a page and a stream overlap and
  nothing removes duplicates, but nothing in the repository says that a line is
  shown once, so there is no promise to check. The stream is in `StreamLifecycle`.
- The precedence of defaults, file, environment and flags in `config.rs`, a pure
  merge, and the comparison of version strings.
- How rows, cards, markdown and themes are drawn: pure functions of the model. Which
  parts are drawn at which size is in `KeyRouting`, which texts the cache has in
  `TranscriptView`.
- The HTTP client: one function per route around one call, whose outcomes are the
  inputs of the models; the byte-level parser of the SSE engine, and the length of
  its backoff (what matters of it, that it is tried again, is in `RunTimeline`).
- What `doctor` and `sessions` print; how they start and end is in `Startup`.
- The test kit and the contract, which are not part of the program.
- Two effects of a switch on the screen: the new `Model` believes in a window of
  100 by 30 until the next resize, and shows the daemon as running until the next
  poll. `TakerOnScreen` is about a model that knows its window.

Parts with their status are listed under `components` in `PROJECT.json`.
