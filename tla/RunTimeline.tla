---------------------------- MODULE RunTimeline ----------------------------
(***************************************************************************)
(* The events of one loop run on their way from the daemon to the run      *)
(* panel: the SSE engine with its reconnects (compozy-client/src/sse), the *)
(* runtime's task and watch channel (batuta-tui/src/runtime), and the      *)
(* panel that collects the events and acts on the run                      *)
(* (app/update/stream.rs, keys.rs, detail_run.rs, api.rs).                 *)
(*                                                                         *)
(* An event is its sequence number.  How long the engine sleeps is left    *)
(* out; so are the texts of reports and toasts.                            *)
(***************************************************************************)
EXTENDS Integers, Sequences, FiniteSets, FiniteSetsExt

CONSTANTS
    MaxEvents,        \* bound: events the daemon produces
    MaxBreaks,        \* bound: connections refused, rejected or lost
    MaxOpens,         \* bound: times the run is opened
    MaxInbox,         \* bound: messages waiting for the update loop
    MaxReads,         \* bound: reads and writes of the run on their way
    Outputs,          \* children and sessions the generations of the run list
    Kinds             \* the kinds of events that occur

ASSUME BoundsAssumption ==
    /\ {MaxEvents, MaxBreaks, MaxOpens, Outputs} \subseteq Nat
    /\ {MaxInbox, MaxReads} \subseteq Nat \ {0}
    /\ Kinds \subseteq {"node", "gate", "garbled", "done"}

Phases == {"none", "checking", "connecting", "reading", "waiting", "over"}
Statuses == {"running", "done"}

VARIABLES
    log,              \* daemon: the events of the run
    engine,           \* the stream's task and its connection
    watch,            \* the cursor in the engine's watch channel
    inbox,            \* messages of the stream the update loop has not taken
    screen,           \* whether the run is the detail on screen
    run,              \* status in detail.run, "none" until it was read
    shown,            \* detail.events
    selection, confirm,
    active, cursor,   \* the run in active_streams and in stream_cursors
    live,             \* stream_status of the stream
    reads,            \* reads of the run on their way, by its status when asked
    posts,            \* controls and approvals on their way
    seen, missed,     \* history: events taken, and events dropped unwanted
    opens, breaks,    \* history, for the bounds
    crossed           \* history: the status shown was read before an event taken

panel == <<screen, run, shown, selection, confirm>>
client == <<panel, active, cursor, live, reads, posts>>
history == <<seen, missed, opens, breaks, crossed>>
vars == <<log, engine, watch, inbox, client, history>>

NoTask == [phase |-> "none", own |-> 0, source |-> 0, next |-> 0, reconnecting |-> FALSE]
NewTask == [NoTask EXCEPT !.phase = "checking"]

Ended == \E n \in DOMAIN log : log[n] = "done"
Status == IF Ended THEN "done" ELSE "running"
Gates == {n \in shown : log[n] = "gate"}
Targets == (IF run = "none" THEN 0 ELSE Outputs) + Cardinality(Gates)
IsGate(target) == target >= Targets - Cardinality(Gates) /\ target < Targets

Event(n) == [kind |-> "event", seq |-> n]
Report(kind) == [kind |-> kind, seq |-> 0]

TypeOK ==
    /\ log \in Seq(Kinds) /\ Len(log) <= MaxEvents
    /\ engine \in [phase: Phases, own: 0..MaxEvents, source: 0..MaxEvents,
                   next: 0..MaxEvents, reconnecting: BOOLEAN]
    /\ watch \in 0..MaxEvents
    /\ inbox \in Seq([kind: {"event", "lost", "reconnected", "fatal"}, seq: 0..MaxEvents])
    /\ screen \in BOOLEAN /\ run \in Statuses \cup {"none"}
    /\ shown \in SUBSET (1..Len(log))
    /\ selection \in Nat /\ confirm \in BOOLEAN
    /\ active \in BOOLEAN /\ cursor \in 0..MaxEvents /\ live \in BOOLEAN
    /\ reads \in [Statuses -> Nat] /\ posts \in Nat
    /\ {seen, missed} \subseteq SUBSET (1..Len(log))
    /\ opens \in 0..MaxOpens /\ breaks \in 0..MaxBreaks /\ crossed \in BOOLEAN

Init ==
    /\ log = <<>> /\ engine = NoTask /\ watch = 0 /\ inbox = <<>>
    /\ screen = FALSE /\ run = "none" /\ shown = {} /\ selection = 0 /\ confirm = FALSE
    /\ active = FALSE /\ cursor = 0 /\ live = FALSE
    /\ reads = [s \in Statuses |-> 0] /\ posts = 0
    /\ seen = {} /\ missed = {} /\ opens = 0 /\ breaks = 0 /\ crossed = FALSE

-----------------------------------------------------------------------------
(* The daemon.  Nothing follows the event that ends the run.               *)

Produce ==
    /\ Len(log) < MaxEvents /\ ~Ended
    /\ \E k \in Kinds : log' = Append(log, k)
    /\ UNCHANGED <<engine, watch, inbox, client, history>>

-----------------------------------------------------------------------------
(* The engine.                                                             *)

Send(messages) == Len(inbox) < MaxInbox /\ inbox' = inbox \o messages
Break == breaks < MaxBreaks /\ breaks' = breaks + 1

(* The cursor of the next attempt: what the model says, if it has said     *)
(* something new since, else what the connection got to by itself.         *)
Resume == IF watch # engine.source THEN watch ELSE engine.own

(* loop_run_events reads the run first and gives up if it cannot.          *)
RunChecked ==
    /\ engine.phase = "checking"
    /\ \/ /\ engine' = [engine EXCEPT !.phase = "connecting", !.own = watch, !.source = watch]
          /\ UNCHANGED <<inbox, breaks>>
       \/ /\ Break
          /\ engine' = [engine EXCEPT !.phase = "over"]
          /\ Send(<<Report("fatal")>>)
    /\ UNCHANGED <<log, watch, client, seen, missed, opens, crossed>>

(* Mutant: the request carries no cursor.                                  *)
AcceptedFromNow ==
    /\ engine.phase = "connecting"
    /\ engine' = [engine EXCEPT !.phase = "reading", !.own = Resume,
                                !.source = watch, !.next = Len(log)]
    /\ Send(IF engine.reconnecting THEN <<Report("reconnected")>> ELSE <<>>)
    /\ UNCHANGED <<log, watch, client, history>>

Accepted ==
    /\ engine.phase = "connecting"
    /\ engine' = [engine EXCEPT !.phase = "reading", !.own = Resume,
                                !.source = watch, !.next = Resume]
    /\ Send(IF engine.reconnecting THEN <<Report("reconnected")>> ELSE <<>>)
    /\ UNCHANGED <<log, watch, client, history>>

(* A connection that fails, or an answer of the daemon that is an error of *)
(* its own, is retried; an error of the request is final.                  *)
Refused(final) ==
    /\ engine.phase = "connecting"
    /\ Break
    /\ engine' = [engine EXCEPT !.phase = IF final THEN "over" ELSE "waiting",
                                !.own = Resume, !.source = watch, !.reconnecting = TRUE]
    /\ Send(<<Report(IF final THEN "fatal" ELSE "lost")>>)
    /\ UNCHANGED <<log, watch, client, seen, missed, opens, crossed>>

(* The id moves the cursor before the frame is decoded; one that cannot be *)
(* decoded is dropped.                                                     *)
ReadFrame ==
    /\ engine.phase = "reading"
    /\ engine.next < Len(log)
    /\ LET n == engine.next + 1 IN
       /\ engine' = [engine EXCEPT !.own = n, !.next = n]
       /\ Send(IF log[n] = "garbled" THEN <<>> ELSE <<Event(n)>>)
    /\ UNCHANGED <<log, watch, client, history>>

(* Mutant: a body that ends is not asked for again.                        *)
ConnectionLostForGood ==
    /\ engine.phase = "reading"
    /\ Break
    /\ engine' = [engine EXCEPT !.phase = "none", !.reconnecting = TRUE]
    /\ Send(<<Report("lost")>>)
    /\ UNCHANGED <<log, watch, client, seen, missed, opens, crossed>>

(* The body ends, fails or is silent for too long.                         *)
ConnectionLost ==
    /\ engine.phase = "reading"
    /\ Break
    /\ engine' = [engine EXCEPT !.phase = "waiting", !.reconnecting = TRUE]
    /\ Send(<<Report("lost")>>)
    /\ UNCHANGED <<log, watch, client, seen, missed, opens, crossed>>

Retry ==
    /\ engine.phase = "waiting"
    /\ engine' = [engine EXCEPT !.phase = "connecting"]
    /\ UNCHANGED <<log, watch, inbox, client, history>>

(* A task of its own passes the model's cursor on to the engine.           *)
ForwardCursor ==
    /\ engine.phase \notin {"none", "over"}
    /\ watch # cursor
    /\ watch' = cursor
    /\ UNCHANGED <<log, engine, inbox, client, history>>

-----------------------------------------------------------------------------
(* The update loop takes the messages of the stream.  What arrives for a   *)
(* stream that is no longer active is dropped.                             *)

Receive(kinds) ==
    /\ inbox # <<>>
    /\ Head(inbox).kind \in kinds
    /\ inbox' = Tail(inbox)
    /\ UNCHANGED <<log, watch, screen, selection, confirm, reads, posts, opens, breaks, crossed>>

ReceiveUnwanted ==
    /\ ~active
    /\ Receive({"event", "lost", "reconnected", "fatal"})
    /\ missed' = missed \cup ({Head(inbox).seq} \ {0})
    /\ UNCHANGED <<engine, run, shown, active, cursor, live, seen>>

ReceiveReport ==
    /\ active
    /\ Receive({"lost", "reconnected", "fatal"})
    /\ live' = (Head(inbox).kind = "reconnected")
    /\ UNCHANGED <<engine, run, shown, active, cursor, seen, missed>>

(* Mutant: the last event does not end the run.                            *)
ReceiveEventOnly ==
    LET n == Head(inbox).seq
        ends == screen /\ log[n] = "done"
    IN  /\ active
        /\ Receive({"event"})
        /\ live' = TRUE
        /\ seen' = seen \cup {n}
        /\ UNCHANGED <<missed, run>>
        /\ IF screen /\ n \in shown
             THEN UNCHANGED <<engine, shown, active, cursor>>
             ELSE /\ shown' = IF screen THEN shown \cup {n} ELSE shown
                  /\ cursor' = n
                  /\ active' = ~ends
                  /\ engine' = IF ends THEN NoTask ELSE engine

(* The event goes to the panel if the run is on screen; an event the panel *)
(* has already leaves the cursor where it is.                              *)
ReceiveEvent ==
    LET n == Head(inbox).seq
        ends == screen /\ log[n] = "done"
    IN  /\ active
        /\ Receive({"event"})
        /\ live' = TRUE
        /\ seen' = seen \cup {n}
        /\ UNCHANGED missed
        /\ IF screen /\ n \in shown
             THEN UNCHANGED <<engine, run, shown, active, cursor>>
             ELSE /\ shown' = IF screen THEN shown \cup {n} ELSE shown
                  /\ run' = IF ends /\ run # "none" THEN "done" ELSE run
                  /\ cursor' = n
                  /\ active' = ~ends
                  /\ engine' = IF ends THEN NoTask ELSE engine

-----------------------------------------------------------------------------
(* Opening and leaving the run.  The cursor of a run survives its panel.   *)

Ask == reads' = [reads EXCEPT ![Status] = @ + 1]
Pending == reads["running"] + reads["done"] + posts

OpenRun ==
    /\ opens < MaxOpens /\ Pending < MaxReads
    /\ opens' = opens + 1
    /\ screen' = TRUE /\ run' = "none" /\ shown' = {} /\ selection' = 0 /\ confirm' = FALSE
    /\ active' = TRUE
    /\ engine' = NewTask /\ watch' = cursor
    /\ Ask
    /\ crossed' = FALSE
    /\ UNCHANGED <<log, inbox, cursor, live, posts, seen, missed, breaks>>

LeaveRun ==
    /\ screen
    /\ screen' = FALSE /\ run' = "none" /\ shown' = {} /\ selection' = 0 /\ confirm' = FALSE
    /\ active' = FALSE
    /\ engine' = NoTask
    /\ UNCHANGED <<log, watch, inbox, cursor, live, reads, posts, history>>

(* The answer may have been read before an event that was taken first.     *)
RunArrives(asked, status) ==
    /\ reads[asked] > 0
    /\ status \in {asked, Status}
    /\ reads' = [reads EXCEPT ![asked] = @ - 1]
    /\ IF screen
         THEN /\ run' = status
              /\ crossed' = (status = "running" /\ \E n \in shown : log[n] = "done")
         ELSE UNCHANGED <<run, crossed>>
    /\ UNCHANGED <<log, engine, watch, inbox, screen, shown, selection, confirm,
                   active, cursor, live, posts, seen, missed, opens, breaks>>

(* A run that is not found takes its panel away and leaves its stream on.  *)
RunFails(asked, found) ==
    /\ reads[asked] > 0
    /\ Break
    /\ reads' = [reads EXCEPT ![asked] = @ - 1]
    /\ IF found
         THEN UNCHANGED panel
         ELSE /\ screen' = FALSE /\ run' = "none" /\ shown' = {}
              /\ selection' = 0 /\ confirm' = FALSE
    /\ UNCHANGED <<log, engine, watch, inbox, active, cursor, live, posts,
                   seen, missed, opens, crossed>>

-----------------------------------------------------------------------------
(* The keys of the panel.  A key the daemon's draining refuses does        *)
(* nothing, as if it had not been pressed.                                 *)

Select(target) ==
    /\ screen /\ ~confirm
    /\ target \in 0..(Targets - 1)
    /\ selection' = target
    /\ UNCHANGED <<log, engine, watch, inbox, screen, run, shown, confirm,
                   active, cursor, live, reads, posts, history>>

PostWrite ==
    /\ Pending < MaxReads
    /\ posts' = posts + 1

(* Pause and resume.                                                       *)
Control ==
    /\ screen /\ ~confirm /\ run # "done"
    /\ PostWrite
    /\ UNCHANGED <<log, engine, watch, inbox, panel, active, cursor, live, reads, history>>

AskKill ==
    /\ screen /\ ~confirm /\ run # "done"
    /\ confirm' = TRUE
    /\ UNCHANGED <<log, engine, watch, inbox, screen, run, shown, selection,
                   active, cursor, live, reads, posts, history>>

(* The status is not looked at again when the kill is confirmed.           *)
AnswerKill(yes) ==
    /\ screen /\ confirm
    /\ confirm' = FALSE
    /\ IF yes THEN PostWrite ELSE UNCHANGED posts
    /\ UNCHANGED <<log, engine, watch, inbox, screen, run, shown, selection,
                   active, cursor, live, reads, history>>

Approve ==
    /\ screen /\ ~confirm
    /\ IsGate(selection)
    /\ PostWrite
    /\ UNCHANGED <<log, engine, watch, inbox, panel, active, cursor, live, reads, history>>

(* Done or failed, the run is read again.                                  *)
WriteAnswered ==
    /\ posts > 0
    /\ posts' = posts - 1
    /\ Ask
    /\ UNCHANGED <<log, engine, watch, inbox, panel, active, cursor, live, history>>

-----------------------------------------------------------------------------
EngineStep == RunChecked \/ Accepted \/ ReadFrame \/ Retry

Receipt == ReceiveUnwanted \/ ReceiveReport \/ ReceiveEvent

Next ==
    \/ Produce
    \/ RunChecked
    \/ Accepted
    \/ \E final \in BOOLEAN : Refused(final)
    \/ ReadFrame
    \/ ConnectionLost
    \/ Retry
    \/ ForwardCursor
    \/ ReceiveUnwanted
    \/ ReceiveReport
    \/ ReceiveEvent
    \/ OpenRun
    \/ LeaveRun
    \/ \E asked, status \in Statuses : RunArrives(asked, status)
    \/ \E asked \in Statuses, found \in BOOLEAN : RunFails(asked, found)
    \/ \E target \in 0..(Outputs + MaxEvents) : Select(target)
    \/ Control
    \/ AskKill
    \/ \E yes \in BOOLEAN : AnswerKill(yes)
    \/ Approve
    \/ WriteAnswered

Spec ==
    /\ Init /\ [][Next]_vars
    /\ WF_vars(EngineStep)      \* tasks run, connections are tried again
    /\ WF_vars(Receipt)         \* the update loop takes messages

-----------------------------------------------------------------------------
(* Once the engine has given up, what it sent is all that will come.       *)
Feed == INSTANCE EventFeed WITH
            open <- active /\ (engine.phase # "over" \/ \E i \in DOMAIN inbox : inbox[i].kind = "event")

(* The engine, the runtime and the update loop together bring the panel    *)
(* every readable event of the run in order, over lost connections, late   *)
(* cursors and restarts of the stream; only an event that was dropped      *)
(* while no panel was open may be passed over (EventStream::open,          *)
(* client_stream, stream::stream).                                         *)
FeedImplemented == Feed!Spec

(* The first time a run is open, its panel shows every readable event up   *)
(* to the cursor (stream.rs:60, runtime/mod.rs:542).                       *)
TimelineComplete ==
    screen /\ opens = 1 =>
        shown = {n \in 1..cursor : log[n] # "garbled"}

(* A run whose last event is in the timeline is shown as ended, unless an  *)
(* answer read before that event came after it (stream.rs:69, api.rs:382). *)
EndedIsShown ==
    screen /\ (\E n \in shown : log[n] = "done") => run # "running" \/ crossed

=============================================================================
