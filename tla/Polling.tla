------------------------------ MODULE Polling ------------------------------
(***************************************************************************)
(* What keeps the runs list and the header of a workspace up to date: the  *)
(* timers of the model, the requests they send, and the reports of the     *)
(* streams (batuta-tui/src/app/update/timers.rs, api.rs, stream.rs,        *)
(* keys.rs, picker.rs, app/model.rs, app/panels/runs.rs; the tasks of the  *)
(* timers in runtime/mod.rs).                                              *)
(*                                                                         *)
(* One loop run is enough to tell a live list from one that is not.  The   *)
(* attention poll goes round as the status poll does; what it reads is in  *)
(* Attention.  Of the toasts only one that fades by itself counts.         *)
(* Answers to a workspace that was left are dropped here: what they do to  *)
(* requests of the same id is in RequestLedger.                            *)
(*                                                                         *)
(* The runtime keeps the handle of one task per timer.  It lets go of that *)
(* handle whenever a message of the timer is taken, also when the message  *)
(* is of an earlier task: the later one then sleeps on where no arming of  *)
(* the timer finds it (runtime/mod.rs:534).                                *)
(***************************************************************************)
EXTENDS Integers, FiniteSets

CONSTANTS
    Panels,           \* streams besides the catalog's that may be open
    MaxTurns,         \* bound: changes of the daemon's state
    MaxEvents,        \* bound: keys
    MaxFired,         \* bound: messages of timers in the channel, and timers they are of
    MaxAnswers,       \* bound: answers in the channel
    MaxTasks          \* bound: tasks and messages of the toast's timer

ASSUME BoundsAssumption ==
    /\ {MaxTurns, MaxEvents} \subseteq Nat
    /\ {MaxFired, MaxAnswers, MaxTasks} \subseteq Nat \ {0}
    /\ "catalog" \notin Panels

VARIABLES
    daemon,           \* external: "running", "draining" or "down"
    ended,            \* external: the run has ended
    timers,           \* the tasks of each timer and its messages, see Timer
    asked,            \* kinds of requests on their way
    answered,         \* answers in the channel
    pollOk, status,   \* daemon.poll_ok, daemon.status ("unread" after a failed read)
    active, lost,     \* active_streams, and those with status Stale or Fatal
    listed, hidden,   \* the run in runs_unfiltered, and whether the filter hides it
    debounce, guard,  \* catalog_debounce_armed, quit_guard
    toast, footer,    \* a toast that fades is shown; the footer says "resynchronized"
    running,          \* FALSE after quit
    turns, events,    \* history, for the bounds
    hid               \* history: the filter has hidden the run

world == <<daemon, ended, turns>>
requests == <<asked, answered>>
header == <<pollOk, status, active, lost>>
list == <<listed, hidden, hid>>
flags == <<debounce, guard, toast, footer>>
vars == <<world, timers, requests, header, list, flags, running, events>>

TimerIds == {"ToastExpiry", "QuitGuard", "StatusPoll", "CatalogDebounce", "RunsPoll"}
Streams == Panels \cup {"catalog"}

(* Of a timer: whether a task that sleeps is in tasks.timers, how many     *)
(* sleep outside it, and its messages in the channel.  History: it was     *)
(* armed while it had a message there, and has not been all gone since.    *)
Timer == [held : BOOLEAN, stray : Nat, fired : Nat, late : BOOLEAN]
Timers == [TimerIds -> Timer]
Idle == [held |-> FALSE, stray |-> 0, fired |-> 0, late |-> FALSE]

Sleeping(t) == t.stray + (IF t.held THEN 1 ELSE 0)
Going(t) == Sleeping(t) + t.fired

(* What the daemon may answer, besides an error.                           *)
Values == [status |-> {"running", "draining"}, runs |-> {"live", "ended"}, write |-> {"ok"}]
RequestKinds == DOMAIN Values
Answers == RequestKinds \X ({"error"} \cup UNION {Values[k] : k \in RequestKinds})

AnyLive(l, h) == l = "live" /\ ~h
Offline == ~pollOk /\ active # {} /\ active \subseteq lost
DaemonState ==
    CASE status = "draining" -> "draining"
      [] status # "draining" /\ Offline -> "offline"
      [] OTHER -> "connected"

Rings(t) == [held |-> FALSE, stray |-> t.stray, fired |-> t.fired + 1, late |-> t.late]
RingsAstray(t) ==
    [held |-> t.held, stray |-> t.stray - 1, fired |-> t.fired + 1, late |-> t.late]

(* Mutant: the task of before sleeps on.                                   *)
ArmedBeside(t) ==
    [t EXCEPT !.held = TRUE, !.stray = Sleeping(t), !.late = @ \/ t.fired > 0]

(* The task in tasks.timers is aborted and replaced; a message it has sent *)
(* stays in the channel.                                                   *)
Armed(t) == [t EXCEPT !.held = TRUE, !.late = @ \/ t.fired > 0]

(* The message is taken, and whatever task is in tasks.timers let go.      *)
Taken(t) ==
    [held |-> FALSE, stray |-> Sleeping(t), fired |-> t.fired - 1,
     late |-> t.late /\ Going(t) > 1]

TypeOK ==
    /\ daemon \in {"running", "draining", "down"} /\ ended \in BOOLEAN
    /\ timers \in Timers
    /\ asked \subseteq RequestKinds /\ answered \subseteq Answers
    /\ pollOk \in BOOLEAN /\ status \in {"running", "draining", "unread"}
    /\ active \subseteq Streams /\ lost \subseteq Streams
    /\ listed \in {"none", "live", "ended"} /\ hidden \in BOOLEAN
    /\ debounce \in BOOLEAN /\ guard \in BOOLEAN
    /\ toast \in BOOLEAN /\ footer \in BOOLEAN
    /\ running \in BOOLEAN /\ hid \in BOOLEAN
    /\ turns \in 0..MaxTurns /\ events \in 0..MaxEvents

Init ==
    /\ daemon = "running" /\ ended = FALSE
    /\ timers = [id \in TimerIds |-> IF id = "StatusPoll" THEN Armed(Idle) ELSE Idle]
    /\ asked = {"runs"} /\ answered = {}
    /\ pollOk = TRUE /\ status = "running"
    /\ active = {"catalog"} /\ lost = {}
    /\ listed = "none" /\ hidden = FALSE /\ hid = FALSE
    /\ debounce = FALSE /\ guard = FALSE /\ toast = FALSE /\ footer = FALSE
    /\ running = TRUE
    /\ turns = 0 /\ events = 0

-----------------------------------------------------------------------------
(* The daemon and the network.                                             *)

Turn ==
    /\ running
    /\ \/ /\ turns < MaxTurns
          /\ turns' = turns + 1
          /\ daemon' \in {"running", "draining", "down"} \ {daemon}
          /\ UNCHANGED ended
       \/ /\ ~ended /\ ended' = TRUE
          /\ UNCHANGED <<daemon, turns>>
    /\ UNCHANGED <<timers, requests, header, list, flags, running, events>>

(* A read is answered as things are; a write may be refused.               *)
Reply(kind) ==
    /\ running
    /\ kind \in asked
    /\ Cardinality(answered) < MaxAnswers
    /\ asked' = asked \ {kind}
    /\ \E a \in Values[kind] \cup {"error"} :
        /\ kind # "write" => (a = "error" <=> daemon = "down")
        /\ daemon = "down" => a = "error"
        /\ kind = "status" => a \in {daemon, "error"}
        /\ kind = "runs" => a \in {IF ended THEN "ended" ELSE "live", "error"}
        /\ answered' = answered \cup {<<kind, a>>}
    /\ UNCHANGED <<world, timers, header, list, flags, running, events>>

(* A task that sleeps sends its message, in tasks.timers or not.           *)
Fire(id) ==
    /\ running
    /\ timers[id].fired < MaxFired
    /\ Cardinality({i \in TimerIds : timers[i].fired > 0} \cup {id}) <= MaxFired
    /\ \/ timers[id].held /\ timers' = [timers EXCEPT ![id] = Rings(@)]
       \/ timers[id].stray > 0 /\ timers' = [timers EXCEPT ![id] = RingsAstray(@)]
    /\ UNCHANGED <<world, requests, header, list, flags, running, events>>

-----------------------------------------------------------------------------
(* Timers and requests.  A request that is on its way stands for another   *)
(* of its kind: what is counted are the timers.                            *)

Arm(id) == timers' = [timers EXCEPT ![id] = Armed(@)]
Ask(kind) == asked' = asked \cup {kind}
Rung(id) == running /\ timers[id].fired > 0
Take(id) == Rung(id) /\ timers' = [timers EXCEPT ![id] = Taken(@)]

ToastExpires ==
    /\ Take("ToastExpiry")
    /\ toast' = FALSE /\ footer' = FALSE
    /\ UNCHANGED <<world, requests, header, list, debounce, guard, running, events>>

GuardExpires ==
    /\ Take("QuitGuard")
    /\ guard' = FALSE
    /\ UNCHANGED <<world, requests, header, list, debounce, toast, footer,
                   running, events>>

StatusPolled ==
    /\ Rung("StatusPoll")
    /\ Ask("status")
    /\ timers' = [timers EXCEPT !["StatusPoll"] = Armed(Taken(@))]
    /\ UNCHANGED <<world, answered, header, list, flags, running, events>>

(* Mutant: the flag stays set.                                             *)
CatalogSettledArmed ==
    /\ Take("CatalogDebounce")
    /\ UNCHANGED <<world, requests, header, list, flags, running, events>>

(* Sessions and attention are read again.                                  *)
CatalogSettled ==
    /\ Take("CatalogDebounce")
    /\ debounce' = FALSE
    /\ UNCHANGED <<world, requests, header, list, guard, toast, footer,
                   running, events>>

RunsPolled ==
    /\ Take("RunsPoll")
    /\ Ask("runs")
    /\ UNCHANGED <<world, answered, header, list, flags, running, events>>

-----------------------------------------------------------------------------
(* Answers.  Any that is not an error says that the daemon is there.       *)

Receive(kind, a) ==
    /\ running
    /\ <<kind, a>> \in answered
    /\ answered' = answered \ {<<kind, a>>}
    /\ pollOk' = IF kind = "status" THEN a # "error" ELSE pollOk \/ a # "error"
    /\ UNCHANGED <<world, active, lost, hidden, hid, debounce, guard, footer,
                   running, events>>

(* Mutant: the status last read is kept.                                   *)
StatusArrivesOrNot(a) ==
    /\ Receive("status", a)
    /\ status' = IF a = "error" THEN status ELSE a
    /\ UNCHANGED <<timers, asked, listed, toast>>

StatusArrives(a) ==
    /\ Receive("status", a)
    /\ status' = IF a = "error" THEN "unread" ELSE a
    /\ UNCHANGED <<timers, asked, listed, toast>>

(* Mutant: a failure ends the poll.                                        *)
RunsArriveOrEnd(a) ==
    /\ Receive("runs", a)
    /\ listed' = IF a = "error" THEN listed ELSE a
    /\ IF a # "error" /\ AnyLive(listed', hidden) THEN Arm("RunsPoll") ELSE UNCHANGED timers
    /\ toast' = (toast /\ a # "error")
    /\ UNCHANGED <<asked, status>>

(* The poll goes on while a run that is not terminal is in the list as the *)
(* filter leaves it.  The toast of an error takes the place of another.    *)
RunsArrive(a) ==
    /\ Receive("runs", a)
    /\ listed' = IF a = "error" THEN listed ELSE a
    /\ IF AnyLive(listed', hidden) THEN Arm("RunsPoll") ELSE UNCHANGED timers
    /\ toast' = (toast /\ a # "error")
    /\ UNCHANGED <<asked, status>>

(* After the control of a run, done or failed, the list is read again.     *)
WriteAnswered(a) ==
    /\ Receive("write", a)
    /\ toast' = (a = "ok")
    /\ IF a = "ok" THEN Arm("ToastExpiry") ELSE UNCHANGED timers
    /\ asked' \in {asked, asked \cup {"runs"}}
    /\ UNCHANGED <<status, listed>>

-----------------------------------------------------------------------------
(* Streams.  The status a stream had when it was last open stays.          *)

Report(s) ==
    /\ running /\ s \in active
    /\ UNCHANGED <<world, requests, pollOk, status, active, list, guard, toast, running>>

StreamLost(s) ==
    /\ Report(s)
    /\ lost' = lost \cup {s}
    /\ UNCHANGED <<timers, debounce, footer, events>>

StreamLive(s) ==
    /\ Report(s) /\ daemon # "down"
    /\ lost' = lost \ {s}
    /\ UNCHANGED <<timers, debounce, footer, events>>

CatalogEvent ==
    /\ Report("catalog") /\ daemon # "down"
    /\ lost' = lost \ {"catalog"}
    /\ debounce' = TRUE
    /\ IF debounce THEN UNCHANGED timers ELSE Arm("CatalogDebounce")
    /\ UNCHANGED <<footer, events>>

(* A snapshot that resets the transcript on screen.                        *)
Resynchronized(s) ==
    /\ s \in Panels
    /\ Going(timers["ToastExpiry"]) < MaxTasks
    /\ Report(s) /\ daemon # "down"
    /\ lost' = lost \ {s}
    /\ footer' = TRUE
    /\ Arm("ToastExpiry")
    /\ UNCHANGED <<debounce, events>>

-----------------------------------------------------------------------------
(* Keys.                                                                   *)

Event == events < MaxEvents /\ events' = events + 1
Key == running /\ Event /\ UNCHANGED <<world, pollOk, status, lost, listed, debounce>>

OpenPanel(s) ==
    /\ Key
    /\ active' = (active \cap {"catalog"}) \cup {s}
    /\ footer' = FALSE
    /\ UNCHANGED <<timers, answered, asked, hidden, hid, guard, toast, running>>

ToggleLoop ==
    /\ Key
    /\ Ask("runs")
    /\ UNCHANGED <<timers, answered, active, hidden, hid, guard, toast, footer, running>>

(* Typing a filter only looks at what is there.                            *)
Filter ==
    /\ Key
    /\ hidden' = ~hidden
    /\ hid' = TRUE
    /\ UNCHANGED <<timers, answered, asked, active, guard, toast, footer, running>>

Write ==
    /\ Key
    /\ IF DaemonState = "draining"
         THEN toast' = FALSE /\ UNCHANGED asked
         ELSE Ask("write") /\ UNCHANGED toast
    /\ UNCHANGED <<timers, answered, active, hidden, hid, guard, footer, running>>

CtrlC(draft) ==
    /\ Key
    /\ IF draft /\ ~guard
         THEN /\ guard' = TRUE /\ toast' = FALSE
              /\ Arm("QuitGuard")
              /\ UNCHANGED <<requests, running>>
         ELSE /\ running' = FALSE
              /\ timers' = [id \in TimerIds |-> Idle]
              /\ asked' = {} /\ answered' = {}
              /\ UNCHANGED <<guard, toast>>
    /\ UNCHANGED <<active, hidden, hid, footer>>

(* A new Model, booted: its timers replace those of the same name, the     *)
(* others run on into it.  A write on its way is remembered for its toast. *)
Switch ==
    /\ running /\ Event
    /\ Arm("StatusPoll")
    /\ asked' = {"runs"} \cup (asked \cap {"write"})
    /\ answered' = {r \in answered : r[1] = "write"}
    /\ pollOk' = TRUE /\ status' = "running"
    /\ active' = {"catalog"} /\ lost' = {}
    /\ listed' = "none" /\ hidden' = FALSE /\ hid' = FALSE
    /\ debounce' = FALSE /\ guard' = FALSE /\ toast' = FALSE /\ footer' = FALSE
    /\ UNCHANGED <<world, running>>

-----------------------------------------------------------------------------
TakeTimer ==
    ToastExpires \/ GuardExpires \/ StatusPolled \/ CatalogSettled \/ RunsPolled

TakeAnswer ==
    \/ \E a \in Values["status"] \cup {"error"} : StatusArrives(a)
    \/ \E a \in Values["runs"] \cup {"error"} : RunsArrive(a)
    \/ \E a \in Values["write"] \cup {"error"} : WriteAnswered(a)

Next ==
    \/ Turn
    \/ \E k \in RequestKinds : Reply(k)
    \/ \E id \in TimerIds : Fire(id)
    \/ TakeTimer
    \/ TakeAnswer
    \/ \E s \in Streams : StreamLost(s) \/ StreamLive(s)
    \/ CatalogEvent
    \/ \E s \in Panels : Resynchronized(s) \/ OpenPanel(s)
    \/ ToggleLoop
    \/ Filter
    \/ Write
    \/ \E draft \in BOOLEAN : CtrlC(draft)
    \/ Switch

(* Requests are answered (they time out), timers fire, the update loop     *)
(* takes the messages of the channel, and a stream that has no connection  *)
(* says so.                                                                *)
Fairness ==
    /\ \A k \in {"status", "runs"} : SF_vars(Reply(k))
    /\ \A id \in {"StatusPoll", "RunsPoll"} : SF_vars(Fire(id))
    /\ WF_vars(TakeTimer)
    /\ WF_vars(TakeAnswer)
    /\ WF_vars(daemon = "down" /\ \E s \in active \ lost : StreamLost(s))

Spec == Init /\ [][Next]_vars /\ Fairness

-----------------------------------------------------------------------------
(* Whatever the model waits for a timer to undo has a timer on its way,    *)
(* and the status poll never stops: timers are replaced, left over by a    *)
(* switch, let go of, and overtaken by their own messages (timers.rs:6,    *)
(* runtime/mod.rs:534, runtime/mod.rs:634, stream.rs:52, keys.rs:893).     *)
Pending(id) == Going(timers[id]) > 0

TimersBacked ==
    running =>
        /\ Pending("StatusPoll")
        /\ debounce => Pending("CatalogDebounce")
        /\ guard => Pending("QuitGuard")
        /\ toast \/ footer => Pending("ToastExpiry")

(* A timer sleeps or has a message in the channel once and no more, as     *)
(* often as it is armed and over failed reads and switches, unless it was  *)
(* armed while a message of it was there: no other order of events makes a *)
(* poll go on twice (runtime/mod.rs:634).                                  *)
OnceEach == \A id \in TimerIds : ~timers[id].late => Going(timers[id]) <= 1

(* TimersBacked and OnceEach: the timers the model needs are on their way, *)
(* and only they, as long as none is armed again after it has rung.        *)
TimersInStep == TimersBacked /\ OnceEach

(* What runtime/mod.rs:842 tests of two armings in a row: that a timer is  *)
(* armed again replaces the one it had, so that one task of it sleeps at   *)
(* most.  Not so once it is armed between its message and the taking of    *)
(* it: the status poll then goes round twice for good.                     *)
RearmReplaces == \A id \in TimerIds : Sleeping(timers[id]) <= 1

(* The header ends up saying what the daemon is once that does not change  *)
(* any more (turns are bounded): connected, draining (and writes refused)  *)
(* or offline, whatever answers and reports cross (DaemonState::derive,    *)
(* Model::is_offline).                                                     *)
Shown == [running |-> "connected", draining |-> "draining", down |-> "offline"]

DaemonStateSettles == <>[](running => DaemonState = Shown[daemon])

(* A run that has ended is not listed as live for good, over failed reads, *)
(* unless the daemon goes away or a filter has hidden the run (api.rs:89,  *)
(* api.rs:313).                                                            *)
RunsCatchUp ==
    running /\ ended /\ listed = "live" ~>
        ~running \/ hid \/ daemon = "down" \/ listed # "live"

=============================================================================
