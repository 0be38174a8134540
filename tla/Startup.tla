------------------------------ MODULE Startup ------------------------------
(***************************************************************************)
(* The process from its arguments to its exit code: the four commands, the *)
(* wait for a daemon, the workspace it starts in and the state it leaves   *)
(* the terminal in (batuta/src/main.rs, app.rs, terminal.rs, tail.rs,      *)
(* sessions.rs, doctor.rs, workspace.rs, version.rs; Client::probe in      *)
(* compozy-client/src/transport.rs).                                       *)
(*                                                                         *)
(* Each phase is what the process does next.  What is printed is left out. *)
(* Canonical paths are sequences of components; a root that canonicalize   *)
(* refuses is Gone.                                                        *)
(***************************************************************************)
EXTENDS Integers, FiniteSets, Sequences, SequencesExt

CONSTANTS
    Commands,         \* those of "tui", "doctor", "sessions", "tail" that are run
    Situations,       \* [list, selector, cwd]: the workspaces of the daemon, how one
                      \* is asked for (--workspace, COMPOZY_WORKSPACE), and where from
    Orders,           \* those of "auto", "uds" and "tcp" that are asked for
    Gone,             \* a root that is not there any more
    MaxTurns          \* bound: changes of the daemon

ASSUME StartupAssumption ==
    /\ Commands \subseteq {"tui", "doctor", "sessions", "tail"}
    /\ Orders \subseteq {"auto", "uds", "tcp"}
    /\ MaxTurns \in Nat
    /\ \A s \in Situations :
         /\ s.list \in Seq(ToSet(s.list)) /\ s.cwd \in Seq(ToSet(s.cwd))
         /\ \A ws \in ToSet(s.list) : ws.root # Gone => ws.root \in Seq(ToSet(ws.root))
         /\ s.selector.by \in {"none", "id", "path", "name"}

VARIABLES
    command, order, situation,
    tty,              \* stdout is a terminal
    input,            \* external: keys can still come
    daemon,           \* external: the transports it answers on, and "old" below the floor
    turns,            \* history, for the bound
    phase,
    client,           \* the transport of the client, or "none"
    hook, raw, guard, \* panic hook installed, terminal in raw mode, TerminalGuard alive
    signals,          \* signals that have a handler
    resolution,       \* what the workspace resolution returned
    code              \* exit code, "killed" by a signal, or "none"

arguments == <<command, order, situation, tty>>
terminal == <<hook, raw, guard>>
startupVars == <<arguments, input, daemon, turns, phase, client, terminal, signals,
                 resolution, code>>

-----------------------------------------------------------------------------
(* Workspaces.                                                             *)

Found(ws) == [kind |-> "selected", id |-> ws.id]
Unresolved == [kind |-> "unresolved", id |-> "none"]
Refused == [kind |-> "refused", id |-> "none"]

First(list, hits) ==
    IF hits = {} THEN Refused ELSE Found(list[CHOOSE i \in hits : \A j \in hits : i <= j])

(* By id or path the first that fits, by name the only one.                *)
ResolveExplicit(list, selector) ==
    LET named == {i \in DOMAIN list : list[i].name = selector.value}
    IN  CASE selector.by = "id" ->
                First(list, {i \in DOMAIN list : list[i].id = selector.value})
          [] selector.by = "path" ->
                First(list, {i \in DOMAIN list : /\ selector.value # Gone
                                                 /\ list[i].root = selector.value})
          [] selector.by = "name" ->
                IF Cardinality(named) = 1 THEN First(list, named) ELSE Refused

Around(ws, cwd) == ws.root # Gone /\ IsPrefix(ws.root, cwd)

(* Mutant: the first root that fits, however short.                        *)
FirstMatch(list, selector, cwd) ==
    LET hits == {i \in DOMAIN list : Around(list[i], cwd)}
    IN  IF selector.by # "none" THEN ResolveExplicit(list, selector)
        ELSE IF hits = {} THEN Unresolved ELSE First(list, hits)

(* The longest root, the last one of those as long (max_by_key).           *)
ResolveStartup(list, selector, cwd) ==
    LET hits == {i \in DOMAIN list : Around(list[i], cwd)}
        Longest(i) == \A j \in hits :
            \/ Len(list[j].root) < Len(list[i].root)
            \/ Len(list[j].root) = Len(list[i].root) /\ j <= i
    IN  CASE selector.by # "none" -> ResolveExplicit(list, selector)
          [] selector.by = "none" /\ hits = {} -> Unresolved
          [] OTHER -> Found(list[CHOOSE i \in hits : Longest(i)])

-----------------------------------------------------------------------------
(* The daemon.                                                             *)

Up(d) == d \cap {"uds", "tcp"}

(* The socket first, unless the order says otherwise.                      *)
Probe(d, ord) ==
    CASE ord # "tcp" /\ "uds" \in d -> "uds"
      [] (ord = "tcp" \/ (ord = "auto" /\ "uds" \notin d)) /\ "tcp" \in d -> "tcp"
      [] OTHER -> "none"

Fit(d, ord) == Probe(d, ord) # "none" /\ "old" \notin d

(* Exit codes 0, 1, 2, 101 and 130, and the default action of a signal.    *)
Codes == {"none", "ok", "error", "usage", "panic", "interrupted", "killed"}

Phases == {"arguments", "hook", "init", "guard", "probe", "status", "retry", "resolve",
           "work", "running", "exited"}

Outcomes ==
    {Unresolved, Refused} \cup UNION {{Found(ws) : ws \in ToSet(s.list)} : s \in Situations}

StartupTypeOK ==
    /\ command \in Commands /\ order \in Orders /\ situation \in Situations
    /\ tty \in BOOLEAN /\ input \in BOOLEAN
    /\ daemon \subseteq {"uds", "tcp", "old"} /\ turns \in 0..MaxTurns
    /\ phase \in Phases
    /\ client \in {"none", "uds", "tcp"}
    /\ hook \in BOOLEAN /\ raw \in BOOLEAN /\ guard \in BOOLEAN
    /\ signals \subseteq {"INT", "TERM"}
    /\ resolution \in Outcomes
    /\ code \in Codes

StartupInit ==
    /\ command \in Commands /\ order \in Orders /\ situation \in Situations
    /\ tty \in BOOLEAN /\ input = TRUE
    /\ daemon \in {{"uds", "tcp"}, {"tcp", "old"}, {}} /\ turns = 0
    /\ phase = "arguments"
    /\ client = "none"
    /\ hook = FALSE /\ raw = FALSE /\ guard = FALSE
    /\ signals = {}
    /\ resolution = Unresolved
    /\ code = "none"

(* Later the daemon's answers say how it is.                               *)
Turn ==
    /\ phase \notin {"running", "exited"}
    /\ turns < MaxTurns
    /\ turns' = turns + 1
    /\ daemon' \in {{"uds", "tcp"}, {"tcp"}, {"uds", "tcp", "old"}, {}} \ {daemon}
    /\ UNCHANGED <<arguments, input, phase, client, terminal, signals, resolution, code>>

(* It matters while keys are waited for.                                   *)
CloseInput ==
    /\ phase \in {"probe", "status", "retry"} /\ input
    /\ input' = FALSE
    /\ UNCHANGED <<arguments, daemon, turns, phase, client, terminal, signals, resolution,
                   code>>

-----------------------------------------------------------------------------
(* Steps of the process.                                                   *)

Step(from, to) ==
    /\ phase = from
    /\ phase' = to
    /\ UNCHANGED <<arguments, input, daemon, turns, code>>

(* Returning drops the guard, and that restores the terminal.              *)
Drop ==
    /\ guard' = FALSE
    /\ raw' = (raw /\ ~guard)
    /\ UNCHANGED hook

Exit(c) ==
    /\ phase' = "exited" /\ code' = c
    /\ Drop
    /\ UNCHANGED <<arguments, input, daemon, turns, client, signals, resolution>>

(* The configuration or the arguments of the command are not right.        *)
Misused == phase = "arguments" /\ Exit("usage")

(* The terminal interface needs a terminal before anything else.           *)
Begin ==
    /\ Step("arguments", IF command = "tui" THEN "hook" ELSE "probe")
    /\ command = "tui" => tty
    /\ signals' = {"INT"}
    /\ UNCHANGED <<client, terminal, resolution>>

NoTerminal ==
    /\ ~tty
    /\ \/ phase = "arguments" /\ command = "tui"
       \/ phase = "work" /\ command = "tail"
    /\ Exit("error")

(* Mutant: the terminal is set up before the hook.                         *)
InstallHookLate ==
    /\ Step("hook", "init")
    /\ UNCHANGED <<client, terminal, signals, resolution>>

InstallHook ==
    /\ Step("hook", "init")
    /\ hook' = TRUE
    /\ UNCHANGED <<client, raw, guard, signals, resolution>>

InitTerminal ==
    /\ Step("init", "guard")
    /\ raw' = TRUE
    /\ UNCHANGED <<client, hook, guard, signals, resolution>>

(* The signals that end the program are waited for once the model runs.    *)
Handlers == IF phase' = "running" THEN {"INT", "TERM"} ELSE signals

EnterGuard ==
    /\ Step("guard", IF command = "tui" THEN "probe" ELSE "running")
    /\ guard' = TRUE
    /\ signals' = Handlers
    /\ UNCHANGED <<client, hook, raw, resolution>>

(* A key read while something is awaited is lost unless it quits.  With    *)
(* the input closed the interface waits for a key that cannot come, in a   *)
(* loop that lets nothing else run.                                        *)
Awaiting == command = "tui" => input

ProbeDaemon ==
    /\ Awaiting
    /\ \/ /\ Probe(daemon, order) # "none"
          /\ Step("probe", "status")
          /\ client' = Probe(daemon, order)
          /\ UNCHANGED <<terminal, signals, resolution>>
       \/ /\ Probe(daemon, order) = "none" /\ command = "tui"
          /\ Step("probe", "retry")
          /\ UNCHANGED <<client, terminal, signals, resolution>>
       \/ /\ Probe(daemon, order) = "none" /\ command # "tui"
          /\ phase = "probe"
          /\ Exit("error")

(* The interface does not start on a daemon below the floor; the others    *)
(* only warn.                                                              *)
ReadStatus ==
    /\ phase = "status"
    /\ Awaiting
    /\ \/ /\ client \in daemon
          /\ ~(command = "tui" /\ "old" \in daemon)
          /\ Step("status", "resolve")
          /\ UNCHANGED <<client, terminal, signals, resolution>>
       \/ /\ command = "tui" /\ (client \notin daemon \/ "old" \in daemon)
          /\ Step("status", "retry")
          /\ UNCHANGED <<client, terminal, signals, resolution>>
       \/ /\ command # "tui" /\ client \notin daemon
          /\ Exit("error")

(* Mutant: nothing is tried after the screen is drawn.                     *)
RetryNever == FALSE /\ UNCHANGED startupVars

RetryAfterWait ==
    /\ Awaiting
    /\ Step("retry", "probe")
    /\ client' = "none"
    /\ UNCHANGED <<terminal, signals, resolution>>

QuitWhileWaiting ==
    /\ command = "tui" /\ input
    /\ phase \in {"probe", "status", "retry"}
    /\ Exit("ok")

Resolved == ResolveStartup(situation.list, situation.selector, situation.cwd)

ResolveWorkspace ==
    /\ phase = "resolve"
    /\ \/ /\ client \in daemon
          /\ Resolved.kind # "refused"
          /\ Resolved.kind = "unresolved" => command \in {"tui", "doctor"}
          /\ Step("resolve", IF command = "tui" THEN "running" ELSE "work")
          /\ resolution' = Resolved
          /\ signals' = Handlers
          /\ UNCHANGED <<client, terminal>>
       \/ /\ \/ client \notin daemon
             \/ Resolved.kind = "refused"
             \/ (Resolved.kind = "unresolved" /\ command \in {"sessions", "tail"})
          /\ Exit("error")

(* doctor waits two seconds for the catalog stream and reports what it     *)
(* saw; sessions prints a page; tail finds a session and needs a terminal. *)
Work ==
    /\ phase = "work"
    /\ \/ command = "doctor" /\ Exit("ok")
       \/ command = "sessions" /\ Exit(IF client \in daemon THEN "ok" ELSE "error")
       \/ command = "tail" /\ Exit("error")
       \/ /\ command = "tail" /\ client \in daemon /\ tty
          /\ Step("work", "hook")
          /\ UNCHANGED <<client, terminal, signals, resolution>>

(* The update loop has returned: quit, or the terminal could not be drawn. *)
Return(c) == phase = "running" /\ Exit(c)

-----------------------------------------------------------------------------
(* Signals and panics.                                                     *)

Killed ==
    /\ phase' = "exited" /\ code' = "killed"
    /\ UNCHANGED <<arguments, input, daemon, turns, client, terminal, signals, resolution>>

(* Setting the terminal up awaits nothing: a handler runs after it.        *)
Interrupted ==
    /\ phase # "exited"
    /\ IF "INT" \in signals
         THEN /\ phase \notin {"hook", "init", "guard"}
              /\ phase \in {"probe", "status", "retry"} => Awaiting
              /\ Exit("interrupted")
         ELSE Killed

Terminated ==
    /\ phase # "exited"
    /\ IF "TERM" \in signals THEN Exit("ok") ELSE Killed

(* The hook restores the terminal, then the stack unwinds.                 *)
Panic ==
    /\ phase \notin {"arguments", "hook", "exited"}
    /\ phase' = "exited" /\ code' = "panic"
    /\ guard' = FALSE
    /\ raw' = (raw /\ ~hook /\ ~guard)
    /\ UNCHANGED hook
    /\ UNCHANGED <<arguments, input, daemon, turns, client, signals, resolution>>

Progress ==
    \/ Begin \/ NoTerminal
    \/ InstallHook \/ InitTerminal \/ EnterGuard
    \/ ProbeDaemon \/ ReadStatus \/ RetryAfterWait
    \/ ResolveWorkspace
    \/ Work

StartupNext ==
    \/ Turn
    \/ CloseInput
    \/ Misused
    \/ Progress
    \/ QuitWhileWaiting
    \/ Interrupted
    \/ Terminated
    \/ Panic

(* Probes, reads and waits have a timeout; nothing else is waited for.     *)
StartupFairness == WF_startupVars(Progress)

-----------------------------------------------------------------------------
(* Whichever way the process ends, except by a signal it has no handler    *)
(* for, the terminal is as it was; and what draws on it owns it            *)
(* (terminal.rs:23, terminal.rs:50, app.rs:18).                            *)
TerminalRestored ==
    /\ phase = "exited" /\ code # "killed" => ~raw
    /\ phase \in {"running", "retry"} => raw
    /\ command \in {"doctor", "sessions"} => ~raw

(* Without a workspace asked for, the one chosen contains the directory,   *)
(* no other one in between does, and none is passed over (workspace.rs:52, *)
(* docs/internal/specs/2026-08-17-batuta-cli-design.md:243).               *)
DeepestChosen ==
    phase = "running" /\ command = "tui" /\ situation.selector.by = "none" =>
        LET around == {ws \in ToSet(situation.list) : Around(ws, situation.cwd)}
        IN  IF resolution.kind = "selected"
              THEN \E ws \in around :
                     /\ ws.id = resolution.id
                     /\ \A other \in around : IsPrefix(other.root, ws.root)
              ELSE around = {}

(* Once a daemon it can use is there for good, the interface starts or     *)
(* ends, unless its input is gone; the other commands end whatever the     *)
(* daemon does (app.rs:107, tail.rs:17, sessions.rs:10, doctor.rs:60).     *)
Settles ==
    /\ (command = "tui" /\ turns = MaxTurns /\ Fit(daemon, order)) ~>
           (phase \in {"running", "exited"} \/ ~input)
    /\ (command # "tui") ~> (phase \in {"running", "exited"})

=============================================================================
