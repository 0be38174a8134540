--------------------------- MODULE StartupProofs ---------------------------
(***************************************************************************)
(* Proofs about the process of Boot and the model it runs, for any         *)
(* workspaces, transports, changes of the daemon and orders of answers.    *)
(***************************************************************************)
EXTENDS Boot, SequenceTheorems, WellFoundedInduction, TLAPS

(* The phases in which the terminal is not touched yet, and those in which *)
(* the guard holds it: the interface waits for the daemon on the screen,   *)
(* the other commands before they have one.                                *)
Waiting == {"probe", "status", "retry", "resolve", "work"}
Untouched == phase \in {"arguments", "hook"} \/ (phase \in Waiting /\ command # "tui")
Guarding == phase = "running" \/ (phase \in Waiting /\ command = "tui")

(* TerminalRestored is not inductive: whether an exit restores depends on  *)
(* how far the set-up has come, and whether a signal ends the process in   *)
(* the middle of it on which handlers there are by then.                   *)
Ownership ==
    /\ command \in {"tui", "doctor", "sessions", "tail"}
    /\ phase \in Phases
    /\ Untouched => ~raw /\ ~guard
    /\ phase = "init" => hook /\ ~raw /\ ~guard
    /\ phase = "guard" => hook /\ raw /\ ~guard
    /\ Guarding => hook /\ raw /\ guard
    /\ phase = "retry" => command = "tui"
    /\ phase = "work" => command # "tui"
    /\ phase \in {"hook", "init", "guard", "running"} => command \in {"tui", "tail"}
    /\ "TERM" \in signals => phase \in {"running", "exited"}
    /\ phase = "exited" /\ code # "killed" => ~raw
    /\ command \in {"doctor", "sessions"} => ~raw

(* A process that returns has the terminal under its guard, or has not     *)
(* touched it.                                                             *)
LEMMA ExitRestores ==
    ASSUME NEW c, Ownership, Exit(c), phase \notin {"init", "guard", "exited"}
    PROVE  Ownership'
BY DEF Ownership, Exit, Drop, arguments, Untouched, Guarding, Waiting, Phases

(* The first two steps of the set-up and the last.                         *)
LEMMA StepsOfSetup ==
    ASSUME Ownership, Begin \/ InstallHook \/ InitTerminal \/ EnterGuard
    PROVE  Ownership'
<1> USE DEF Ownership, Step, arguments, terminal, Untouched, Guarding, Waiting, Phases
<1>1. CASE Begin
  BY <1>1 DEF Begin
<1>2. CASE InstallHook
  BY <1>2 DEF InstallHook
<1>3. CASE InitTerminal
  BY <1>3 DEF InitTerminal
<1>4. CASE EnterGuard
  BY <1>4 DEF EnterGuard, Handlers
<1> QED
  BY <1>1, <1>2, <1>3, <1>4

(* Waiting for the daemon and working with it leave the terminal alone.    *)
LEMMA StepsOfWaiting ==
    ASSUME Ownership, ProbeDaemon \/ ReadStatus \/ RetryAfterWait \/ ResolveWorkspace \/ Work
    PROVE  Ownership'
<1>1. CASE ProbeDaemon
  <2>1. CASE \E c : phase = "probe" /\ Exit(c)
    BY <2>1, ExitRestores
  <2>2. CASE \/ Step("probe", "status")
             \/ Step("probe", "retry") /\ command = "tui"
    BY <1>1, <2>2
       DEF ProbeDaemon, Exit, Ownership, Step, arguments, terminal, Untouched, Guarding,
           Waiting, Phases
  <2> QED
    BY <1>1, <2>1, <2>2 DEF ProbeDaemon
<1>2. CASE ReadStatus
  <2>1. CASE \E c : phase = "status" /\ Exit(c)
    BY <2>1, ExitRestores
  <2>2. CASE \/ Step("status", "resolve")
             \/ Step("status", "retry") /\ command = "tui"
    BY <1>2, <2>2
       DEF ReadStatus, Exit, Ownership, Step, arguments, terminal, Untouched, Guarding,
           Waiting, Phases
  <2> QED
    BY <1>2, <2>1, <2>2 DEF ReadStatus
<1>3. CASE RetryAfterWait
  BY <1>3 DEF RetryAfterWait, Ownership, Step, arguments, terminal, Untouched, Guarding,
              Waiting, Phases
<1>4. CASE ResolveWorkspace
  <2>1. CASE \E c : phase = "resolve" /\ Exit(c)
    BY <2>1, ExitRestores
  <2>2. CASE Step("resolve", IF command = "tui" THEN "running" ELSE "work")
    BY <1>4, <2>2
       DEF ResolveWorkspace, Exit, Handlers, Ownership, Step, arguments, terminal, Untouched,
           Guarding, Waiting, Phases
  <2> QED
    BY <1>4, <2>1, <2>2 DEF ResolveWorkspace
<1>5. CASE Work
  <2>1. CASE \E c : phase = "work" /\ Exit(c)
    BY <2>1, ExitRestores
  <2>2. CASE Step("work", "hook")
    BY <1>5, <2>2
       DEF Work, Exit, Ownership, Step, arguments, terminal, Untouched, Guarding, Waiting,
           Phases
  <2> QED
    BY <1>5, <2>1, <2>2 DEF Work
<1> QED
  BY <1>1, <1>2, <1>3, <1>4, <1>5

(* Signals and panics, at any point.                                       *)
LEMMA StepsOfFailure ==
    ASSUME Ownership, Interrupted \/ Terminated \/ Panic
    PROVE  Ownership'
<1>1. CASE Killed
  BY <1>1 DEF Killed, Ownership, arguments, terminal, Untouched, Guarding, Waiting, Phases
<1>2. CASE Interrupted
  <2>1. CASE phase \notin {"hook", "init", "guard", "exited"} /\ Exit("interrupted")
    BY <2>1, ExitRestores
  <2> QED
    BY <1>1, <1>2, <2>1 DEF Interrupted
<1>3. CASE Terminated
  <2>1. CASE "TERM" \in signals /\ phase # "exited" /\ Exit("ok")
    BY <2>1, ExitRestores DEF Ownership
  <2> QED
    BY <1>1, <1>3, <2>1 DEF Terminated
<1>4. CASE Panic
  BY <1>4 DEF Panic, Ownership, arguments, Untouched, Guarding, Waiting, Phases
<1> QED
  BY <1>2, <1>3, <1>4

(* Whichever way the process ends, except by a signal it has no handler    *)
(* for, the terminal is as it was; and what draws on it owns it            *)
(* (terminal.rs:23, terminal.rs:50, app.rs:18).                            *)
THEOREM TerminalComesBack == Spec => []TerminalRestored
<1>1. Init => Ownership
  BY StartupAssumption
     DEF Init, StartupInit, Ownership, Untouched, Guarding, Waiting, Phases
<1>2. Ownership /\ [Next]_vars => Ownership'
  <2> SUFFICES ASSUME Ownership, [Next]_vars PROVE Ownership'
    OBVIOUS
  <2>1. CASE ProcessStep
    <3>1. CASE Turn \/ CloseInput
      BY <3>1 DEF Turn, CloseInput, Ownership, arguments, terminal, Untouched, Guarding
    <3>2. CASE Misused
      BY <3>2, ExitRestores DEF Misused
    <3>3. CASE Progress
      <4>1. CASE NoTerminal
        BY <4>1, ExitRestores DEF NoTerminal
      <4> QED
        BY <3>3, <4>1, StepsOfSetup, StepsOfWaiting DEF Progress
    <3>4. CASE QuitWhileWaiting
      BY <3>4, ExitRestores DEF QuitWhileWaiting
    <3>5. CASE Interrupted \/ Terminated \/ Panic
      BY <3>5, StepsOfFailure
    <3> QED
      BY <2>1, <3>1, <3>2, <3>3, <3>4, <3>5 DEF ProcessStep, StartupNext
  <2>2. CASE Quit
    BY <2>2, ExitRestores DEF Quit, Return
  <2>3. CASE UNCHANGED startupVars
    BY <2>3 DEF startupVars, arguments, terminal, Ownership, Untouched, Guarding
  <2> QED
    BY <2>1, <2>2, <2>3 DEF Next, ModelStep, vars
<1>3. Ownership => TerminalRestored
  BY DEF Ownership, TerminalRestored, Guarding, Waiting
<1> QED
  BY <1>1, <1>2, <1>3, PTL DEF Spec

-----------------------------------------------------------------------------
(* The workspace a directory belongs to.                                   *)

LEMMA LeastExists ==
    ASSUME NEW S \in SUBSET Nat, S # {}
    PROVE  \E m \in S : \A n \in S : m <= n
<1>1. PICK m \in S : \A n \in S : ~(<<n, m>> \in OpToRel(<, Nat))
  BY NatLessThanWellFounded, WFMin, Zenon
<1>2. \A n \in S : <<n, m>> \in OpToRel(<, Nat) <=> n < m
  BY DEF OpToRel
<1>3. ASSUME NEW n \in S PROVE m <= n
  <2>1. ~(n < m)
    BY <1>1, <1>2, Zenon
  <2>2. m \in Nat /\ n \in Nat
    OBVIOUS
  <2>3. QED
    BY <2>1, <2>2
<1>4. QED
  BY <1>3

LEMMA GreatestExists ==
    ASSUME NEW S \in SUBSET Nat, S # {}, NEW b \in Nat, \A n \in S : n <= b
    PROVE  \E m \in S : \A n \in S : n <= m
<1> DEFINE T == {b - n : n \in S}
<1>1. \A n \in S : n \in Nat /\ b - n \in Nat
  <2>1. \A n \in S : n \in Nat /\ n <= b
    OBVIOUS
  <2>2. QED
    BY <2>1
<1>2. T \in SUBSET Nat /\ T # {}
  BY <1>1
<1>3. PICK t \in T : \A u \in T : t <= u
  BY <1>2, LeastExists
<1>4. PICK m \in S : t = b - m
  OBVIOUS
<1>5. ASSUME NEW n \in S PROVE n <= m
  <2>1. t <= b - n
    BY <1>3
  <2>2. QED
    BY <2>1, <1>1, <1>4
<1>6. QED
  BY <1>5

(* Of two directories above a third the shorter one is above the longer.   *)
LEMMA PrefixesNest ==
    ASSUME NEW A, NEW B, NEW C, NEW a \in Seq(A), NEW b \in Seq(B), NEW c \in Seq(C),
           IsPrefix(a, c), IsPrefix(b, c), Len(a) <= Len(b)
    PROVE  IsPrefix(a, b)
<1> DEFINE n == Len(a)
           front == SubSeq(b, 1, n)
<1>1. n \in Nat /\ Len(b) \in Nat /\ Len(c) \in Nat /\ n <= Len(b) /\ Len(b) <= Len(c)
  BY DEF IsPrefix
<1>2. \A i \in 1..n : a[i] = c[i]
  <2>1. SubSeq(a, 1, n) = SubSeq(c, 1, n)
    BY DEF IsPrefix
  <2>2. \A i \in 1..n : SubSeq(a, 1, n)[i] = a[i] /\ SubSeq(c, 1, n)[i] = c[i]
    <3>1. \A i \in 1..n : a[i] \in A /\ c[i] \in C
      BY <1>1
    <3>2. QED
      BY <1>1, <3>1, SubSeqProperties
  <2>3. QED
    BY <2>1, <2>2
<1>3. \A i \in 1..Len(b) : b[i] = c[i]
  <2>1. SubSeq(b, 1, Len(b)) = SubSeq(c, 1, Len(b))
    BY DEF IsPrefix
  <2>2. \A i \in 1..Len(b) : SubSeq(b, 1, Len(b))[i] = b[i] /\ SubSeq(c, 1, Len(b))[i] = c[i]
    <3>1. \A i \in 1..Len(b) : b[i] \in B /\ c[i] \in C
      BY <1>1
    <3>2. QED
      BY <1>1, <3>1, SubSeqProperties
  <2>3. QED
    BY <2>1, <2>2
<1>4. /\ front \in Seq(B) /\ Len(front) = n
      /\ \A i \in 1..n : front[i] = b[i]
  <2>1. \A i \in 1..n : b[i] \in B
    BY <1>1
  <2>2. QED
    BY <1>1, <2>1, SubSeqProperties
<1>5. /\ SubSeq(a, 1, n) \in Seq(A) /\ Len(SubSeq(a, 1, n)) = n
      /\ \A i \in 1..n : SubSeq(a, 1, n)[i] = a[i]
  <2>1. \A i \in 1..n : a[i] \in A
    BY <1>1
  <2>2. QED
    BY <1>1, <2>1, SubSeqProperties
<1>6. \A i \in 1..n : SubSeq(a, 1, n)[i] = front[i]
  <2>1. \A i \in 1..n : i \in 1..Len(b)
    BY <1>1
  <2>2. \A i \in 1..n : a[i] = b[i]
    BY <1>2, <1>3, <2>1
  <2> HIDE DEF front
  <2>3. QED
    BY <1>4, <1>5, <2>2
<1>7. SubSeq(a, 1, n) = front
  <2>1. SubSeq(a, 1, n) \in Seq(A \cup B) /\ front \in Seq(A \cup B)
    BY <1>4, <1>5, SeqMonotonic
  <2>2. QED
    BY <1>4, <1>5, <1>6, <2>1, SeqEqual
<1>8. QED
  BY <1>1, <1>7 DEF IsPrefix

LEMMA SituationIs ==
    ASSUME NEW s \in Situations
    PROVE  /\ s.list \in Seq(ToSet(s.list)) /\ s.cwd \in Seq(ToSet(s.cwd))
           /\ \A i \in DOMAIN s.list : /\ s.list[i] \in ToSet(s.list)
                                       /\ s.list[i].root # Gone
                                            => s.list[i].root \in Seq(ToSet(s.list[i].root))
           /\ s.selector.by \in {"none", "id", "path", "name"}
<1>1. /\ s.list \in Seq(ToSet(s.list)) /\ s.cwd \in Seq(ToSet(s.cwd))
      /\ \A ws \in ToSet(s.list) : ws.root # Gone => ws.root \in Seq(ToSet(ws.root))
      /\ s.selector.by \in {"none", "id", "path", "name"}
  BY StartupAssumption
<1>2. \A i \in DOMAIN s.list : s.list[i] \in ToSet(s.list)
  BY DEF ToSet
<1>3. QED
  BY <1>1, <1>2

Hits(s) == {i \in DOMAIN s.list : Around(s.list[i], s.cwd)}

Longest(s, i) == \A j \in Hits(s) :
    \/ Len(s.list[j].root) < Len(s.list[i].root)
    \/ Len(s.list[j].root) = Len(s.list[i].root) /\ j <= i

(* Among the roots around a directory there is a longest, for none is      *)
(* longer than the directory, and of those as long a last.                 *)
LEMMA LongestExists ==
    ASSUME NEW s \in Situations, Hits(s) # {}
    PROVE  \E i \in Hits(s) : Longest(s, i)
<1> DEFINE depth(i) == Len(s.list[i].root)
           Depths == {depth(i) : i \in Hits(s)}
<1>1. \A i \in Hits(s) : depth(i) \in Nat /\ depth(i) <= Len(s.cwd)
  <2>1. \A i \in Hits(s) : s.list[i].root \in Seq(ToSet(s.list[i].root))
    BY SituationIs DEF Hits, Around
  <2>2. \A i \in Hits(s) : depth(i) <= Len(s.cwd)
    BY DEF Hits, Around, IsPrefix
  <2>3. QED
    BY <2>1, <2>2
<1>2. Hits(s) \in SUBSET Nat /\ \A i \in Hits(s) : i <= Len(s.list)
  <2>1. DOMAIN s.list = 1..Len(s.list) /\ Len(s.list) \in Nat
    BY SituationIs
  <2>2. QED
    BY <2>1 DEF Hits
<1>3. Len(s.cwd) \in Nat /\ Len(s.list) \in Nat
  BY SituationIs
<1> HIDE DEF depth
<1>4. PICK l \in Depths : \A n \in Depths : n <= l
  <2>1. Depths \in SUBSET Nat /\ Depths # {} /\ \A n \in Depths : n <= Len(s.cwd)
    BY <1>1
  <2> HIDE DEF Depths
  <2>2. QED
    BY <1>3, <2>1, GreatestExists
<1> DEFINE Deep == {i \in Hits(s) : depth(i) = l}
<1>5. PICK i \in Deep : \A j \in Deep : j <= i
  <2>1. Deep \in SUBSET Nat /\ Deep # {} /\ \A j \in Deep : j <= Len(s.list)
    BY <1>2, <1>4
  <2> HIDE DEF Deep
  <2>2. QED
    BY <1>3, <2>1, GreatestExists
<1>6. i \in Hits(s) /\ depth(i) = l
  BY <1>5
<1>7. \A j \in Hits(s) : depth(j) < depth(i) \/ (depth(j) = depth(i) /\ j <= i)
  <2> SUFFICES ASSUME NEW j \in Hits(s)
               PROVE  depth(j) < depth(i) \/ (depth(j) = depth(i) /\ j <= i)
    OBVIOUS
  <2>1. depth(j) <= l /\ depth(j) \in Nat /\ l \in Nat
    BY <1>1, <1>4, <1>6
  <2>2. CASE depth(j) = l
    BY <1>5, <1>6, <2>2
  <2>3. QED
    BY <1>6, <2>1, <2>2
<1>8. QED
  BY <1>6, <1>7 DEF Longest, depth

(* What is taken when no workspace is asked for.                           *)
LEMMA TakenIsDeepest ==
    ASSUME NEW s \in Situations, s.selector.by = "none"
    PROVE  LET taken == ResolveStartup(s.list, s.selector, s.cwd)
               around == {ws \in ToSet(s.list) : Around(ws, s.cwd)}
           IN  \/ taken = Unresolved /\ around = {}
               \/ \E ws \in around : /\ taken = Found(ws)
                                     /\ \A other \in around : IsPrefix(other.root, ws.root)
<1> DEFINE taken == ResolveStartup(s.list, s.selector, s.cwd)
           around == {ws \in ToSet(s.list) : Around(ws, s.cwd)}
           c == CHOOSE i \in Hits(s) : Longest(s, i)
<1>1. \A ws : ws \in around <=> \E i \in Hits(s) : ws = s.list[i]
  BY DEF Hits, ToSet
<1>2. CASE Hits(s) = {}
  BY <1>1, <1>2 DEF ResolveStartup, Hits
<1>3. CASE Hits(s) # {}
  <2>1. taken = Found(s.list[c])
    BY <1>3 DEF ResolveStartup, Hits, Longest
  <2>2. c \in Hits(s) /\ Longest(s, c)
    BY <1>3, LongestExists
  <2> HIDE DEF c
  <2>3. ASSUME NEW j \in Hits(s) PROVE IsPrefix(s.list[j].root, s.list[c].root)
    <3>1. /\ s.list[j].root \in Seq(ToSet(s.list[j].root))
          /\ s.list[c].root \in Seq(ToSet(s.list[c].root))
          /\ IsPrefix(s.list[j].root, s.cwd) /\ IsPrefix(s.list[c].root, s.cwd)
      BY <2>2, SituationIs DEF Hits, Around
    <3>2. Len(s.list[j].root) \in Nat /\ Len(s.list[c].root) \in Nat
      BY <3>1
    <3>3. Len(s.list[j].root) <= Len(s.list[c].root)
      BY <2>2, <3>2 DEF Longest
    <3>4. s.cwd \in Seq(ToSet(s.cwd))
      BY SituationIs
    <3>5. QED
      BY <3>1, <3>3, <3>4, PrefixesNest
  <2>4. QED
    BY <1>1, <2>1, <2>2, <2>3
<1>4. QED
  BY <1>2, <1>3

(* Whatever is asked for, a workspace that is found is one of the list.    *)
LEMMA FirstIs ==
    ASSUME NEW list, NEW S, list \in Seq(S), NEW hits \in SUBSET DOMAIN list
    PROVE  First(list, hits) = Refused \/ \E ws \in ToSet(list) : First(list, hits) = Found(ws)
<1>1. SUFFICES ASSUME hits # {}
               PROVE  \E ws \in ToSet(list) : First(list, hits) = Found(ws)
  BY DEF First
<1>2. \E i \in hits : \A j \in hits : i <= j
  <2>1. hits \in SUBSET Nat
    OBVIOUS
  <2>2. QED
    BY <1>1, <2>1, LeastExists
<1>3. (CHOOSE i \in hits : \A j \in hits : i <= j) \in DOMAIN list
  BY <1>2
<1>4. QED
  BY <1>1, <1>3 DEF First, ToSet

LEMMA ResolvedIs ==
    ASSUME NEW s \in Situations
    PROVE  ResolveStartup(s.list, s.selector, s.cwd) \in Outcomes
<1> DEFINE taken == ResolveStartup(s.list, s.selector, s.cwd)
<1>1. s.list \in Seq(ToSet(s.list)) /\ s.selector.by \in {"none", "id", "path", "name"}
  BY SituationIs
<1>2. \A ws \in ToSet(s.list) : Found(ws) \in Outcomes
  BY DEF Outcomes
<1>3. Unresolved \in Outcomes /\ Refused \in Outcomes
  BY DEF Outcomes
<1>4. CASE s.selector.by = "none"
  <2>1. taken = Unresolved \/ \E ws \in ToSet(s.list) : taken = Found(ws)
    BY <1>4, TakenIsDeepest, Zenon
  <2>2. QED
    BY <1>2, <1>3, <2>1
<1>5. \A hits \in SUBSET DOMAIN s.list : First(s.list, hits) \in Outcomes
  BY <1>1, <1>2, <1>3, FirstIs
<1>6. CASE s.selector.by # "none"
  <2>1. taken = ResolveExplicit(s.list, s.selector)
    BY <1>6 DEF ResolveStartup
  <2>2. ResolveExplicit(s.list, s.selector) \in Outcomes
    BY <1>1, <1>3, <1>5, <1>6 DEF ResolveExplicit
  <2>3. QED
    BY <2>1, <2>2
<1>7. QED
  BY <1>4, <1>6

-----------------------------------------------------------------------------
(* The process and the workspace it starts in.                             *)

(* What was resolved is what the interface starts with: nothing touches it *)
(* between the resolution and the update loop.                             *)
StartOK == /\ StartupTypeOK
           /\ phase = "running" /\ command = "tui" => resolution = Resolved

LEMMA ProcessKeepsTypes ==
    ASSUME StartOK, StartupNext \/ (\E c \in {"ok", "error"} : Return(c)) \/ UNCHANGED startupVars
    PROVE  StartOK'
<1> DEFINE Kept == phase = "running" /\ command = "tui" => resolution = Resolved
<1>1. StartupTypeOK /\ Kept
  BY DEF StartOK
<1>2. SUFFICES StartupTypeOK' /\ Kept'
  BY DEF StartOK
<1> USE DEF StartupTypeOK
<1>3. Resolved \in Outcomes
  BY <1>1, ResolvedIs DEF Resolved
<1>4. ASSUME NEW c \in Codes, Exit(c) PROVE StartupTypeOK' /\ Kept'
  BY <1>1, <1>4 DEF Exit, Drop, arguments, Phases
<1>5. CASE Turn
  <2>1. daemon' \in {{"uds", "tcp"}, {"tcp"}, {"uds", "tcp", "old"}, {}}
    BY <1>5 DEF Turn
  <2>2. daemon' \subseteq {"uds", "tcp", "old"}
    BY <2>1
  <2>3. turns' \in 0..MaxTurns
    <3>1. turns \in 0..MaxTurns /\ turns < MaxTurns /\ turns' = turns + 1 /\ MaxTurns \in Nat
      BY <1>1, <1>5, StartupAssumption DEF Turn
    <3>2. QED
      BY <3>1
  <2>4. QED
    BY <1>1, <1>5, <2>2, <2>3 DEF Turn, arguments, terminal
<1>6. CASE CloseInput \/ UNCHANGED startupVars
  BY <1>1, <1>6 DEF CloseInput, startupVars, arguments, terminal, Resolved
<1>7. CASE Misused \/ NoTerminal \/ QuitWhileWaiting
  BY <1>4, <1>7 DEF Misused, NoTerminal, QuitWhileWaiting, Codes
<1>8. CASE Begin \/ InstallHook \/ InitTerminal
  BY <1>1, <1>8 DEF Begin, InstallHook, InitTerminal, Step, arguments, terminal, Phases
<1>9. CASE EnterGuard
  BY <1>1, <1>9 DEF EnterGuard, Handlers, Step, arguments, Phases
<1>10. Probe(daemon, order) \in {"none", "uds", "tcp"}
  BY DEF Probe
<1>11. CASE ProbeDaemon \/ ReadStatus \/ RetryAfterWait
  <2>1. CASE Exit("error")
    BY <1>4, <2>1 DEF Codes
  <2>2. CASE ~Exit("error")
    BY <1>1, <1>10, <1>11, <2>2
       DEF ProbeDaemon, ReadStatus, RetryAfterWait, Step, arguments, terminal, Phases
  <2>3. QED
    BY <2>1, <2>2
<1>12. CASE ResolveWorkspace
  <2>1. CASE Exit("error")
    BY <1>4, <2>1 DEF Codes
  <2>2. CASE ~Exit("error")
    <3>1. /\ Step("resolve", IF command = "tui" THEN "running" ELSE "work")
          /\ resolution' = Resolved /\ signals' = Handlers /\ UNCHANGED <<client, terminal>>
      BY <1>12, <2>2 DEF ResolveWorkspace
    <3>2. StartupTypeOK'
      BY <1>1, <1>3, <3>1 DEF Step, Handlers, arguments, terminal, Phases
    <3>3. Resolved' = Resolved
      BY <3>1 DEF Step, arguments, Resolved
    <3>4. QED
      BY <3>1, <3>2, <3>3
  <2>3. QED
    BY <2>1, <2>2
<1>13. CASE Work
  <2>1. CASE \E c \in Codes : Exit(c)
    BY <1>4, <2>1
  <2>2. CASE ~\E c \in Codes : Exit(c)
    BY <1>1, <1>13, <2>2 DEF Work, Step, arguments, terminal, Phases, Codes
  <2>3. QED
    BY <2>1, <2>2
<1>14. CASE Interrupted \/ Terminated \/ Panic
  <2>1. CASE \E c \in Codes : Exit(c)
    BY <1>4, <2>1
  <2>2. CASE ~\E c \in Codes : Exit(c)
    BY <1>1, <1>14, <2>2
       DEF Interrupted, Terminated, Panic, Killed, arguments, terminal, Phases, Codes
  <2>3. QED
    BY <2>1, <2>2
<1>15. CASE \E c \in {"ok", "error"} : Return(c)
  BY <1>4, <1>15 DEF Return, Codes
<1>16. QED
  BY <1>5, <1>6, <1>7, <1>8, <1>9, <1>11, <1>12, <1>13, <1>14, <1>15
     DEF StartupNext, Progress

LEMMA StartsOK ==
    ASSUME Init
    PROVE  StartOK
<1>1. StartupInit
  BY DEF Init
<1>2. Unresolved \in Outcomes /\ 0 \in 0..MaxTurns
  BY StartupAssumption DEF Outcomes
<1>3. daemon \subseteq {"uds", "tcp", "old"}
  BY <1>1 DEF StartupInit
<1>4. StartupTypeOK
  BY <1>1, <1>2, <1>3 DEF StartupInit, StartupTypeOK, Phases, Codes
<1>5. phase # "running"
  BY <1>1 DEF StartupInit
<1>6. QED
  BY <1>4, <1>5 DEF StartOK

LEMMA BootKeepsStart ==
    ASSUME StartOK, [Next]_vars
    PROVE  StartOK'
<1>1. StartupNext \/ (\E c \in {"ok", "error"} : Return(c)) \/ UNCHANGED startupVars
  BY DEF Next, ProcessStep, ModelStep, Quit, vars
<1>2. QED
  BY <1>1, ProcessKeepsTypes

(* The interface starts in the deepest registered workspace around its     *)
(* directory, and in none only if there is none around it                  *)
(* (workspace::resolve_startup).                                           *)
THEOREM DeepestIsChosen == Spec => []DeepestChosen
<1>1. Init => StartOK
  BY StartsOK
<1>2. StartOK /\ [Next]_vars => StartOK'
  BY BootKeepsStart
<1>3. StartOK => DeepestChosen
  <2> SUFFICES ASSUME StartOK, phase = "running", command = "tui", situation.selector.by = "none"
               PROVE  LET around == {ws \in ToSet(situation.list) : Around(ws, situation.cwd)}
                      IN  IF resolution.kind = "selected"
                            THEN \E ws \in around :
                                   /\ ws.id = resolution.id
                                   /\ \A other \in around : IsPrefix(other.root, ws.root)
                            ELSE around = {}
    BY DEF DeepestChosen
  <2> DEFINE around == {ws \in ToSet(situation.list) : Around(ws, situation.cwd)}
  <2>1. situation \in Situations /\ resolution = Resolved
    BY DEF StartOK, StartupTypeOK
  <2>2. \/ resolution = Unresolved /\ around = {}
        \/ \E ws \in around : /\ resolution = Found(ws)
                              /\ \A other \in around : IsPrefix(other.root, ws.root)
    BY <2>1, TakenIsDeepest, Zenon DEF Resolved
  <2>3. Unresolved.kind # "selected"
    BY DEF Unresolved
  <2>4. \A ws : Found(ws).kind = "selected" /\ Found(ws).id = ws.id
    BY DEF Found
  <2> HIDE DEF around
  <2>5. IF resolution.kind = "selected"
          THEN \E ws \in around : /\ ws.id = resolution.id
                                  /\ \A other \in around : IsPrefix(other.root, ws.root)
          ELSE around = {}
    BY <2>2, <2>3, <2>4
  <2>6. QED
    BY <2>5 DEF around
<1>4. QED
  BY <1>1, <1>2, <1>3, PTL DEF Spec

-----------------------------------------------------------------------------
(* The model from its first commands to its workspace.                     *)

OverlayOK == /\ overlay \in {"none", "onboarding", "picker"}
             /\ flags \subseteq Flags /\ (flags # {} => overlay = "onboarding")
             /\ items \in BOOLEAN
PlaceOK == /\ supported \in BOOLEAN /\ registered \in BOOLEAN /\ open \in BOOLEAN
           /\ candidate \in BOOLEAN
           /\ workspace \in {"none", "candidate", "other"}
           /\ small \in BOOLEAN /\ resizes \in 0..MaxResizes
AwaitedOK(boot, sent, answered) ==
    /\ boot \subseteq BootKinds
    /\ \A kind \in boot : \E message \in sent \cup answered : message.kind = kind
SentOK(sent, n) == n \in Nat /\ sent \subseteq [kind : Kinds, n : 1..n]
AnsweredOK(answered, n) ==
    \A a \in answered : a.kind \in Kinds /\ a.n \in 1..n /\ a.result \in Results[a.kind]
ChannelOK == /\ AwaitedOK(bootPending, requests, answers)
             /\ SentOK(requests, serial) /\ AnsweredOK(answers, serial)

LEMMA OnboardingParts == OnboardingTypeOK <=> OverlayOK /\ PlaceOK /\ ChannelOK
BY DEF OnboardingTypeOK, OverlayOK, PlaceOK, ChannelOK, AwaitedOK, SentOK, AnsweredOK

LEMMA OnboardingPartsPrimed == OnboardingTypeOK' <=> OverlayOK' /\ PlaceOK' /\ ChannelOK'
BY DEF OnboardingTypeOK, OverlayOK, PlaceOK, ChannelOK, AwaitedOK, SentOK, AnsweredOK

LEMMA KindsAre ==
    /\ Kinds = {"workspaces", "add", "late_add", "sessions", "runs", "overview"}
    /\ BootKinds \subseteq Kinds /\ "add" \notin BootKinds /\ "late_add" \notin BootKinds
    /\ "workspaces" \notin BootKinds
    /\ Results.add = AddResults /\ Results["add"] = AddResults
    /\ Results["late_add"] = AddResults
    /\ Results["workspaces"] = {"found", "missing", "error"}
    /\ \A kind \in BootKinds : Results[kind] = {"ok", "error"}
BY DEF Kinds, Results, BootKinds

(* A request more.                                                         *)
LEMMA AskKeeps ==
    ASSUME ChannelOK, NEW kind \in Kinds, Ask(kind)
    PROVE  /\ SentOK(requests', serial')
           /\ \A answered : AnsweredOK(answered, serial) => AnsweredOK(answered, serial')
           /\ \A boot, answered : AwaitedOK(boot, requests, answered)
                                    => AwaitedOK(boot, requests', answered)
<1>1. serial \in Nat /\ serial' = serial + 1
  BY DEF Ask, ChannelOK, SentOK
<1>2. serial' \in Nat /\ serial + 1 \in 1..serial' /\ 1..serial \subseteq 1..serial'
  BY <1>1
<1>3. SentOK(requests', serial')
  BY <1>2 DEF Ask, ChannelOK, SentOK
<1>4. \A answered : AnsweredOK(answered, serial) => AnsweredOK(answered, serial')
  BY <1>2 DEF AnsweredOK
<1>5. \A boot, answered : AwaitedOK(boot, requests, answered)
                            => AwaitedOK(boot, requests', answered)
  BY DEF Ask, AwaitedOK
<1>6. QED
  BY <1>3, <1>4, <1>5

(* The requests of a boot, with late writes kept beside them.              *)
LEMMA BootKeeps ==
    ASSUME ChannelOK, NEW keep, keep \subseteq [kind : {"late_add"}, n : 1..serial], Boot(keep)
    PROVE  /\ SentOK(requests', serial')
           /\ \A answered : AnsweredOK(answered, serial) => AnsweredOK(answered, serial')
           /\ \A answered : AwaitedOK(BootKinds, requests', answered)
<1>1. serial \in Nat /\ serial' = serial + 1
  BY DEF Boot, ChannelOK, SentOK
<1>2. serial' \in Nat /\ serial + 1 \in 1..serial' /\ 1..serial \subseteq 1..serial'
  BY <1>1
<1>3. \A k \in BootKinds : [kind |-> k, n |-> serial + 1] \in [kind : Kinds, n : 1..serial']
  BY <1>2, KindsAre
<1>4. keep \subseteq [kind : Kinds, n : 1..serial']
  BY <1>2, KindsAre
<1>5. SentOK(requests', serial')
  BY <1>2, <1>3, <1>4 DEF Boot, SentOK
<1>6. \A answered : AnsweredOK(answered, serial) => AnsweredOK(answered, serial')
  BY <1>2 DEF AnsweredOK
<1>7. \A k \in BootKinds : [kind |-> k, n |-> serial + 1] \in requests'
  BY DEF Boot
<1>8. ASSUME NEW answered PROVE AwaitedOK(BootKinds, requests', answered)
  <2>1. ASSUME NEW k \in BootKinds
        PROVE  \E message \in requests' \cup answered : message.kind = k
    <3>1. [kind |-> k, n |-> serial + 1].kind = k
      OBVIOUS
    <3>2. QED
      BY <3>1, <1>7
  <2>2. QED
    BY <2>1 DEF AwaitedOK
<1>9. QED
  BY <1>5, <1>6, <1>8

(* An answer taken is of a kind and with a result there can be; what is    *)
(* awaited of another kind stays.                                          *)
LEMMA TakeKeeps ==
    ASSUME ChannelOK, NEW kind, NEW result, Take(kind, result)
    PROVE  /\ kind \in Kinds /\ result \in Results[kind]
           /\ AnsweredOK(answers', serial)
           /\ AwaitedOK(bootPending \ {kind}, requests, answers')
           /\ kind \notin bootPending => AwaitedOK(bootPending, requests, answers')
<1>1. PICK a \in answers : a.kind = kind /\ a.result = result /\ answers' = answers \ {a}
  BY DEF Take
<1>2. kind \in Kinds /\ result \in Results[kind]
  BY <1>1 DEF ChannelOK, AnsweredOK
<1>3. AnsweredOK(answers', serial)
  BY <1>1 DEF ChannelOK, AnsweredOK
<1>4. \A k \in bootPending \ {kind} : \E message \in requests \cup answers' : message.kind = k
  BY <1>1 DEF ChannelOK, AwaitedOK
<1>5. AwaitedOK(bootPending \ {kind}, requests, answers')
  BY <1>4 DEF ChannelOK, AwaitedOK
<1>6. kind \notin bootPending => bootPending \ {kind} = bootPending
  OBVIOUS
<1>7. QED
  BY <1>2, <1>3, <1>5, <1>6

LEMMA SwitchKeeps ==
    ASSUME ChannelOK, NEW to, NEW onboarding \in BOOLEAN, to \in {"candidate", "other"},
           Switch(to, onboarding), answers' = {}
    PROVE  /\ OverlayOK' /\ ChannelOK'
           /\ candidate' \in BOOLEAN /\ workspace' \in {"none", "candidate", "other"}
<1> DEFINE keep == {[kind |-> "late_add", n |-> r.n] :
                       r \in {q \in requests : q.kind \in {"add", "late_add"}}}
<1>1. keep \subseteq [kind : {"late_add"}, n : 1..serial]
  BY DEF ChannelOK, SentOK
<1>2. Boot(keep)
  BY DEF Switch
<1> HIDE DEF keep
<1>3. /\ SentOK(requests', serial') /\ AwaitedOK(BootKinds, requests', answers')
  BY <1>1, <1>2, BootKeeps
<1>4. AwaitedOK(bootPending', requests', answers')
  BY <1>3 DEF Switch, AwaitedOK
<1>5. AnsweredOK(answers', serial')
  BY DEF AnsweredOK
<1>6. OverlayOK'
  BY DEF Switch, OverlayOK, Flags
<1>7. QED
  BY <1>3, <1>4, <1>5, <1>6 DEF Switch, ChannelOK

LEMMA HandOverKeepsTypes ==
    ASSUME OnboardingTypeOK, (\E how : Open(how)) \/ Close \/ UNCHANGED onboardingVars
    PROVE  OnboardingTypeOK'
<1> USE OnboardingParts, OnboardingPartsPrimed
<1> USE DEF external, window, view, place, channel
<1>1. CASE Close \/ UNCHANGED onboardingVars
  BY <1>1 DEF Close, onboardingVars, OverlayOK, PlaceOK, ChannelOK
<1>2. ASSUME NEW how, Open(how) PROVE OnboardingTypeOK'
  <2>1. CASE how = "unresolved"
    BY <1>2, <2>1 DEF Open, ShowOnboarding, OverlayOK, PlaceOK, ChannelOK
  <2>2. CASE how # "unresolved"
    <3>1. Boot({}) /\ UNCHANGED <<bootPending, answers>>
      BY <1>2, <2>2 DEF Open
    <3>2. /\ SentOK(requests', serial') /\ AnsweredOK(answers, serial')
          /\ AwaitedOK(BootKinds, requests', answers)
      BY <3>1, BootKeeps DEF ChannelOK
    <3>3. ChannelOK'
      BY <3>1, <3>2 DEF ChannelOK, AwaitedOK
    <3>4. QED
      BY <1>2, <2>2, <3>3 DEF Open, OverlayOK, PlaceOK
  <2>3. QED
    BY <2>1, <2>2
<1>3. QED
  BY <1>1, <1>2

(* The daemon's answers, registrations from outside, and the window.       *)
LEMMA OutsideKeepsTypes ==
    ASSUME OnboardingTypeOK, Daemon \/ RegisterOutside \/ Shrink \/ Grow
    PROVE  OnboardingTypeOK'
<1> USE OnboardingParts, OnboardingPartsPrimed
<1> USE DEF external, window, view, place, channel
<1>1. CASE RegisterOutside
  BY <1>1 DEF RegisterOutside, OverlayOK, PlaceOK, ChannelOK
<1>2. CASE Grow
  BY <1>2 DEF Grow, OverlayOK, PlaceOK, ChannelOK
<1>3. CASE Shrink
  <2>1. resizes' \in 0..MaxResizes
    <3>1. MaxResizes \in Nat /\ resizes \in 0..MaxResizes
      BY OnboardingAssumption DEF PlaceOK
    <3>2. QED
      BY <1>3, <3>1 DEF Shrink
  <2>2. QED
    BY <1>3, <2>1 DEF Shrink, OverlayOK, PlaceOK, ChannelOK
<1>4. ASSUME NEW r \in requests, NEW result \in Results[r.kind], Reply(r, result)
      PROVE  OverlayOK' /\ ChannelOK'
  <2>1. r.kind \in Kinds /\ r.n \in 1..serial
    BY DEF ChannelOK, SentOK
  <2> DEFINE a == [kind |-> r.kind, n |-> r.n, result |-> result]
  <2>2. a.kind = r.kind /\ a.n = r.n /\ a.result = result
    OBVIOUS
  <2>3. requests' = requests \ {r} /\ answers' = answers \cup {a}
    BY <1>4 DEF Reply
  <2> HIDE DEF a
  <2>4. AnsweredOK(answers', serial) /\ SentOK(requests', serial)
    BY <2>1, <2>2, <2>3 DEF ChannelOK, AnsweredOK, SentOK
  <2>5. AwaitedOK(bootPending, requests', answers')
    <3>1. \A message \in requests \cup answers :
              \E other \in requests' \cup answers' : other.kind = message.kind
      BY <2>2, <2>3
    <3>2. QED
      BY <3>1 DEF ChannelOK, AwaitedOK
  <2>6. QED
    BY <1>4, <2>4, <2>5 DEF Reply, OverlayOK, ChannelOK
<1>5. ASSUME NEW r \in requests, AnswerRead(r) PROVE OnboardingTypeOK'
  <2>1. r.kind \in Kinds
    BY DEF ChannelOK, SentOK
  <2>2. \E result \in Results[r.kind] : Reply(r, result)
    <3>1. r.kind = "workspaces" \/ r.kind \in BootKinds
      BY <1>5, <2>1, KindsAre DEF AnswerRead, BootKinds
    <3>2. "error" \in Results[r.kind]
      BY <3>1, KindsAre
    <3>3. (IF registered THEN "found" ELSE "missing") \in {"found", "missing", "error"}
      OBVIOUS
    <3>4. CASE Reply(r, "error")
      BY <3>2, <3>4
    <3>5. CASE r.kind = "workspaces" /\ Reply(r, IF registered THEN "found" ELSE "missing")
      BY <3>3, <3>5, KindsAre, Zenon
    <3>6. CASE r.kind \in BootKinds /\ Reply(r, "ok")
      BY <3>6, KindsAre
    <3>7. QED
      BY <1>5, <3>4, <3>5, <3>6 DEF AnswerRead
  <2>3. UNCHANGED <<supported, registered, open, candidate, workspace, small, resizes>>
    BY <1>5 DEF AnswerRead, Reply
  <2>4. QED
    BY <1>4, <2>2, <2>3 DEF PlaceOK
<1>6. ASSUME NEW r \in requests, AnswerAdd(r) PROVE OnboardingTypeOK'
  <2>1. \E result \in Results[r.kind] : Reply(r, result)
    BY <1>6, KindsAre DEF AnswerAdd, AddResults
  <2>2. UNCHANGED <<supported, open, candidate, workspace, small, resizes>>
    BY <2>1 DEF Reply
  <2>3. registered' \in BOOLEAN
    BY <1>6 DEF AnswerAdd, PlaceOK
  <2>4. QED
    BY <1>4, <2>1, <2>2, <2>3 DEF PlaceOK
<1>7. QED
  BY <1>1, <1>2, <1>3, <1>5, <1>6 DEF Daemon

LEMMA AnswersKeepTypes ==
    ASSUME OnboardingTypeOK, Answered
    PROVE  OnboardingTypeOK'
<1> USE OnboardingParts, OnboardingPartsPrimed
<1> USE DEF external, window, view, place, channel
<1>1. ASSUME NEW kind, NEW result, Take(kind, result), kind \notin BootKinds,
             UNCHANGED <<bootPending, requests, serial>>
      PROVE  ChannelOK'
  <2>1. kind \notin bootPending
    BY <1>1 DEF ChannelOK, AwaitedOK
  <2>2. QED
    BY <1>1, <2>1, TakeKeeps DEF ChannelOK
<1>2. CASE DirectoryMissing
  <2>1. ChannelOK'
    BY <1>1, <1>2, KindsAre DEF DirectoryMissing
  <2>2. QED
    BY <1>2, <2>1 DEF DirectoryMissing, OverlayOK, PlaceOK
<1>3. CASE DirectoryFound
  <2>1. CASE Shown
    <3>1. Switch("candidate", TRUE) /\ answers' = {} /\ UNCHANGED <<external, open, window>>
      BY <1>3, <2>1 DEF DirectoryFound
    <3>2. QED
      BY <3>1, SwitchKeeps DEF PlaceOK
  <2>2. CASE ~Shown
    <3>1. ChannelOK'
      BY <1>1, <1>3, <2>2, KindsAre DEF DirectoryFound
    <3>2. QED
      BY <1>3, <2>2, <3>1 DEF DirectoryFound, OverlayOK, PlaceOK
  <2>3. QED
    BY <2>1, <2>2
<1>4. CASE CatalogFails
  <2>1. ChannelOK'
    BY <1>1, <1>4, KindsAre DEF CatalogFails
  <2>2. QED
    BY <1>4, <2>1 DEF CatalogFails, OverlayOK, PlaceOK
<1>5. ASSUME NEW result, WorkspaceAdded(result) PROVE OnboardingTypeOK'
  <2>1. Take("add", result) /\ Ask("workspaces") /\ bootPending' = bootPending
    BY <1>5 DEF WorkspaceAdded
  <2>2. "add" \notin bootPending
    BY KindsAre DEF ChannelOK, AwaitedOK
  <2>3. AnsweredOK(answers', serial) /\ AwaitedOK(bootPending, requests, answers')
    BY <2>1, <2>2, TakeKeeps
  <2>4. ChannelOK'
    BY <2>1, <2>3, AskKeeps, KindsAre DEF ChannelOK
  <2>5. QED
    BY <1>5, <2>4 DEF WorkspaceAdded, OverlayOK, PlaceOK, Flags
<1>6. CASE AddUnsupported
  <2>1. ChannelOK'
    BY <1>1, <1>6, KindsAre DEF AddUnsupported
  <2>2. QED
    BY <1>6, <2>1 DEF AddUnsupported, OverlayOK, PlaceOK, Flags
<1>7. ASSUME NEW result, AddFails(result) PROVE OnboardingTypeOK'
  <2>1. ChannelOK'
    BY <1>1, <1>7, KindsAre DEF AddFails
  <2>2. QED
    BY <1>7, <2>1 DEF AddFails, OverlayOK, PlaceOK, Flags
<1>8. ASSUME NEW result, LateAnswer(result) PROVE OnboardingTypeOK'
  <2>1. ChannelOK'
    BY <1>1, <1>8, KindsAre DEF LateAnswer
  <2>2. QED
    BY <1>8, <2>1 DEF LateAnswer, OverlayOK, PlaceOK
<1>9. ASSUME NEW kind \in BootKinds, BootRead(kind) PROVE OnboardingTypeOK'
  <2>1. Take(kind, "ok") /\ bootPending' = bootPending \ {kind} /\ UNCHANGED <<requests, serial>>
    BY <1>9 DEF BootRead
  <2>2. ChannelOK'
    BY <2>1, TakeKeeps DEF ChannelOK
  <2>3. QED
    BY <1>9, <2>2 DEF BootRead, OverlayOK, PlaceOK
<1>10. ASSUME NEW kind \in BootKinds, BootFails(kind) PROVE OnboardingTypeOK'
  <2>1. CASE kind \in bootPending
    <3>1. /\ bootPending' = {} /\ requests' \subseteq requests /\ answers' \subseteq answers
          /\ overlay' = "onboarding" /\ flags' = {"registration_complete"}
          /\ serial' = serial
      BY <1>10, <2>1 DEF BootFails
    <3>2. ChannelOK'
      BY <3>1 DEF ChannelOK, AwaitedOK, SentOK, AnsweredOK
    <3>3. QED
      BY <1>10, <3>1, <3>2 DEF BootFails, OverlayOK, PlaceOK, Flags
  <2>2. CASE kind \notin bootPending
    <3>1. Take(kind, "error") /\ UNCHANGED <<bootPending, requests, overlay, flags, serial>>
      BY <1>10, <2>2 DEF BootFails
    <3>2. ChannelOK'
      BY <2>2, <3>1, TakeKeeps DEF ChannelOK
    <3>3. QED
      BY <1>10, <3>1, <3>2 DEF BootFails, OverlayOK, PlaceOK
  <2>3. QED
    BY <2>1, <2>2
<1>11. QED
  BY <1>2, <1>3, <1>4, <1>5, <1>6, <1>7, <1>8, <1>9, <1>10, Zenon DEF Answered

LEMMA KeysKeepTypes ==
    ASSUME OnboardingTypeOK, Keys
    PROVE  OnboardingTypeOK'
<1> USE OnboardingParts, OnboardingPartsPrimed
<1> USE DEF external, window, view, place, channel
<1>1. ASSUME NEW kind \in Kinds, Ask(kind), UNCHANGED <<bootPending, answers>>
      PROVE  ChannelOK'
  BY <1>1, AskKeeps DEF ChannelOK
<1>2. CASE OpenPicker
  <2>1. ChannelOK'
    BY <1>1, <1>2, KindsAre DEF OpenPicker
  <2>2. QED
    BY <1>2, <2>1 DEF OpenPicker, OverlayOK, PlaceOK
<1>3. CASE Refresh
  <2>1. ChannelOK'
    BY <1>1, <1>3, KindsAre DEF Refresh
  <2>2. QED
    BY <1>3, <2>1 DEF Refresh, OverlayOK, PlaceOK
<1>4. CASE ConfirmAdd
  <2>1. ChannelOK'
    BY <1>1, <1>4, KindsAre DEF ConfirmAdd
  <2>2. QED
    BY <1>4, <2>1 DEF ConfirmAdd, OnboardingKey, OverlayOK, PlaceOK, Flags
<1>5. CASE AskAdd \/ CancelAdd
  BY <1>5 DEF AskAdd, CancelAdd, OnboardingKey, OverlayOK, PlaceOK, ChannelOK, Flags
<1>6. CASE LeavePicker
  BY <1>6 DEF LeavePicker, ShowOnboarding, OverlayOK, PlaceOK, ChannelOK
<1>7. CASE Pick
  <2>1. OverlayOK' /\ ChannelOK' /\ candidate' \in BOOLEAN
          /\ workspace' \in {"none", "candidate", "other"}
    BY <1>7, SwitchKeeps DEF Pick
  <2>2. QED
    BY <1>7, <2>1 DEF Pick, PlaceOK
<1>8. QED
  BY <1>2, <1>3, <1>4, <1>5, <1>6, <1>7 DEF Keys

(* Process and model stay well formed.  Of the boot this says something    *)
(* that must be so for the overlay to open again: a read in                *)
(* startup_boot_pending is on its way or answered, whatever was switched,  *)
(* failed or answered late (model.rs:675, model.rs:682).                   *)
THEOREM TypeCorrect == Spec => []TypeOK
<1> DEFINE Both == StartOK /\ OnboardingTypeOK
<1>1. ASSUME Init PROVE Both
  <2>1. StartOK
    BY <1>1, StartsOK
  <2>2. OnboardingTypeOK
    <3>1. MaxResizes \in Nat /\ Supports \subseteq BOOLEAN
      BY OnboardingAssumption
    <3>2. PlaceOK
      <4>1. resizes \in 0..MaxResizes
        BY <1>1, <3>1 DEF Init, OnboardingInit
      <4>2. supported \in BOOLEAN
        BY <1>1, <3>1 DEF Init, OnboardingInit
      <4>3. /\ registered = FALSE /\ open = FALSE /\ candidate = FALSE /\ small = FALSE
            /\ workspace = "none"
        BY <1>1 DEF Init, OnboardingInit
      <4>4. QED
        BY <4>1, <4>2, <4>3 DEF PlaceOK
    <3>3. OverlayOK /\ ChannelOK
      BY <1>1
         DEF Init, OnboardingInit, OverlayOK, ChannelOK, AwaitedOK, SentOK, AnsweredOK
    <3>4. QED
      BY <3>2, <3>3, OnboardingParts
  <2>3. QED
    BY <2>1, <2>2
<1>2. Both /\ [Next]_vars => Both'
  <2> SUFFICES ASSUME Both, [Next]_vars PROVE Both'
    OBVIOUS
  <2>1. StartOK'
    BY BootKeepsStart
  <2>2. OnboardingTypeOK'
    <3>1. CASE OnboardingNext
      BY <3>1, OutsideKeepsTypes, AnswersKeepTypes, KeysKeepTypes DEF OnboardingNext
    <3>2. CASE (\E how : Open(how)) \/ Close \/ UNCHANGED onboardingVars
      BY <3>2, HandOverKeepsTypes
    <3>3. QED
      BY <3>1, <3>2 DEF Next, ProcessStep, ModelStep, HandOver, Quit, vars
  <2>3. QED
    BY <2>1, <2>2
<1>3. Both => TypeOK
  BY DEF StartOK, TypeOK
<1>4. QED
  BY <1>1, <1>2, <1>3, PTL DEF Spec

-----------------------------------------------------------------------------
(* What the overlay waits for.                                             *)

(* A request of one of the kinds is on its way or answered.                *)
Coming(kinds) == \E m \in requests \cup answers : m.kind \in kinds

(* The overlay is locked only while something will come that can open it:  *)
(* the registration or the catalog read after it, or a read of the boot.   *)
LocksBacked ==
    /\ "adding" \in flags => Coming({"add", "workspaces"})
    /\ "booting" \in flags => Coming(bootPending)

(* LocksBacked is not inductive: an answer unlocks only an overlay that    *)
(* has its candidate, so no other may be there; a boot that is locked must *)
(* wait for a read; and the model that opens must be a new one.            *)
Early == phase \notin {"running", "exited"} => ~open /\ overlay = "none" /\ bootPending = {}
Waits == /\ overlay = "onboarding" => candidate
         /\ bootPending # {} => candidate
         /\ "booting" \in flags => bootPending # {}
         /\ "adding" \in flags => Coming({"add", "workspaces"})

LEMMA RunsOnce ==
    ASSUME StartupNext, phase \in {"running", "exited"}
    PROVE  phase' \in {"running", "exited"}
<1>1. CASE Progress
  BY <1>1
     DEF Progress, Begin, NoTerminal, InstallHook, InitTerminal, EnterGuard, ProbeDaemon,
         ReadStatus, RetryAfterWait, ResolveWorkspace, Work, Step, Exit
<1>2. CASE ~Progress
  BY <1>2
     DEF StartupNext, Turn, CloseInput, Misused, QuitWhileWaiting, Interrupted, Terminated,
         Panic, Killed, Exit
<1>3. QED
  BY <1>1, <1>2

(* An answer of another kind leaves those waited for where they are.       *)
LEMMA TakeLeaves ==
    ASSUME NEW kind, NEW result, Take(kind, result), requests \subseteq requests',
           NEW kinds, kind \notin kinds, Coming(kinds)
    PROVE  Coming(kinds)'
<1>1. PICK a \in answers : a.kind = kind /\ answers' = answers \ {a}
  BY DEF Take
<1>2. PICK m \in requests \cup answers : m.kind \in kinds
  BY DEF Coming
<1>3. m \in requests' \cup answers'
  BY <1>1, <1>2
<1>4. QED
  BY <1>2, <1>3 DEF Coming

LEMMA SwitchWaits ==
    ASSUME NEW to, NEW onboarding \in BOOLEAN, Switch(to, onboarding)
    PROVE  Waits'
BY DEF Switch, Waits, BootKinds

LEMMA OutsideWaits ==
    ASSUME Waits, OverlayOK, Daemon \/ RegisterOutside \/ Shrink \/ Grow
    PROVE  Waits'
<1> USE DEF external, window, view, place, channel
<1>1. CASE RegisterOutside \/ Grow
  BY <1>1 DEF RegisterOutside, Grow, Waits, Coming
<1>2. CASE Shrink
  BY <1>2 DEF Shrink, Waits
<1>3. ASSUME NEW r \in requests, NEW result, Reply(r, result)
      PROVE  Waits'
  <2>1. Coming({"add", "workspaces"}) => Coming({"add", "workspaces"})'
    <3> DEFINE a == [kind |-> r.kind, n |-> r.n, result |-> result]
    <3>1. a.kind = r.kind
      OBVIOUS
    <3>2. requests' = requests \ {r} /\ answers' = answers \cup {a}
      BY <1>3 DEF Reply
    <3> HIDE DEF a
    <3>3. QED
      BY <3>1, <3>2 DEF Coming
  <2>2. UNCHANGED <<overlay, flags, candidate, bootPending>>
    BY <1>3 DEF Reply
  <2>3. QED
    BY <2>1, <2>2 DEF Waits
<1>4. CASE Daemon
  <2>1. PICK r \in requests : \E result : Reply(r, result)
    BY <1>4 DEF Daemon, AnswerRead, AnswerAdd
  <2>2. QED
    BY <1>3, <2>1
<1>5. QED
  BY <1>1, <1>2, <1>4

LEMMA AnswersWait ==
    ASSUME Waits, OverlayOK, Answered
    PROVE  Waits'
<1> USE DEF external, window, view, place, channel, OverlayOK
<1>1. CASE DirectoryMissing
  BY <1>1 DEF DirectoryMissing, Shown, Waits
<1>2. CASE DirectoryFound
  <2>1. CASE Shown
    BY <1>2, <2>1, SwitchWaits DEF DirectoryFound
  <2>2. CASE ~Shown
    BY <1>2, <2>2 DEF DirectoryFound, Shown, Waits
  <2>3. QED
    BY <2>1, <2>2
<1>3. CASE CatalogFails
  BY <1>3 DEF CatalogFails, Waits
<1>4. ASSUME NEW result, WorkspaceAdded(result) PROVE Waits'
  <2>1. Coming({"add", "workspaces"})'
    <3>1. [kind |-> "workspaces", n |-> serial + 1] \in requests'
      BY <1>4 DEF WorkspaceAdded, Ask
    <3>2. [kind |-> "workspaces", n |-> serial + 1].kind = "workspaces"
      OBVIOUS
    <3>3. QED
      BY <3>1, <3>2 DEF Coming
  <2>2. "booting" \in flags' => "booting" \in flags
    BY <1>4 DEF WorkspaceAdded
  <2>3. QED
    BY <1>4, <2>1, <2>2 DEF WorkspaceAdded, Waits
<1>5. CASE AddUnsupported
  BY <1>5 DEF AddUnsupported, Waits
<1>6. ASSUME NEW result, AddFails(result) PROVE Waits'
  BY <1>6 DEF AddFails, Waits
<1>7. ASSUME NEW result, LateAnswer(result) PROVE Waits'
  <2>1. Take("late_add", result) /\ requests' = requests /\ UNCHANGED <<view, place>>
    BY <1>7 DEF LateAnswer
  <2>2. "late_add" \notin {"add", "workspaces"}
    OBVIOUS
  <2>3. Coming({"add", "workspaces"}) => Coming({"add", "workspaces"})'
    BY <2>1, <2>2, TakeLeaves
  <2>4. QED
    BY <2>1, <2>3 DEF Waits
<1>8. ASSUME NEW kind \in BootKinds, NEW result, Take(kind, result), requests' = requests
      PROVE  Coming({"add", "workspaces"}) => Coming({"add", "workspaces"})'
  <2>1. kind \notin {"add", "workspaces"}
    BY KindsAre
  <2>2. QED
    BY <1>8, <2>1, TakeLeaves
<1>9. ASSUME NEW kind \in BootKinds, BootRead(kind) PROVE Waits'
  <2>1. Coming({"add", "workspaces"}) => Coming({"add", "workspaces"})'
    BY <1>8, <1>9 DEF BootRead
  <2>2. CASE bootPending = {kind}
    BY <1>9, <2>2 DEF BootRead, Waits
  <2>3. CASE bootPending # {kind}
    BY <1>9, <2>1, <2>3 DEF BootRead, Waits
  <2>4. QED
    BY <2>2, <2>3
<1>10. ASSUME NEW kind \in BootKinds, BootFails(kind) PROVE Waits'
  <2>1. CASE kind \in bootPending
    BY <1>10, <2>1 DEF BootFails, Waits
  <2>2. CASE kind \notin bootPending
    <3>1. Coming({"add", "workspaces"}) => Coming({"add", "workspaces"})'
      BY <1>8, <1>10, <2>2 DEF BootFails
    <3>2. QED
      BY <1>10, <2>2, <3>1 DEF BootFails, Waits
  <2>3. QED
    BY <2>1, <2>2
<1>11. QED
  BY <1>1, <1>2, <1>3, <1>4, <1>5, <1>6, <1>7, <1>9, <1>10, Zenon DEF Answered

LEMMA KeysWait ==
    ASSUME Waits, OverlayOK, Keys
    PROVE  Waits'
<1> USE DEF external, window, view, place, channel, OverlayOK
<1>1. CASE OpenPicker
  BY <1>1 DEF OpenPicker, Waits
<1>2. CASE Refresh
  BY <1>2 DEF Refresh, Ask, Waits, Coming
<1>3. CASE AskAdd \/ CancelAdd
  BY <1>3 DEF AskAdd, CancelAdd, Waits, Coming
<1>4. CASE ConfirmAdd
  <2>1. [kind |-> "add", n |-> serial + 1] \in requests'
    BY <1>4 DEF ConfirmAdd, Ask
  <2>2. [kind |-> "add", n |-> serial + 1].kind = "add"
    OBVIOUS
  <2>3. Coming({"add", "workspaces"})'
    BY <2>1, <2>2 DEF Coming
  <2>4. QED
    BY <1>4, <2>3 DEF ConfirmAdd, OnboardingKey, Waits
<1>5. CASE LeavePicker
  BY <1>5 DEF LeavePicker, ShowOnboarding, Waits
<1>6. CASE Pick
  BY <1>6, SwitchWaits DEF Pick
<1>7. QED
  BY <1>1, <1>2, <1>3, <1>4, <1>5, <1>6 DEF Keys

(* An overlay that takes no keys has something to wait for: a registration *)
(* or the catalog read after it, or a read of the boot; none is dropped    *)
(* with the overlay still locked (api.rs:41, api.rs:70, keys.rs:775,       *)
(* model.rs:675).  That it is answered in the end is LocksOpen.            *)
THEOREM LocksAreBacked == Spec => []LocksBacked
<1> USE DEF external, window, view, place, channel
<1>1. Init => Early /\ Waits
  BY DEF Init, StartupInit, OnboardingInit, Early, Waits
<1>2. TypeOK /\ Early /\ Waits /\ [Next]_vars => Early' /\ Waits'
  <2> SUFFICES ASSUME TypeOK, Early, Waits, [Next]_vars PROVE Early' /\ Waits'
    OBVIOUS
  <2>1. OverlayOK
    BY OnboardingParts DEF TypeOK
  <2>2. CASE ModelStep
    <3>1. Waits'
      BY <2>1, <2>2, OutsideWaits, AnswersWait, KeysWait DEF ModelStep, OnboardingNext
    <3>2. ASSUME ~open, overlay = "none", bootPending = {}
          PROVE  ~open' /\ overlay' = "none" /\ bootPending' = {}
      <4>1. Daemon
        BY <2>2, <3>2
           DEF ModelStep, OnboardingNext, RegisterOutside, Answered, Keys, OpenPicker, Key,
               LeavePicker, Pick, Refresh, AskAdd, CancelAdd, ConfirmAdd, OnboardingKey,
               Shrink, Grow
      <4>2. \E r \in requests : \E result : Reply(r, result)
        BY <4>1 DEF Daemon, AnswerRead, AnswerAdd
      <4>3. QED
        BY <3>2, <4>2 DEF Reply
    <3>3. Early'
      BY <2>2, <3>2 DEF ModelStep, Early, startupVars
    <3>4. QED
      BY <3>1, <3>3
  <2>3. CASE UNCHANGED onboardingVars /\ (phase' \notin {"running", "exited"}
                                            => phase \notin {"running", "exited"})
    BY <2>3 DEF onboardingVars, Early, Waits, Coming
  <2>4. CASE Close /\ phase' = "exited"
    BY <2>4 DEF Close, Early, Waits, Coming
  <2>5. CASE ProcessStep
    <3>1. phase' \notin {"running", "exited"} => phase \notin {"running", "exited"}
      BY <2>5, RunsOnce DEF ProcessStep
    <3>2. CASE phase # "running" /\ phase' = "running" /\ command = "tui"
      <4>1. Open(resolution'.kind)
        BY <2>5, <3>2 DEF ProcessStep, HandOver
      <4>2. phase \notin {"running", "exited"}
        <5>1. StartupNext
          BY <2>5 DEF ProcessStep
        <5>2. phase # "exited"
          BY <3>2, <5>1
             DEF StartupNext, Turn, CloseInput, Misused, QuitWhileWaiting, Interrupted,
                 Terminated, Panic, Killed, Exit, Progress, Begin, NoTerminal, InstallHook,
                 InitTerminal, EnterGuard, ProbeDaemon, ReadStatus, RetryAfterWait,
                 ResolveWorkspace, Work, Step
        <5>3. QED
          BY <3>2, <5>2
      <4>3. overlay = "none" /\ bootPending = {} /\ flags = {}
        BY <2>1, <4>2 DEF Early, OverlayOK
      <4>4. QED
        BY <3>2, <4>1, <4>3 DEF Open, ShowOnboarding, Early, Waits
    <3>3. CASE ~(phase # "running" /\ phase' = "running" /\ command = "tui")
      <4>1. (Close /\ phase' = "exited") \/ UNCHANGED onboardingVars
        BY <2>5, <3>3, Zenon DEF ProcessStep, HandOver
      <4>2. QED
        BY <2>3, <2>4, <3>1, <4>1
    <3>4. QED
      BY <3>2, <3>3
  <2>6. CASE Quit
    <3>1. phase' = "exited" /\ (Close \/ UNCHANGED onboardingVars)
      BY <2>6 DEF Quit, Return, Exit
    <3>2. QED
      BY <2>3, <2>4, <3>1
  <2>7. CASE UNCHANGED vars
    BY <2>3, <2>7 DEF vars, startupVars
  <2>8. QED
    BY <2>2, <2>5, <2>6, <2>7 DEF Next
<1>3. TypeOK /\ Waits => LocksBacked
  <2> SUFFICES ASSUME TypeOK, Waits, "booting" \in flags PROVE Coming(bootPending)
    BY DEF LocksBacked, Waits
  <2>1. PICK kind \in bootPending : TRUE
    BY DEF Waits
  <2>2. \E m \in requests \cup answers : m.kind = kind
    BY <2>1 DEF TypeOK, OnboardingTypeOK
  <2>3. QED
    BY <2>1, <2>2 DEF Coming
<1>4. QED
  BY <1>1, <1>2, <1>3, TypeCorrect, PTL DEF Spec

=============================================================================
