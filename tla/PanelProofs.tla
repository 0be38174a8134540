---------------------------- MODULE PanelProofs ----------------------------
(***************************************************************************)
(* Proofs about what keeps the panels up to date: Polling, for any streams *)
(* that may be open and any bounds, and TranscriptView, for any kinds of   *)
(* entries and any bounds.                                                 *)
(***************************************************************************)
EXTENDS Polling, TranscriptView, FiniteSetTheorems, SequenceTheorems,
        WellFoundedInduction, TLAPS

(* The answers a request of each kind may get.                             *)
LEMMA AnswersOfKinds ==
    /\ RequestKinds = {"status", "runs", "write"}
    /\ \A kind \in RequestKinds :
          \A a \in Values[kind] \cup {"error"} : <<kind, a>> \in Answers
<1>1. RequestKinds = {"status", "runs", "write"}
  BY DEF RequestKinds, Values
<1>2. ASSUME NEW kind \in RequestKinds, NEW a \in Values[kind] \cup {"error"}
      PROVE  <<kind, a>> \in Answers
  <2>1. a \in {"error"} \cup UNION {Values[k] : k \in RequestKinds}
    BY <1>2
  <2> QED
    BY <2>1, <1>2, Zenon DEF Answers
<1> QED
  BY <1>1, <1>2

(* A key that is counted stays within its bound.                           *)
LEMMA Counted == TypeOK /\ Event => events' \in 0..MaxEvents
BY BoundsAssumption DEF TypeOK, Event

(* A timer that was not armed after it had rung goes on once at most, and  *)
(* its task is in tasks.timers: arming it again finds that task.           *)
Once(t) == ~t.late => t.stray = 0 /\ Going(t) <= 1
EachOnce == \A id \in TimerIds : Once(timers[id])

LEMMA TimerCounted ==
    ASSUME NEW t \in Timer
    PROVE  /\ t.held \in BOOLEAN /\ t.stray \in Nat /\ t.fired \in Nat /\ t.late \in BOOLEAN
           /\ Going(t) = t.stray + (IF t.held THEN 1 ELSE 0) + t.fired
           /\ Going(t) \in Nat
BY DEF Timer, Going, Sleeping

LEMMA IdleTimer == Idle \in Timer /\ Going(Idle) = 0 /\ Once(Idle)
BY DEF Idle, Timer, Going, Sleeping, Once

(* Of the message a task sends: as much is on its way as before.           *)
LEMMA Ringing ==
    ASSUME NEW t \in Timer, t.held
    PROVE  Rings(t) \in Timer /\ Going(Rings(t)) = Going(t) /\ (Once(t) => Once(Rings(t)))
<1>1. /\ Rings(t) \in Timer
      /\ Rings(t).held = FALSE /\ Rings(t).stray = t.stray
      /\ Rings(t).fired = t.fired + 1 /\ Rings(t).late = t.late
  BY DEF Timer, Rings
<1>2. Going(Rings(t)) = Going(t)
  BY <1>1, TimerCounted
<1> QED
  BY <1>1, <1>2 DEF Once

LEMMA RingingAstray ==
    ASSUME NEW t \in Timer, t.stray > 0
    PROVE  /\ RingsAstray(t) \in Timer /\ Going(RingsAstray(t)) = Going(t)
           /\ Once(t) => Once(RingsAstray(t))
<1>1. /\ RingsAstray(t) \in Timer
      /\ RingsAstray(t).held = t.held /\ RingsAstray(t).stray = t.stray - 1
      /\ RingsAstray(t).fired = t.fired + 1 /\ RingsAstray(t).late = t.late
  BY DEF Timer, RingsAstray
<1>2. Going(RingsAstray(t)) = Going(t)
  BY <1>1, TimerCounted
<1>3. Once(t) => t.late
  BY TimerCounted DEF Once
<1> QED
  BY <1>1, <1>2, <1>3 DEF Once

(* Of arming: the timer goes on, and once if it did and had not rung.      *)
LEMMA Arming ==
    ASSUME NEW t \in Timer
    PROVE  Armed(t) \in Timer /\ Going(Armed(t)) > 0 /\ (Once(t) => Once(Armed(t)))
<1>1. /\ Armed(t) \in Timer
      /\ Armed(t).held = TRUE /\ Armed(t).stray = t.stray /\ Armed(t).fired = t.fired
      /\ Armed(t).late = (t.late \/ t.fired > 0)
  BY DEF Timer, Armed
<1>2. Going(Armed(t)) = t.stray + 1 + t.fired
  BY <1>1, TimerCounted
<1>3. ASSUME Once(t), ~Armed(t).late
      PROVE  Armed(t).stray = 0 /\ Going(Armed(t)) <= 1
  <2>1. ~t.late /\ ~(t.fired > 0)
    BY <1>1, <1>3, TimerCounted
  <2>2. t.stray = 0 /\ t.fired = 0
    BY <1>3, <2>1, TimerCounted DEF Once
  <2> QED
    BY <1>1, <1>2, <2>2
<1>4. Going(Armed(t)) > 0
  BY <1>2, TimerCounted
<1> QED
  BY <1>1, <1>3, <1>4 DEF Once

(* Of the taking of a message: none is left over but of a late timer.      *)
LEMMA Taking ==
    ASSUME NEW t \in Timer, t.fired > 0
    PROVE  /\ Taken(t) \in Timer
           /\ Once(t) => Once(Taken(t))
<1>1. /\ Taken(t) \in Timer
      /\ Taken(t).held = FALSE /\ Taken(t).fired = t.fired - 1
      /\ Taken(t).stray = t.stray + (IF t.held THEN 1 ELSE 0)
      /\ Taken(t).late = (t.late /\ Going(t) > 1)
  BY DEF Timer, Taken, Going, Sleeping
<1>2. ASSUME Once(t), ~Taken(t).late
      PROVE  Taken(t).stray = 0 /\ Going(Taken(t)) <= 1
  <2>1. Going(t) <= 1
    BY <1>1, <1>2, TimerCounted DEF Once
  <2>2. Taken(t).stray = 0 /\ Taken(t).fired = 0
    BY <1>1, <2>1, TimerCounted
  <2> QED
    BY <1>1, <2>2, TimerCounted
<1> QED
  BY <1>1, <1>2 DEF Once

(* The same of the timers of the model.                                    *)
LEMMA ArmsOne ==
    ASSUME TypeOK, NEW id \in TimerIds, Arm(id)
    PROVE  /\ timers' \in Timers
           /\ Pending(id)'
           /\ \A i \in TimerIds : Pending(i) => Pending(i)'
           /\ EachOnce => EachOnce'
<1>1. timers \in [TimerIds -> Timer] /\ timers' = [timers EXCEPT ![id] = Armed(timers[id])]
  BY DEF TypeOK, Timers, Arm
<1>2. timers[id] \in Timer
  BY <1>1
<1>3. /\ Armed(timers[id]) \in Timer /\ Going(Armed(timers[id])) > 0
      /\ Once(timers[id]) => Once(Armed(timers[id]))
  BY <1>2, Arming
<1>4. timers'[id] = Armed(timers[id]) /\ \A i \in TimerIds \ {id} : timers'[i] = timers[i]
  BY <1>1
<1>5. timers' \in Timers
  BY <1>1, <1>3 DEF Timers
<1>6. Pending(id)' /\ \A i \in TimerIds : Pending(i) => Pending(i)'
  <2>1. Pending(id)'
    BY <1>3, <1>4, Zenon DEF Pending
  <2>2. ASSUME NEW i \in TimerIds \ {id}, Pending(i) PROVE Pending(i)'
    BY <1>4, <2>2, Zenon DEF Pending
  <2> QED
    BY <2>1, <2>2, Zenon
<1>7. EachOnce => EachOnce'
  BY <1>3, <1>4, Zenon DEF EachOnce
<1> QED
  BY <1>5, <1>6, <1>7

LEMMA TakesOne ==
    ASSUME TypeOK, NEW id \in TimerIds, Take(id)
    PROVE  /\ timers' \in Timers
           /\ \A i \in TimerIds \ {id} : Pending(i) => Pending(i)'
           /\ EachOnce => EachOnce'
<1>1. timers \in [TimerIds -> Timer] /\ timers' = [timers EXCEPT ![id] = Taken(timers[id])]
  BY DEF TypeOK, Timers, Take
<1>2. timers[id] \in Timer /\ timers[id].fired > 0
  BY <1>1 DEF Take, Rung
<1>3. Taken(timers[id]) \in Timer /\ (Once(timers[id]) => Once(Taken(timers[id])))
  BY <1>2, Taking
<1>4. timers'[id] = Taken(timers[id]) /\ \A i \in TimerIds \ {id} : timers'[i] = timers[i]
  BY <1>1
<1>5. timers' \in Timers
  BY <1>1, <1>3 DEF Timers
<1>6. \A i \in TimerIds \ {id} : Pending(i) => Pending(i)'
  BY <1>4, Zenon DEF Pending
<1>7. EachOnce => EachOnce'
  BY <1>3, <1>4, Zenon DEF EachOnce
<1> QED
  BY <1>5, <1>6, <1>7

(* The status poll is armed again by its own message.                      *)
LEMMA PollsAgain ==
    ASSUME TypeOK, StatusPolled
    PROVE  /\ timers' \in Timers
           /\ \A i \in TimerIds : Pending(i) \/ i = "StatusPoll" => Pending(i)'
           /\ EachOnce => EachOnce'
<1> DEFINE id == "StatusPoll"
           t == timers[id]
<1>1. /\ timers \in [TimerIds -> Timer] /\ id \in TimerIds
      /\ timers' = [timers EXCEPT ![id] = Armed(Taken(t))]
  BY DEF TypeOK, Timers, StatusPolled, TimerIds
<1>2. t \in Timer /\ t.fired > 0
  BY <1>1 DEF StatusPolled, Rung
<1>3. Taken(t) \in Timer /\ (Once(t) => Once(Taken(t)))
  BY <1>2, Taking
<1>4. /\ Armed(Taken(t)) \in Timer /\ Going(Armed(Taken(t))) > 0
      /\ Once(t) => Once(Armed(Taken(t)))
  BY <1>3, Arming
<1>5. timers'[id] = Armed(Taken(t)) /\ \A i \in TimerIds \ {id} : timers'[i] = timers[i]
  BY <1>1
<1>6. timers' \in Timers
  BY <1>1, <1>4 DEF Timers
<1>7. \A i \in TimerIds : Pending(i) \/ i = "StatusPoll" => Pending(i)'
  <2>1. Pending(id)'
    BY <1>4, <1>5, Zenon DEF Pending
  <2>2. ASSUME NEW i \in TimerIds \ {id}, Pending(i) PROVE Pending(i)'
    BY <1>5, <2>2, Zenon DEF Pending
  <2> QED
    BY <2>1, <2>2, Zenon
<1>8. EachOnce => EachOnce'
  BY <1>4, <1>5, Zenon DEF EachOnce
<1> QED
  BY <1>6, <1>7, <1>8

LEMMA FiresOne ==
    ASSUME TypeOK, NEW id \in TimerIds, Fire(id)
    PROVE  /\ timers' \in Timers
           /\ \A i \in TimerIds : Pending(i) => Pending(i)'
           /\ EachOnce => EachOnce'
<1>1. timers \in [TimerIds -> Timer]
  BY DEF TypeOK, Timers
<1>2. PICK u \in Timer : /\ Going(u) = Going(timers[id]) /\ (Once(timers[id]) => Once(u))
                         /\ timers' = [timers EXCEPT ![id] = u]
  <2>1. timers[id] \in Timer
    BY <1>1
  <2>2. CASE timers[id].held /\ timers' = [timers EXCEPT ![id] = Rings(timers[id])]
    BY <2>1, <2>2, Ringing, Zenon
  <2>3. CASE timers[id].stray > 0 /\ timers' = [timers EXCEPT ![id] = RingsAstray(timers[id])]
    BY <2>1, <2>3, RingingAstray, Zenon
  <2> QED
    BY <2>2, <2>3 DEF Fire
<1>3. timers'[id] = u /\ \A i \in TimerIds \ {id} : timers'[i] = timers[i]
  BY <1>1, <1>2
<1>4. timers' \in Timers
  BY <1>1, <1>2 DEF Timers
<1>5. \A i \in TimerIds : Pending(i) => Pending(i)'
  BY <1>2, <1>3, Zenon DEF Pending
<1>6. EachOnce => EachOnce'
  BY <1>2, <1>3, Zenon DEF EachOnce
<1> QED
  BY <1>4, <1>5, <1>6

(* Every reachable state of timers, requests, header and list is well      *)
(* formed.                                                                 *)
THEOREM TypeCorrect == Spec => []TypeOK
<1>1. Init => TypeOK
  <2>1. 0 \in 0..MaxTurns /\ 0 \in 0..MaxEvents
    BY BoundsAssumption
  <2>2. ASSUME Init PROVE timers \in Timers
    <3>1. Armed(Idle) \in Timer
      BY IdleTimer, Arming
    <3> QED
      BY <2>2, <3>1, IdleTimer DEF Init, Timers
  <2> QED
    BY <2>1, <2>2, AnswersOfKinds DEF Init, TypeOK, Streams
<1>2. TypeOK /\ [Next]_vars => TypeOK'
  <2> SUFFICES ASSUME TypeOK, [Next]_vars PROVE TypeOK'
    OBVIOUS
  <2> USE DEF TypeOK
  <2>1. CASE Turn
    <3>1. turns' \in 0..MaxTurns
      BY <2>1, BoundsAssumption DEF Turn
    <3> QED
      BY <2>1, <3>1 DEF Turn, requests, header, list, flags
  <2>2. ASSUME NEW kind \in RequestKinds, Reply(kind) PROVE TypeOK'
    <3>1. answered' \subseteq Answers
      BY <2>2, AnswersOfKinds DEF Reply
    <3> QED
      BY <2>2, <3>1 DEF Reply, world, header, list, flags
  <2>3. ASSUME NEW id \in TimerIds, Fire(id) PROVE TypeOK'
    BY <2>3, FiresOne DEF Fire, world, requests, header, list, flags
  <2>4. CASE TakeTimer
    <3>1. CASE ToastExpires
      <4>1. timers' \in Timers
        BY <3>1, TakesOne DEF ToastExpires, TimerIds
      <4> QED
        BY <3>1, <4>1 DEF ToastExpires, world, requests, header, list
    <3>2. CASE GuardExpires
      <4>1. timers' \in Timers
        BY <3>2, TakesOne DEF GuardExpires, TimerIds
      <4>2. /\ UNCHANGED <<daemon, ended, turns, asked, answered, pollOk, status, active, lost>>
            /\ UNCHANGED <<listed, hidden, hid, toast, footer, running, events>>
            /\ debounce' \in BOOLEAN /\ guard' \in BOOLEAN
        BY <3>2 DEF GuardExpires, world, requests, header, list
      <4> QED
        BY <4>1, <4>2
    <3>3. CASE StatusPolled
      BY <3>3, AnswersOfKinds, PollsAgain DEF StatusPolled, Ask, world, header, list, flags
    <3>4. CASE CatalogSettled
      <4>1. timers' \in Timers
        BY <3>4, TakesOne DEF CatalogSettled, TimerIds
      <4>2. /\ UNCHANGED <<daemon, ended, turns, asked, answered, pollOk, status, active, lost>>
            /\ UNCHANGED <<listed, hidden, hid, toast, footer, running, events>>
            /\ debounce' \in BOOLEAN /\ guard' \in BOOLEAN
        BY <3>4 DEF CatalogSettled, world, requests, header, list
      <4> QED
        BY <4>1, <4>2
    <3>5. CASE RunsPolled
      <4>1. timers' \in Timers
        BY <3>5, TakesOne DEF RunsPolled, TimerIds
      <4> QED
        BY <3>5, <4>1, AnswersOfKinds DEF RunsPolled, Ask, world, header, list, flags
    <3> QED
      BY <2>4, <3>1, <3>2, <3>3, <3>4, <3>5 DEF TakeTimer
  <2>5. CASE TakeAnswer
    <3>1. ASSUME NEW a \in Values["status"] \cup {"error"}, StatusArrives(a) PROVE TypeOK'
      BY <3>1 DEF StatusArrives, Receive, Values, world
    <3>2. ASSUME NEW a \in Values["runs"] \cup {"error"}, RunsArrive(a) PROVE TypeOK'
      <4>1. timers' \in Timers
        BY <3>2, ArmsOne DEF RunsArrive, TimerIds
      <4>2. listed' \in {"none", "live", "ended"}
        BY <3>2 DEF RunsArrive, Values
      <4> QED
        BY <3>2, <4>1, <4>2 DEF RunsArrive, Receive, world
    <3>3. ASSUME NEW a \in Values["write"] \cup {"error"}, WriteAnswered(a) PROVE TypeOK'
      <4>1. timers' \in Timers
        BY <3>3, ArmsOne DEF WriteAnswered, TimerIds
      <4> QED
        BY <3>3, <4>1, AnswersOfKinds DEF WriteAnswered, Receive, world
    <3> QED
      BY <2>5, <3>1, <3>2, <3>3 DEF TakeAnswer
  <2>6. ASSUME NEW s \in Streams, StreamLost(s) \/ StreamLive(s) PROVE TypeOK'
    BY <2>6 DEF StreamLost, StreamLive, Report, world, requests, list
  <2>7. CASE CatalogEvent
    <3>1. timers' \in Timers
      BY <2>7, ArmsOne DEF CatalogEvent, TimerIds
    <3> QED
      BY <2>7, <3>1 DEF CatalogEvent, Report, world, requests, list
  <2>8. ASSUME NEW s \in Panels, Resynchronized(s) \/ OpenPanel(s) PROVE TypeOK'
    <3>1. CASE Resynchronized(s)
      <4>1. timers' \in Timers
        BY <3>1, ArmsOne DEF Resynchronized, TimerIds
      <4> QED
        BY <3>1, <4>1 DEF Resynchronized, Report, world, requests, list
    <3>2. CASE OpenPanel(s)
      <4>1. events' \in 0..MaxEvents /\ active' \subseteq Streams
        BY <3>2, Counted DEF OpenPanel, Key, Streams
      <4>2. /\ UNCHANGED <<daemon, ended, turns, timers, asked, answered, pollOk, status>>
            /\ UNCHANGED <<lost, listed, hidden, hid, debounce, guard, toast, running>>
            /\ footer' \in BOOLEAN
        BY <3>2 DEF OpenPanel, Key, world
      <4> QED
        BY <4>1, <4>2
    <3> QED
      BY <2>8, <3>1, <3>2
  <2>9. CASE ToggleLoop
    BY <2>9, AnswersOfKinds, Counted DEF ToggleLoop, Key, Ask, world
  <2>10. CASE Filter
    BY <2>10, Counted DEF Filter, Key, world
  <2>11. CASE Write
    <3>1. asked' \subseteq RequestKinds /\ toast' \in BOOLEAN
      BY <2>11, AnswersOfKinds DEF Write, Ask
    <3> QED
      BY <2>11, <3>1, Counted DEF Write, Key, world
  <2>12. ASSUME NEW draft \in BOOLEAN, CtrlC(draft) PROVE TypeOK'
    <3>1. timers' \in Timers
      BY <2>12, ArmsOne, IdleTimer DEF CtrlC, Timers, TimerIds
    <3>2. events' \in 0..MaxEvents
      BY <2>12, Counted DEF CtrlC, Key
    <3>3. CASE draft /\ ~guard
      BY <2>12, <3>1, <3>2, <3>3 DEF CtrlC, Key, world, requests
    <3>4. CASE ~(draft /\ ~guard)
      <4>1. /\ UNCHANGED <<daemon, ended, turns, pollOk, status, active, lost>>
            /\ UNCHANGED <<listed, hidden, hid, debounce, guard, toast, footer>>
            /\ asked' = {} /\ answered' = {} /\ running' \in BOOLEAN
        BY <2>12, <3>4 DEF CtrlC, Key, world
      <4> QED
        BY <3>1, <3>2, <4>1
    <3> QED
      BY <3>3, <3>4
  <2>13. CASE Switch
    <3>1. timers' \in Timers
      BY <2>13, ArmsOne DEF Switch, TimerIds
    <3>2. asked' \subseteq RequestKinds /\ answered' \subseteq Answers
      BY <2>13, AnswersOfKinds DEF Switch
    <3>3. events' \in 0..MaxEvents
      BY <2>13, Counted DEF Switch
    <3>4. UNCHANGED <<world, running>> /\ active' \subseteq Streams
      BY <2>13 DEF Switch, Streams
    <3> QED
      BY <2>13, <3>1, <3>2, <3>3, <3>4 DEF Switch, world
  <2>14. CASE UNCHANGED vars
    BY <2>14 DEF vars, world, requests, header, list, flags
  <2> QED
    BY <2>1, <2>2, <2>3, <2>4, <2>5, <2>6, <2>7, <2>8, <2>9, <2>10, <2>11, <2>12, <2>13, <2>14
       DEF Next
<1> QED
  BY <1>1, <1>2, PTL DEF Spec

-----------------------------------------------------------------------------
(* The timers the model needs are on their way, and only they: whatever it *)
(* waits for a timer to undo has one pending, the status poll never stops, *)
(* and no timer goes on twice unless it was armed after it had rung        *)
(* (timers.rs:6, runtime/mod.rs:534, runtime/mod.rs:634, stream.rs:52,     *)
(* keys.rs:893).  Tasks that were let go of are counted with the others.   *)
THEOREM TimersArePending == Spec => []TimersInStep
<1>1. Init => EachOnce /\ TimersBacked
  <2> SUFFICES ASSUME Init PROVE EachOnce /\ TimersBacked
    OBVIOUS
  <2>1. Armed(Idle) \in Timer /\ Going(Armed(Idle)) > 0 /\ Once(Armed(Idle))
    BY IdleTimer, Arming
  <2>2. timers = [id \in TimerIds |-> IF id = "StatusPoll" THEN Armed(Idle) ELSE Idle]
    BY DEF Init
  <2>3. EachOnce
    BY <2>1, <2>2, IdleTimer DEF EachOnce
  <2>4. timers["StatusPoll"] = Armed(Idle)
    BY <2>2 DEF TimerIds
  <2>5. TimersBacked
    BY <2>1, <2>4 DEF Init, TimersBacked, Pending
  <2> QED
    BY <2>3, <2>5
<1>2. TypeOK /\ EachOnce /\ TimersBacked /\ [Next]_vars => EachOnce' /\ TimersBacked'
  <2> SUFFICES ASSUME TypeOK, EachOnce, TimersBacked, [Next]_vars
               PROVE  EachOnce' /\ (running' => TimersBacked')
    BY DEF TimersBacked
  <2> DEFINE Owed == /\ Pending("StatusPoll")
                     /\ debounce => Pending("CatalogDebounce")
                     /\ guard => Pending("QuitGuard")
                     /\ toast \/ footer => Pending("ToastExpiry")
             Goal == EachOnce' /\ (running' => TimersBacked')
  <2>a. running => Owed
    BY DEF TimersBacked
  <2>b. Owed' => TimersBacked'
    BY DEF TimersBacked
  <2>c. timers' = timers => EachOnce' /\ \A id \in TimerIds : Pending(id) => Pending(id)'
    BY Zenon DEF EachOnce, Pending
  <2>d. {"ToastExpiry", "QuitGuard", "StatusPoll", "CatalogDebounce"} \subseteq TimerIds
    BY DEF TimerIds
  <2>e. ASSUME EachOnce', running,
               \A id \in TimerIds : Pending(id) => Pending(id)',
               (debounce' => debounce) /\ (guard' => guard)
                 /\ (toast' \/ footer' => toast \/ footer)
        PROVE  Goal
    BY <2>a, <2>b, <2>d, <2>e
  <2> SUFFICES Goal
    OBVIOUS
  <2> HIDE DEF Owed, Goal
  <2>1. CASE Turn
    BY <2>1, <2>c, <2>e DEF Turn, flags
  <2>2. ASSUME NEW kind \in RequestKinds, Reply(kind) PROVE Goal
    BY <2>2, <2>c, <2>e DEF Reply, flags
  <2>3. ASSUME NEW id \in TimerIds, Fire(id) PROVE Goal
    BY <2>3, FiresOne, <2>e DEF Fire, flags
  <2>4. CASE TakeTimer
    <3>1. CASE ToastExpires
      <4>1. EachOnce' /\ \A i \in TimerIds \ {"ToastExpiry"} : Pending(i) => Pending(i)'
        BY <3>1, TakesOne, <2>d DEF ToastExpires
      <4>2. running /\ UNCHANGED <<debounce, guard>> /\ ~toast' /\ ~footer'
        BY <3>1 DEF ToastExpires, Take, Rung
      <4> QED
        BY <4>1, <4>2, <2>a, <2>b, <2>d DEF Owed, Goal
    <3>2. CASE GuardExpires
      <4>1. EachOnce' /\ \A i \in TimerIds \ {"QuitGuard"} : Pending(i) => Pending(i)'
        BY <3>2, TakesOne, <2>d DEF GuardExpires
      <4>2. running /\ UNCHANGED <<debounce, toast, footer>> /\ ~guard'
        BY <3>2 DEF GuardExpires, Take, Rung
      <4> QED
        BY <4>1, <4>2, <2>a, <2>b, <2>d DEF Owed, Goal
    <3>3. CASE StatusPolled
      BY <3>3, PollsAgain, <2>e DEF StatusPolled, Rung, flags
    <3>4. CASE CatalogSettled
      <4>1. EachOnce' /\ \A i \in TimerIds \ {"CatalogDebounce"} : Pending(i) => Pending(i)'
        BY <3>4, TakesOne, <2>d DEF CatalogSettled
      <4>2. running /\ UNCHANGED <<guard, toast, footer>> /\ ~debounce'
        BY <3>4 DEF CatalogSettled, Take, Rung
      <4> QED
        BY <4>1, <4>2, <2>a, <2>b, <2>d DEF Owed, Goal
    <3>5. CASE RunsPolled
      <4>1. EachOnce' /\ \A i \in TimerIds \ {"RunsPoll"} : Pending(i) => Pending(i)'
        BY <3>5, TakesOne DEF RunsPolled, TimerIds
      <4>2. running /\ UNCHANGED flags
        BY <3>5 DEF RunsPolled, Take, Rung
      <4> QED
        BY <4>1, <4>2, <2>a, <2>b, <2>d DEF Owed, Goal, flags
    <3> QED
      BY <2>4, <3>1, <3>2, <3>3, <3>4, <3>5 DEF TakeTimer
  <2>5. CASE TakeAnswer
    <3>1. ASSUME NEW a \in Values["status"] \cup {"error"}, StatusArrives(a) PROVE Goal
      BY <3>1, <2>c, <2>e DEF StatusArrives, Receive
    <3>2. ASSUME NEW a \in Values["runs"] \cup {"error"}, RunsArrive(a) PROVE Goal
      <4>1. EachOnce' /\ \A i \in TimerIds : Pending(i) => Pending(i)'
        BY <3>2, <2>c, ArmsOne DEF RunsArrive, TimerIds
      <4>2. running /\ UNCHANGED <<debounce, guard, footer>> /\ (toast' => toast)
        BY <3>2 DEF RunsArrive, Receive, TypeOK
      <4> QED
        BY <4>1, <4>2, <2>e
    <3>3. ASSUME NEW a \in Values["write"] \cup {"error"}, WriteAnswered(a) PROVE Goal
      <4>1. EachOnce' /\ \A i \in TimerIds : Pending(i) => Pending(i)'
        BY <3>3, <2>c, <2>d, ArmsOne DEF WriteAnswered
      <4>2. running /\ UNCHANGED <<debounce, guard, footer>>
        BY <3>3 DEF WriteAnswered, Receive
      <4>3. toast' => Pending("ToastExpiry")'
        BY <3>3, <2>d, ArmsOne DEF WriteAnswered
      <4> QED
        BY <4>1, <4>2, <4>3, <2>a, <2>b, <2>d DEF Owed, Goal
    <3> QED
      BY <2>5, <3>1, <3>2, <3>3 DEF TakeAnswer
  <2>6. ASSUME NEW s \in Streams, StreamLost(s) \/ StreamLive(s) PROVE Goal
    BY <2>6, <2>c, <2>e DEF StreamLost, StreamLive, Report
  <2>7. CASE CatalogEvent
    <3>1. EachOnce' /\ \A i \in TimerIds : Pending(i) => Pending(i)'
      BY <2>7, <2>c, <2>d, ArmsOne DEF CatalogEvent
    <3>2. running /\ UNCHANGED <<guard, toast, footer>>
      BY <2>7 DEF CatalogEvent, Report
    <3>3. debounce \/ Pending("CatalogDebounce")'
      BY <2>7, <2>d, ArmsOne DEF CatalogEvent
    <3> QED
      BY <3>1, <3>2, <3>3, <2>a, <2>b, <2>d DEF Owed, Goal
  <2>8. ASSUME NEW s \in Panels, Resynchronized(s) \/ OpenPanel(s) PROVE Goal
    <3>1. CASE Resynchronized(s)
      <4>1. /\ EachOnce' /\ Pending("ToastExpiry")'
            /\ \A i \in TimerIds : Pending(i) => Pending(i)'
        BY <3>1, <2>d, ArmsOne DEF Resynchronized
      <4>2. running /\ UNCHANGED <<debounce, guard>>
        BY <3>1 DEF Resynchronized, Report
      <4> QED
        BY <4>1, <4>2, <2>a, <2>b, <2>d DEF Owed, Goal
    <3>2. CASE OpenPanel(s)
      BY <3>2, <2>c, <2>e DEF OpenPanel, Key
    <3> QED
      BY <2>8, <3>1, <3>2
  <2>9. CASE ToggleLoop
    BY <2>9, <2>c, <2>e DEF ToggleLoop, Key
  <2>10. CASE Filter
    BY <2>10, <2>c, <2>e DEF Filter, Key
  <2>11. CASE Write
    <3>1. running /\ UNCHANGED <<timers, debounce, guard, footer>> /\ (toast' => toast)
      BY <2>11 DEF Write, Key
    <3> QED
      BY <3>1, <2>c, <2>e
  <2>12. ASSUME NEW draft \in BOOLEAN, CtrlC(draft) PROVE Goal
    <3>1. CASE draft /\ ~guard
      <4>1. /\ EachOnce' /\ Pending("QuitGuard")'
            /\ \A i \in TimerIds : Pending(i) => Pending(i)'
        BY <2>12, <3>1, <2>d, ArmsOne DEF CtrlC
      <4>2. running /\ UNCHANGED <<debounce, footer>> /\ ~toast'
        BY <2>12, <3>1 DEF CtrlC, Key
      <4> QED
        BY <4>1, <4>2, <2>a, <2>b, <2>d DEF Owed, Goal
    <3>2. CASE ~(draft /\ ~guard)
      <4>1. ~running' /\ timers' = [id \in TimerIds |-> Idle]
        BY <2>12, <3>2 DEF CtrlC
      <4>2. EachOnce'
        BY <4>1, IdleTimer DEF EachOnce
      <4> QED
        BY <4>1, <4>2, Zenon DEF Goal
    <3> QED
      BY <3>1, <3>2
  <2>13. CASE Switch
    <3>1. /\ EachOnce' /\ Pending("StatusPoll")'
          /\ ~debounce' /\ ~guard' /\ ~toast' /\ ~footer'
      BY <2>13, <2>d, ArmsOne DEF Switch
    <3> QED
      BY <3>1, <2>b DEF Owed, Goal
  <2>14. CASE UNCHANGED vars
    BY <2>14, <2>c, <2>a, <2>b, <2>d DEF vars, flags, Owed, Goal
  <2> QED
    BY <2>1, <2>2, <2>3, <2>4, <2>5, <2>6, <2>7, <2>8, <2>9, <2>10, <2>11, <2>12, <2>13, <2>14
       DEF Next, Goal
<1>3. EachOnce /\ TimersBacked => TimersInStep
  BY DEF EachOnce, Once, TimersInStep, OnceEach
<1> QED
  BY <1>1, <1>2, <1>3, TypeCorrect, PTL DEF Spec

-----------------------------------------------------------------------------
(* TranscriptView.                                                         *)

(* Every set of numbers has a least one, which Min is.                     *)
LEMMA LeastExists ==
    ASSUME NEW S, S \subseteq Nat, S # {}
    PROVE  \E n \in S : \A m \in S : n <= m
<1>1. PICK n \in S : \A m \in S : ~(<<m, n>> \in OpToRel(<, Nat))
  BY WFMin, NatLessThanWellFounded, Zenon
<1>2. ASSUME NEW m \in S
      PROVE  n <= m
  <2>1. m \in Nat /\ n \in Nat
    OBVIOUS
  <2>2. ~(m < n)
    BY <1>1, <2>1, Zenon DEF OpToRel
  <2> QED
    BY <2>1, <2>2
<1> QED
  BY <1>2, Zenon

LEMMA MinIs ==
    ASSUME NEW S, S \subseteq Nat, S # {}
    PROVE  Min(S) \in S /\ \A m \in S : Min(S) <= m
BY LeastExists, Zenon DEF Min

LEMMA MinOfTwo ==
    ASSUME NEW a \in Nat, NEW b \in Nat
    PROVE  Min({a, b}) \in Nat /\ Min({a, b}) <= a /\ Min({a, b}) <= b
<1>1. {a, b} \subseteq Nat /\ {a, b} # {} /\ a \in {a, b} /\ b \in {a, b}
  OBVIOUS
<1> HIDE DEF Min
<1>2. Min({a, b}) \in {a, b} /\ \A m \in {a, b} : Min({a, b}) <= m
  BY <1>1, MinIs, Zenon
<1> QED
  BY <1>2

(* Members of a finite set of numbers have different ranks, so there is    *)
(* one of each rank, and Sorted lists them all in order.                   *)
LEMMA RanksRise ==
    ASSUME NEW S, S \subseteq Nat, IsFiniteSet(S), NEW s \in S, NEW t \in S, s < t
    PROVE  Cardinality({u \in S : u < s}) < Cardinality({u \in S : u < t})
<1> DEFINE Low(x) == {u \in S : u < x}
<1>1. IsFiniteSet(Low(s)) /\ IsFiniteSet(Low(t))
  BY FS_Subset
<1>2. Low(s) \cup {s} \in SUBSET Low(t) /\ s \notin Low(s)
  <2>1. ASSUME NEW u \in Low(s) \cup {s}
        PROVE  u \in Low(t)
    <3>1. u \in S /\ (u < s \/ u = s)
      OBVIOUS
    <3>2. u \in Nat /\ s \in Nat /\ t \in Nat
      BY <3>1
    <3>3. u < t
      BY <3>1, <3>2
    <3> QED
      BY <3>1, <3>3
  <2>2. ~(s < s)
    OBVIOUS
  <2>3. s \notin Low(s)
    BY <2>2
  <2> HIDE DEF Low
  <2> QED
    BY <2>1, <2>3
<1> HIDE DEF Low
<1>3. Cardinality(Low(s) \cup {s}) = Cardinality(Low(s)) + 1
  BY <1>1, <1>2, FS_AddElement
<1>4. Cardinality(Low(s) \cup {s}) <= Cardinality(Low(t))
  BY <1>1, <1>2, FS_Subset
<1>5. Cardinality(Low(s)) \in Nat /\ Cardinality(Low(t)) \in Nat
  BY <1>1, FS_CardinalityType
<1>6. Cardinality(Low(s)) < Cardinality(Low(t))
  BY <1>3, <1>4, <1>5
<1> QED
  BY <1>6 DEF Low

LEMMA RanksAreAll ==
    ASSUME NEW S, S \subseteq Nat, IsFiniteSet(S), NEW i \in 1..Cardinality(S)
    PROVE  \E s \in S : Cardinality({u \in S : u < s}) = i - 1
<1> DEFINE Rank == [s \in S |-> Cardinality({u \in S : u < s})]
           n == Cardinality(S)
<1>1. n \in Nat
  BY FS_CardinalityType
<1>2. ASSUME NEW s \in S
      PROVE  Rank[s] \in 0..(n - 1)
  <2> DEFINE Low == {u \in S : u < s}
  <2>1. Low \in SUBSET S /\ Low # S
    OBVIOUS
  <2> HIDE DEF Low
  <2>2. Cardinality(Low) \in Nat /\ Cardinality(Low) <= n /\ Cardinality(Low) # n
    BY <2>1, FS_Subset, FS_CardinalityType
  <2>3. Cardinality(Low) \in 0..(n - 1)
    BY <1>1, <2>2
  <2> QED
    BY <2>3 DEF Low
<1>3. ASSUME NEW s \in S, NEW t \in S, Rank[s] = Rank[t]
      PROVE  s = t
  <2>1. ~(s < t) /\ ~(t < s)
    <3>1. Rank[s] \in Nat /\ Rank[t] \in Nat
      BY <1>1, <1>2
    <3>2. s < t => Rank[s] < Rank[t]
      BY RanksRise
    <3>3. t < s => Rank[t] < Rank[s]
      BY RanksRise
    <3> QED
      BY <1>3, <3>1, <3>2, <3>3
  <2> QED
    BY <2>1
<1>4. Rank \in Injection(S, 0..(n - 1))
  <2>1. Rank \in [S -> 0..(n - 1)]
    BY <1>2
  <2> QED
    BY <2>1, <1>3, Zenon DEF Injection, IsInjective
<1>5. IsFiniteSet(0..(n - 1)) /\ Cardinality(0..(n - 1)) = n
  <2>1. 0 \in Int /\ n - 1 \in Int
    BY <1>1
  <2>2. /\ IsFiniteSet(0..(n - 1))
        /\ Cardinality(0..(n - 1)) = IF 0 > n - 1 THEN 0 ELSE (n - 1) - 0 + 1
    BY <2>1, FS_Interval, Zenon
  <2>3. (IF 0 > n - 1 THEN 0 ELSE (n - 1) - 0 + 1) = n
    BY <1>1
  <2> QED
    BY <2>2, <2>3
<1>6. Rank \in Surjection(S, 0..(n - 1))
  BY <1>4, <1>5, FS_Injection, Zenon
<1>7. i - 1 \in 0..(n - 1)
  BY <1>1
<1>8. PICK s \in S : Rank[s] = i - 1
  BY <1>6, <1>7, Zenon DEF Surjection
<1> QED
  BY <1>8

LEMMA SortedIs ==
    ASSUME NEW S, S \subseteq Nat, IsFiniteSet(S)
    PROVE  /\ Cardinality(S) \in Nat
           /\ Sorted(S) \in [1..Cardinality(S) -> S]
           /\ \A i, j \in 1..Cardinality(S) : i < j => Sorted(S)[i] < Sorted(S)[j]
           /\ \A s \in S : \E i \in 1..Cardinality(S) : Sorted(S)[i] = s
<1> DEFINE Rank(s) == Cardinality({u \in S : u < s})
           n == Cardinality(S)
<1>1. n \in Nat
  BY FS_CardinalityType
<1>2. ASSUME NEW i \in 1..n
      PROVE  Sorted(S)[i] \in S /\ Rank(Sorted(S)[i]) = i - 1
  <2>1. \E s \in S : Rank(s) = i - 1
    BY RanksAreAll
  <2>2. Sorted(S)[i] = CHOOSE s \in S : Rank(s) = i - 1
    BY Zenon DEF Sorted
  <2> HIDE DEF Rank
  <2> QED
    BY <2>1, <2>2, Zenon
<1>3. Sorted(S) \in [1..n -> S]
  <2> SUFFICES \A i \in 1..n : Sorted(S)[i] \in S
    BY Zenon DEF Sorted
  <2> QED
    BY <1>2, Zenon
<1>4. ASSUME NEW s \in S, NEW t \in S
      PROVE  (s < t => Rank(s) < Rank(t)) /\ Rank(s) \in Nat
  <2>1. {u \in S : u < s} \in SUBSET S
    OBVIOUS
  <2>2. Rank(s) \in Nat
    BY <2>1, FS_Subset, FS_CardinalityType, Zenon
  <2> QED
    BY <2>2, RanksRise
<1>5. ASSUME NEW s \in S
      PROVE  Rank(s) + 1 \in 1..n
  <2> DEFINE Low == {u \in S : u < s}
  <2>1. Low \in SUBSET S /\ Low # S
    OBVIOUS
  <2> HIDE DEF Low
  <2>2. Cardinality(Low) \in Nat /\ Cardinality(Low) <= n /\ Cardinality(Low) # n
    BY <2>1, FS_Subset, FS_CardinalityType
  <2>3. Cardinality(Low) + 1 \in 1..n
    BY <1>1, <2>2
  <2> QED
    BY <2>3 DEF Low
<1> HIDE DEF Rank
<1>6. ASSUME NEW i \in 1..n, NEW j \in 1..n, i < j
      PROVE  Sorted(S)[i] < Sorted(S)[j]
  <2> DEFINE a == Sorted(S)[i]
             b == Sorted(S)[j]
  <2>1. a \in S /\ b \in S /\ Rank(a) = i - 1 /\ Rank(b) = j - 1
    BY <1>2
  <2> HIDE DEF a, b
  <2>2. b < a => Rank(b) < Rank(a)
    BY <1>4, <2>1
  <2>3. a # b /\ ~(b < a)
    BY <1>1, <1>6, <2>1, <2>2
  <2>4. a < b
    BY <2>1, <2>3
  <2> QED
    BY <2>4 DEF a, b
<1>7. ASSUME NEW s \in S
      PROVE  \E i \in 1..n : Sorted(S)[i] = s
  <2> DEFINE t == Sorted(S)[Rank(s) + 1]
  <2>1. t \in S /\ Rank(t) = (Rank(s) + 1) - 1
    BY <1>2, <1>5
  <2> HIDE DEF t
  <2>2. Rank(s) \in Nat /\ Rank(t) = Rank(s)
    BY <1>4, <2>1
  <2>3. ~(s < t) /\ ~(t < s)
    <3>1. s < t => Rank(s) < Rank(t)
      BY <1>4, <2>1
    <3>2. t < s => Rank(t) < Rank(s)
      BY <1>4, <2>1
    <3> QED
      BY <2>2, <3>1, <3>2
  <2>4. s = t
    BY <2>1, <2>3
  <2> QED
    BY <1>5, <2>4, Zenon DEF t
<1> QED
  BY <1>1, <1>3, <1>6, <1>7, Zenon

(* A set of numbers with a bound has a greatest one.                       *)
LEMMA GreatestExists ==
    ASSUME NEW S \in SUBSET Nat, S # {}, NEW b \in Nat, \A n \in S : n <= b
    PROVE  \E m \in S : \A n \in S : n <= m
<1> DEFINE T == {b - n : n \in S}
<1>1. \A n \in S : n \in Nat /\ b - n \in Nat
  <2>1. \A n \in S : n \in Nat /\ n <= b
    OBVIOUS
  <2> QED
    BY <2>1
<1>2. T \in SUBSET Nat /\ T # {}
  BY <1>1
<1>3. PICK t \in T : \A u \in T : t <= u
  BY <1>2, LeastExists
<1>4. PICK m \in S : t = b - m
  OBVIOUS
<1>5. ASSUME NEW n \in S
      PROVE  n <= m
  <2>1. t <= b - n
    BY <1>3
  <2> QED
    BY <2>1, <1>1, <1>4
<1> QED
  BY <1>5

LEMMA SequenceIs ==
    ASSUME NEW T, NEW n \in Nat, NEW q \in [1..n -> T]
    PROVE  q \in Seq(T) /\ Len(q) = n /\ DOMAIN q = 1..n
OBVIOUS

LEMMA SortedOfNone == Sorted({}) = <<>>
<1>1. Cardinality({}) = 0
  BY FS_EmptySet
<1>2. 1..Cardinality({}) = {}
  BY <1>1
<1>3. Sorted({}) \in Seq({}) /\ Len(Sorted({})) = 0
  <2>1. Sorted({}) \in [1..0 -> {}]
    BY <1>1, <1>2, Zenon DEF Sorted
  <2> QED
    BY <2>1
<1> QED
  BY <1>3

(* The rows are a sequence of nonempty sets of entries, and no entry is    *)
(* without one (TranscriptState::presentation_rows).                       *)
LEMMA RowsAre ==
    ASSUME NEW e, DOMAIN e \subseteq Nat, IsFiniteSet(DOMAIN e), NEW r \in BOOLEAN
    PROVE  /\ Rows(e, r) \in Seq(SUBSET DOMAIN e)
           /\ Len(Rows(e, r)) \in Nat
           /\ DOMAIN Rows(e, r) = 1..Len(Rows(e, r))
           /\ \A k \in DOMAIN Rows(e, r) : Rows(e, r)[k] # {} /\ Rows(e, r)[k] \subseteq DOMAIN e
           /\ \A s \in DOMAIN e : \E k \in DOMAIN Rows(e, r) : s \in Rows(e, r)[k]
<1> DEFINE starts == Sorted(DOMAIN e)
           n == Cardinality(DOMAIN e)
           Joined(i) == /\ ~r /\ i > 1
                        /\ e[starts[i]].kind \in Operational
                        /\ e[starts[i]].kind = e[starts[i - 1]].kind
           H == {i \in DOMAIN starts : ~Joined(i)}
           m == Cardinality(H)
           heads == Sorted(H) \o <<Len(starts) + 1>>
           Row(k) == {starts[i] : i \in heads[k]..(heads[k + 1] - 1)}
           rows == [k \in 1..(Len(heads) - 1) |-> Row(k)]
<1>1. rows = Rows(e, r)
  BY DEF Rows
<1>2. /\ n \in Nat /\ starts \in [1..n -> DOMAIN e]
      /\ \A s \in DOMAIN e : \E i \in 1..n : starts[i] = s
  BY SortedIs, Zenon
<1>3. DOMAIN starts = 1..n /\ Len(starts) = n
  BY <1>2
<1>4. H \subseteq 1..n /\ (n > 0 => 1 \in H)
  <2>1. ~Joined(1)
    OBVIOUS
  <2> HIDE DEF Joined, starts, n
  <2> QED
    BY <1>2, <1>3, <2>1
<1> HIDE DEF starts, n, H
<1>5. H \subseteq Nat /\ IsFiniteSet(H)
  <2>1. IsFiniteSet(1..n)
    BY <1>2, FS_Interval
  <2>2. IsFiniteSet(H)
    BY <2>1, <1>4, FS_Subset
  <2> QED
    BY <2>2, <1>4
<1>6. /\ m \in Nat /\ Sorted(H) \in [1..m -> H]
      /\ \A i, j \in 1..m : i < j => Sorted(H)[i] < Sorted(H)[j]
      /\ \A i \in H : \E k \in 1..m : Sorted(H)[k] = i
  BY <1>5, SortedIs, Zenon
<1> DEFINE q == Sorted(H)
<1> HIDE DEF m, q
<1>7. /\ Len(heads) = m + 1
      /\ \A k \in 1..m : heads[k] = q[k]
      /\ heads[m + 1] = n + 1
  <2>1. q \in Seq(Nat) /\ Len(q) = m
    <3>1. q \in [1..m -> Nat]
      <4>1. q \in [1..m -> H]
        BY <1>6, Zenon DEF q
      <4> QED
        BY <4>1, <1>5
    <3> QED
      BY <3>1, <1>6, SequenceIs, Zenon
  <2>2. <<n + 1>> \in Seq(Nat) /\ Len(<<n + 1>>) = 1
    BY <1>2
  <2>3. heads = q \o <<n + 1>>
    BY <1>3 DEF q
  <2> HIDE DEF heads
  <2> QED
    BY <2>1, <2>2, <2>3, <1>6
<1> HIDE DEF heads
<1>8. ASSUME NEW k \in 1..m
      PROVE  /\ heads[k] \in 1..n /\ heads[k + 1] \in 1..(n + 1)
             /\ heads[k] < heads[k + 1]
  <2>1. heads[k] \in 1..n
    BY <1>4, <1>6, <1>7 DEF q
  <2>2. CASE k = m
    <3>1. heads[k + 1] = n + 1
      BY <2>2, <1>7
    <3> QED
      BY <2>1, <3>1, <1>2
  <2>3. CASE k # m
    <3>1. k + 1 \in 1..m /\ k < k + 1
      BY <2>3, <1>6
    <3>2. heads[k + 1] \in 1..n /\ heads[k] < heads[k + 1]
      BY <3>1, <1>4, <1>6, <1>7 DEF q
    <3> QED
      BY <2>1, <3>2, <1>2
  <2> QED
    BY <2>2, <2>3
<1>9. ASSUME NEW k \in 1..m
      PROVE  Row(k) # {} /\ Row(k) \subseteq DOMAIN e
  <2>1. heads[k] \in heads[k]..(heads[k + 1] - 1)
        /\ heads[k]..(heads[k + 1] - 1) \subseteq 1..n
    BY <1>8, <1>2
  <2>2. \A i \in 1..n : starts[i] \in DOMAIN e
    BY <1>2
  <2> QED
    BY <2>1, <2>2, Zenon
<1>10. ASSUME NEW s \in DOMAIN e
       PROVE  \E k \in 1..m : s \in Row(k)
  <2>1. PICK i \in 1..n : starts[i] = s
    BY <1>2
  <2> DEFINE before == {k \in 1..m : heads[k] <= i}
  <2>2. PICK one \in 1..m : q[one] = 1
    BY <1>2, <1>4, <1>6 DEF q
  <2>3. one \in before
    BY <2>2, <1>7, <1>2
  <2>4. before \subseteq Nat /\ before # {} /\ (\A k \in before : k <= m)
    BY <2>3, <1>6
  <2>5. PICK k \in before : \A j \in before : j <= k
    BY <2>4, <1>6, GreatestExists, Zenon
  <2>6. k \in 1..m /\ heads[k] <= i
    BY <2>5
  <2>7. i < heads[k + 1]
    <3>1. CASE k = m
      BY <3>1, <1>7, <1>2
    <3>2. CASE k # m
      <4>1. k + 1 \in 1..m /\ ~(k + 1 <= k)
        BY <3>2, <2>6, <1>6
      <4>2. k + 1 \notin before
        BY <4>1, <2>5
      <4>3. ~(heads[k + 1] <= i)
        BY <4>1, <4>2
      <4> QED
        BY <4>3, <4>1, <1>8, <2>6
    <3> QED
      BY <3>1, <3>2
  <2>8. i \in heads[k]..(heads[k + 1] - 1)
    BY <2>6, <2>7, <1>8
  <2>9. s \in Row(k)
    BY <2>1, <2>8
  <2> QED
    BY <2>6, <2>9, Zenon
<1>11. DOMAIN rows = 1..m /\ \A k \in 1..m : rows[k] = Row(k)
  BY <1>7, <1>6
<1> HIDE DEF Row, rows
<1>12. rows \in Seq(SUBSET DOMAIN e) /\ Len(rows) = m
  <2>1. rows \in [1..m -> SUBSET DOMAIN e]
    <3>1. \A k \in 1..m : rows[k] \in SUBSET DOMAIN e
      BY <1>9, <1>11
    <3>2. rows = [k \in 1..m |-> rows[k]]
      BY <1>11 DEF rows
    <3> QED
      BY <3>1, <3>2, Zenon
  <2> QED
    BY <2>1, <1>6
<1>13. rows \in Seq(SUBSET DOMAIN e)
       /\ Len(rows) \in Nat /\ DOMAIN rows = 1..Len(rows)
       /\ (\A k \in DOMAIN rows : rows[k] # {} /\ rows[k] \subseteq DOMAIN e)
       /\ (\A s \in DOMAIN e : \E k \in DOMAIN rows : s \in rows[k])
  <2>1. Len(rows) \in Nat /\ DOMAIN rows = 1..Len(rows)
    BY <1>6, <1>11, <1>12, Zenon
  <2>2. \A k \in DOMAIN rows : rows[k] # {} /\ rows[k] \subseteq DOMAIN e
    BY <1>9, <1>11, Zenon
  <2>3. \A s \in DOMAIN e : \E k \in DOMAIN rows : s \in rows[k]
    BY <1>10, <1>11, Zenon
  <2> QED
    BY <1>12, <2>1, <2>2, <2>3, Zenon
<1> QED
  BY <1>1, <1>13, Zenon

(* Of the entries of a row one is nearest, and that is the entry itself if *)
(* it is in the row (stream::remap_selection).                             *)
LEMMA NearestIs ==
    ASSUME NEW row, row \subseteq Nat, row # {}, NEW s \in Nat
    PROVE  /\ Nearest(row, s) \in row
           /\ Distance(Nearest(row, s), s) \in Nat
           /\ \A u \in row : Distance(Nearest(row, s), s) <= Distance(u, s)
           /\ s \in row => Nearest(row, s) = s
<1> DEFINE D == {Distance(t, s) : t \in row}
           closest == {t \in row : \A u \in row : Distance(t, s) <= Distance(u, s)}
<1>1. \A t \in row : Distance(t, s) \in Nat
  BY DEF Distance
<1>2. D \subseteq Nat /\ D # {}
  BY <1>1
<1>3. PICK d \in D : \A c \in D : d <= c
  BY <1>2, LeastExists, Zenon
<1>4. PICK t \in row : d = Distance(t, s)
  OBVIOUS
<1>5. t \in closest
  BY <1>3, <1>4
<1>6. closest \subseteq Nat /\ closest # {}
  BY <1>5
<1>7. Nearest(row, s) \in closest
  BY <1>6, MinIs, Zenon DEF Nearest
<1>8. /\ Nearest(row, s) \in row
      /\ \A u \in row : Distance(Nearest(row, s), s) <= Distance(u, s)
  BY <1>7, Zenon
<1>9. ASSUME s \in row
      PROVE  Nearest(row, s) = s
  <2>1. Distance(s, s) = 0
    BY DEF Distance
  <2>2. Distance(Nearest(row, s), s) <= 0
    BY <1>8, <1>9, <2>1
  <2> DEFINE t0 == Nearest(row, s)
  <2>3. t0 \in Nat /\ Distance(t0, s) <= 0
    BY <1>8, <2>2
  <2> HIDE DEF t0
  <2>4. t0 = s
    BY <2>3 DEF Distance
  <2> QED
    BY <2>4 DEF t0
<1> QED
  BY <1>1, <1>8, <1>9, Zenon

(* The row taken for an entry is one of the rows, and the one it is in if  *)
(* there is any.                                                           *)
LEMMA RowOfIs ==
    ASSUME NEW rows, NEW n \in Nat \ {0}, DOMAIN rows = 1..n,
           \A k \in 1..n : rows[k] # {} /\ rows[k] \subseteq Nat,
           NEW s \in Nat
    PROVE  /\ RowOf(rows, s) \in 1..n
           /\ (\E k \in 1..n : s \in rows[k]) => s \in rows[RowOf(rows, s)]
<1> DEFINE Far(k) == Distance(Nearest(rows[k], s), s)
           D == {Far(k) : k \in 1..n}
           best == {k \in DOMAIN rows : \A j \in DOMAIN rows : Far(k) <= Far(j)}
<1>1. ASSUME NEW k \in 1..n
      PROVE  /\ Far(k) \in Nat /\ Nearest(rows[k], s) \in rows[k]
             /\ s \in rows[k] => Nearest(rows[k], s) = s
  BY NearestIs, Zenon
<1>2. RowOf(rows, s) = Min(best)
  BY Zenon DEF RowOf
<1>3. ASSUME NEW k \in 1..n, Far(k) = 0
      PROVE  s \in rows[k]
  <2> DEFINE t == Nearest(rows[k], s)
  <2>1. t \in rows[k] /\ t \in Nat /\ Distance(t, s) = 0
    BY <1>1, <1>3
  <2> HIDE DEF t
  <2>2. t = s
    BY <2>1 DEF Distance
  <2> QED
    BY <2>1, <2>2
<1>4. ASSUME NEW k \in 1..n, s \in rows[k]
      PROVE  Far(k) = 0
  <2>1. Nearest(rows[k], s) = s
    BY <1>1, <1>4
  <2>2. Distance(s, s) = 0
    BY DEF Distance
  <2> QED
    BY <2>1, <2>2
<1>5. 1 \in 1..n
  OBVIOUS
<1> HIDE DEF Far
<1>6. D \subseteq Nat /\ D # {}
  BY <1>1, <1>5
<1>7. PICK d \in D : \A c \in D : d <= c
  BY <1>6, LeastExists, Zenon
<1>8. PICK k \in 1..n : d = Far(k)
  OBVIOUS
<1>9. k \in best
  BY <1>7, <1>8
<1>10. best \subseteq Nat /\ best # {}
  <2>1. best \subseteq 1..n /\ best # {}
    BY <1>9
  <2> HIDE DEF best
  <2> QED
    BY <2>1
<1>11. RowOf(rows, s) \in best
  BY <1>2, <1>10, MinIs, Zenon
<1>12. RowOf(rows, s) \in 1..n /\ \A j \in 1..n : Far(RowOf(rows, s)) <= Far(j)
  BY <1>11
<1>13. ASSUME NEW j \in 1..n, s \in rows[j]
       PROVE  s \in rows[RowOf(rows, s)]
  <2>1. Far(RowOf(rows, s)) <= 0 /\ Far(RowOf(rows, s)) \in Nat
    <3>1. Far(j) = 0
      BY <1>4, <1>13
    <3> QED
      BY <1>1, <1>12, <3>1
  <2>2. Far(RowOf(rows, s)) = 0
    BY <2>1
  <2> QED
    BY <1>3, <1>12, <2>2
<1> QED
  BY <1>12, <1>13, Zenon

-----------------------------------------------------------------------------
(* Entries, rows and search of every reachable state.                      *)

TranscriptOK ==
    IsFiniteSet(DOMAIN full) /\ DOMAIN full \subseteq Nat \ {0} /\ raw \in BOOLEAN

Searches == [query : Queries \cup {"off"}, focused : BOOLEAN, matches : Seq(Nat), current : Nat]
SearchOK == search \in Searches /\ search.current <= LastIndex(search.matches)

SelectionOK == selection \in Nat /\ source \in Nat

ViewTypeOK == TranscriptOK /\ SearchOK /\ SelectionOK

LEMMA EntriesAre ==
    ASSUME TranscriptOK
    PROVE  /\ DOMAIN Entries \subseteq DOMAIN full
           /\ DOMAIN Entries \subseteq Nat \ {0}
           /\ IsFiniteSet(DOMAIN Entries)
<1>1. DOMAIN Entries \in SUBSET DOMAIN full
  BY DEF Entries
<1> QED
  BY <1>1, FS_Subset DEF TranscriptOK

LEMMA LastIndexIs ==
    ASSUME NEW T, NEW rows \in Seq(T)
    PROVE  LastIndex(rows) \in Nat /\ (rows # <<>> => LastIndex(rows) = Len(rows) - 1)
BY DEF LastIndex

(* The matches are indices of rows.                                        *)
LEMMA MatchingIs ==
    ASSUME NEW e, DOMAIN e \subseteq Nat, IsFiniteSet(DOMAIN e), NEW r \in BOOLEAN, NEW query
    PROVE  Matching(e, r, query) \in Seq(Nat)
<1> DEFINE rows == Rows(e, r)
           Hit(row) == \/ query = "word" /\ \E s \in row : e[s].kind \in Found
                       \/ query = "label" /\ Cardinality(row) > 1
           hits == {i \in 0..(Len(rows) - 1) : Hit(rows[i + 1])}
<1>1. Len(rows) \in Nat
  BY RowsAre
<1>2. Matching(e, r, query) = Sorted(hits)
  BY Zenon DEF Matching
<1> HIDE DEF rows, Hit
<1>3. IsFiniteSet(0..(Len(rows) - 1))
  <2>1. Len(rows) - 1 \in Int
    BY <1>1
  <2> QED
    BY <2>1, FS_Interval
<1>4. hits \in SUBSET (0..(Len(rows) - 1))
  OBVIOUS
<1>5. hits \subseteq Nat
  BY <1>1
<1> HIDE DEF hits
<1>6. IsFiniteSet(hits)
  BY <1>3, <1>4, FS_Subset
<1>7. Cardinality(hits) \in Nat /\ Sorted(hits) \in [1..Cardinality(hits) -> hits]
  BY <1>5, <1>6, SortedIs, Zenon
<1>8. Sorted(hits) \in [1..Cardinality(hits) -> Nat]
  BY <1>5, <1>7
<1> QED
  BY <1>2, <1>7, <1>8, SequenceIs, Zenon

(* No text is searched for, nothing is found.                              *)
LEMMA NoneMatch == \A e, r : Matching(e, r, "empty") = <<>>
<1>1. \A e, r : {i \in 0..(Len(Rows(e, r)) - 1) :
                    \/ "empty" = "word" /\ \E s \in Rows(e, r)[i + 1] : e[s].kind \in Found
                    \/ "empty" = "label" /\ Cardinality(Rows(e, r)[i + 1]) > 1} = {}
  OBVIOUS
<1> QED
  BY <1>1, SortedOfNone, Zenon DEF Matching

(* What recompute_search leaves: the matches of the rows there are now,    *)
(* and a place among them.                                                 *)
LEMMA RecomputedIs ==
    ASSUME NEW s, NEW e, DOMAIN e \subseteq Nat, IsFiniteSet(DOMAIN e), NEW r \in BOOLEAN,
           s \in Searches
    PROVE  /\ Recomputed(s, e, r) \in Searches
           /\ Recomputed(s, e, r).current <= LastIndex(Recomputed(s, e, r).matches)
           /\ Recomputed(s, e, r) # NoSearch =>
                Recomputed(s, e, r).matches = Matching(e, r, Recomputed(s, e, r).query)
<1> DEFINE q == Recomputed(s, e, r)
           matches == Matching(e, r, s.query)
           current == IF matches = <<>> THEN 0 ELSE Min({s.current, Len(matches) - 1})
<1>1. matches \in Seq(Nat)
  BY MatchingIs
<1> HIDE DEF matches, q
<1>2. current \in Nat /\ current <= LastIndex(matches)
  <2>1. CASE matches = <<>>
    BY <2>1, <1>1 DEF LastIndex
  <2>2. CASE matches # <<>>
    <3>1. Len(matches) - 1 \in Nat /\ s.current \in Nat
      BY <2>2, <1>1 DEF Searches
    <3>2. LastIndex(matches) = Len(matches) - 1
      BY <2>2 DEF LastIndex
    <3> HIDE DEF Min
    <3> QED
      BY <2>2, <3>1, <3>2, MinOfTwo
  <2> QED
    BY <2>1, <2>2
<1>3. CASE s = NoSearch
  <2>1. q = NoSearch
    BY <1>3 DEF Recomputed, q
  <2>2. NoSearch.current = 0 /\ NoSearch.matches = <<>>
    BY DEF NoSearch
  <2> QED
    BY <1>3, <2>1, <2>2 DEF LastIndex, q
<1>4. CASE s # NoSearch
  <2>1. q = [s EXCEPT !.matches = matches, !.current = current]
    BY <1>4, Zenon DEF Recomputed, matches, q
  <2> HIDE DEF current
  <2>2. /\ q \in Searches
        /\ q.query = s.query /\ q.matches = matches /\ q.current = current
    BY <2>1, <1>1, <1>2 DEF Searches
  <2>3. matches = Matching(e, r, q.query)
    BY <2>2 DEF matches
  <2> QED
    BY <1>2, <2>2, <2>3 DEF q
<1> QED
  BY <1>3, <1>4

LEMMA EntriesArePrimed ==
    ASSUME TranscriptOK'
    PROVE  /\ DOMAIN Entries' \subseteq DOMAIN full'
           /\ DOMAIN Entries' \subseteq Nat \ {0} /\ DOMAIN Entries' \subseteq Nat
           /\ IsFiniteSet(DOMAIN Entries')
           /\ raw' \in BOOLEAN
<1>1. DOMAIN Entries' \in SUBSET DOMAIN full'
  BY DEF Entries
<1> QED
  BY <1>1, FS_Subset DEF TranscriptOK

(* Search and cache are as the rows are now.                               *)
Current ==
    /\ search # NoSearch => search.matches = Matching(Entries, raw, search.query)
    /\ cache = Keys(Entries, raw, expanded)

LEMMA RedrawnKeeps ==
    ASSUME SearchOK, TranscriptOK', Redrawn
    PROVE  SearchOK' /\ Current'
<1>1. search' = Recomputed(search, Entries', raw')
  BY DEF Redrawn
<1>2. /\ search' \in Searches
      /\ search'.current <= LastIndex(search'.matches)
      /\ search' # NoSearch => search'.matches = Matching(Entries', raw', search'.query)
  BY <1>1, EntriesArePrimed, RecomputedIs, Zenon DEF SearchOK
<1>3. SearchOK'
  BY <1>2 DEF SearchOK
<1> QED
  BY <1>2, <1>3 DEF Current, Redrawn

LEMMA LastRow ==
    ASSUME TranscriptOK', NEW r \in BOOLEAN
    PROVE  LastIndex(Rows(Entries', r)) \in Nat
<1>1. Rows(Entries', r) \in Seq(SUBSET DOMAIN Entries')
  BY EntriesArePrimed, RowsAre, Zenon
<1> QED
  BY <1>1, LastIndexIs, Zenon

(* The selected row is made of entries, and the anchor is one of them.     *)
LEMMA AnchorIs ==
    ASSUME ViewTypeOK
    PROVE  /\ Selected \subseteq DOMAIN Entries
           /\ Anchor(Rows(Entries, raw)) \in Nat
           /\ Selected = {} => Anchor(Rows(Entries, raw)) = 0
           /\ Selected # {} => Anchor(Rows(Entries, raw)) \in Selected \ {0}
<1>1. /\ DOMAIN Entries \subseteq Nat \ {0} /\ DOMAIN Entries \subseteq Nat
      /\ IsFiniteSet(DOMAIN Entries) /\ raw \in BOOLEAN
  BY EntriesAre DEF ViewTypeOK, TranscriptOK
<1> DEFINE rows == Rows(Entries, raw)
<1>2. /\ Len(rows) \in Nat /\ DOMAIN rows = 1..Len(rows)
      /\ \A k \in DOMAIN rows : rows[k] # {} /\ rows[k] \subseteq DOMAIN Entries
  BY <1>1, RowsAre, Zenon
<1>3. Selected = RowAt(rows, selection)
  BY DEF Selected
<1>4. Anchor(rows) = IF source \in Selected THEN source
                     ELSE IF Selected = {} THEN 0 ELSE Min(Selected)
  BY <1>3, Zenon DEF Anchor
<1> HIDE DEF rows
<1>5. selection < Len(rows) => selection + 1 \in DOMAIN rows
  BY <1>2 DEF ViewTypeOK, SelectionOK
<1>6. Selected \subseteq DOMAIN Entries
  BY <1>2, <1>3, <1>5 DEF RowAt
<1>7. Selected # {} => Min(Selected) \in Selected
  <2>1. Selected \subseteq Nat
    BY <1>1, <1>6
  <2> QED
    BY <2>1, MinIs, Zenon
<1>8. source \in Nat
  BY DEF ViewTypeOK, SelectionOK
<1>9. Selected # {} => Anchor(rows) \in Selected
  BY <1>4, <1>7
<1>10. Selected = {} => Anchor(rows) = 0
  BY <1>4
<1>11. Anchor(rows) \in Nat /\ (Selected # {} => Anchor(rows) # 0)
  BY <1>1, <1>6, <1>9, <1>10
<1> QED
  BY <1>6, <1>9, <1>10, <1>11 DEF rows

(* Remapped to an entry, selection and anchor are in a row, and the anchor *)
(* is that entry if the client still has it (keys.rs:437, stream.rs:224).  *)
LEMMA Remapped ==
    ASSUME TranscriptOK', NEW r \in BOOLEAN, NEW a \in Nat,
           Rows(Entries', r) # <<>>
    PROVE  /\ RowOf(Rows(Entries', r), a) - 1 \in Nat
           /\ Nearest(Rows(Entries', r)[RowOf(Rows(Entries', r), a)], a) \in Nat
           /\ a \in DOMAIN Entries' =>
                /\ a \in RowAt(Rows(Entries', r), RowOf(Rows(Entries', r), a) - 1)
                /\ Nearest(Rows(Entries', r)[RowOf(Rows(Entries', r), a)], a) = a
<1> DEFINE rows == Rows(Entries', r)
           k == RowOf(rows, a)
<1>1. /\ rows \in Seq(SUBSET DOMAIN Entries')
      /\ Len(rows) \in Nat /\ DOMAIN rows = 1..Len(rows)
      /\ \A j \in DOMAIN rows : rows[j] # {} /\ rows[j] \subseteq DOMAIN Entries'
      /\ \A s \in DOMAIN Entries' : \E j \in DOMAIN rows : s \in rows[j]
  BY EntriesArePrimed, RowsAre, Zenon
<1>2. DOMAIN Entries' \subseteq Nat
  BY EntriesArePrimed
<1> HIDE DEF rows
<1>3. Len(rows) \in Nat \ {0}
  BY <1>1 DEF rows
<1>4. \A j \in 1..Len(rows) : rows[j] # {} /\ rows[j] \subseteq Nat
  BY <1>1, <1>2
<1>5. /\ k \in 1..Len(rows)
      /\ (\E j \in 1..Len(rows) : a \in rows[j]) => a \in rows[k]
  BY <1>1, <1>3, <1>4, RowOfIs, Zenon
<1> HIDE DEF k
<1>6. rows[k] # {} /\ rows[k] \subseteq Nat
  BY <1>4, <1>5
<1>7. Nearest(rows[k], a) \in rows[k] /\ (a \in rows[k] => Nearest(rows[k], a) = a)
  BY <1>6, NearestIs, Zenon
<1>8. k - 1 \in Nat /\ k - 1 < Len(rows) /\ (k - 1) + 1 = k
  BY <1>3, <1>5
<1>9. RowAt(rows, k - 1) = rows[k]
  BY <1>8, Zenon DEF RowAt
<1>10. a \in DOMAIN Entries' => a \in rows[k]
  BY <1>1, <1>5, Zenon
<1>11. Nearest(rows[k], a) \in Nat
  BY <1>6, <1>7
<1> QED
  BY <1>7, <1>8, <1>9, <1>10, <1>11, Zenon DEF rows, k

LEMMA CoveredRows ==
    ASSUME TranscriptOK', NEW r \in BOOLEAN, DOMAIN Entries' # {}
    PROVE  Rows(Entries', r) # <<>>
<1>1. /\ Len(Rows(Entries', r)) \in Nat
      /\ DOMAIN Rows(Entries', r) = 1..Len(Rows(Entries', r))
      /\ \A s \in DOMAIN Entries' : \E j \in DOMAIN Rows(Entries', r) : s \in Rows(Entries', r)[j]
  BY EntriesArePrimed, RowsAre, Zenon
<1> QED
  BY <1>1

-----------------------------------------------------------------------------
(* The steps, by what they touch.                                          *)

LEMMA PageKeeps == ASSUME ViewTypeOK, PageArrives
                   PROVE  ViewTypeOK' /\ Current'
<1>1. TranscriptOK'
  BY DEF ViewTypeOK, TranscriptOK, PageArrives
<1>2. SearchOK' /\ Current'
  BY <1>1, RedrawnKeeps DEF ViewTypeOK, PageArrives
<1>3. SelectionOK'
  <2>1. LastIndex(Rows(Entries', raw)) \in Nat
    BY <1>1, LastRow DEF ViewTypeOK, TranscriptOK
  <2> QED
    BY <2>1 DEF ViewTypeOK, SelectionOK, PageArrives
<1> QED
  BY <1>1, <1>2, <1>3 DEF ViewTypeOK

LEMMA DeltaKeeps ==
    ASSUME ViewTypeOK, NEW s \in 1..MaxSequence, NEW kind \in Kinds, DeltaArrives(s, kind)
    PROVE  ViewTypeOK' /\ Current'
<1>1. TranscriptOK'
  <2>1. DOMAIN full' = DOMAIN full \cup {s}
    BY DEF DeltaArrives
  <2>2. IsFiniteSet(DOMAIN full')
    BY <2>1, FS_AddElement DEF ViewTypeOK, TranscriptOK
  <2>3. s \in Nat \ {0}
    BY ViewAssumption
  <2> QED
    BY <2>1, <2>2, <2>3 DEF ViewTypeOK, TranscriptOK, DeltaArrives
<1>2. SearchOK' /\ Current'
  BY <1>1, RedrawnKeeps DEF ViewTypeOK, DeltaArrives
<1>3. SelectionOK'
  <2>1. LastIndex(Rows(Entries', raw)) \in Nat
    BY <1>1, LastRow DEF ViewTypeOK, TranscriptOK
  <2> QED
    BY <2>1 DEF ViewTypeOK, SelectionOK, DeltaArrives
<1> QED
  BY <1>1, <1>2, <1>3 DEF ViewTypeOK

LEMMA SnapshotKeeps ==
    ASSUME ViewTypeOK, NEW kept \in SUBSET DOMAIN full, SnapshotArrives(kept)
    PROVE  ViewTypeOK' /\ Current'
<1>1. TranscriptOK'
  <2>1. DOMAIN full' = kept /\ raw' = raw
    BY DEF SnapshotArrives
  <2>2. IsFiniteSet(kept)
    BY FS_Subset DEF ViewTypeOK, TranscriptOK
  <2> QED
    BY <2>1, <2>2 DEF ViewTypeOK, TranscriptOK
<1>2. SearchOK' /\ Current'
  BY <1>1, RedrawnKeeps DEF ViewTypeOK, SnapshotArrives
<1>3. SelectionOK'
  <2> DEFINE a == Anchor(Rows(Entries, raw))
             rows == Rows(Entries', raw)
  <2>1. \/ selection' = LastIndex(rows) /\ source' = source
        \/ selection' = selection /\ source' = source
        \/ selection' = 0 /\ source' = 0
        \/ /\ rows # <<>> /\ selection' = RowOf(rows, a) - 1
           /\ source' = Nearest(rows[RowOf(rows, a)], a)
    BY Zenon DEF SnapshotArrives
  <2>2. a \in Nat
    BY AnchorIs
  <2>3. raw \in BOOLEAN /\ selection \in Nat /\ source \in Nat
    BY DEF ViewTypeOK, TranscriptOK, SelectionOK
  <2>4. LastIndex(rows) \in Nat
    BY <1>1, <2>3, LastRow
  <2>5. rows # <<>> => RowOf(rows, a) - 1 \in Nat /\ Nearest(rows[RowOf(rows, a)], a) \in Nat
    BY <1>1, <2>2, <2>3, Remapped, Zenon
  <2> HIDE DEF a, rows
  <2>6. selection' \in Nat /\ source' \in Nat
    BY <2>1, <2>3, <2>4, <2>5
  <2> QED
    BY <2>6 DEF SelectionOK
<1> QED
  BY <1>1, <1>2, <1>3 DEF ViewTypeOK

LEMMA DebugKeeps == ASSUME ViewTypeOK, ToggleDebug
                    PROVE  ViewTypeOK' /\ Current'
<1>1. TranscriptOK' /\ (~raw) \in BOOLEAN
  <2>1. full' = full /\ raw' = ~raw
    BY DEF ToggleDebug
  <2>2. (~raw) \in BOOLEAN
    OBVIOUS
  <2> QED
    BY <2>1, <2>2 DEF ViewTypeOK, TranscriptOK
<1>2. SearchOK' /\ Current'
  BY <1>1, RedrawnKeeps DEF ViewTypeOK, ToggleDebug
<1>3. Entries' = Entries
  BY DEF ToggleDebug, Entries
<1>4. SelectionOK'
  <2> DEFINE a == Anchor(Rows(Entries, raw))
             rows == Rows(Entries', ~raw)
  <2>1. /\ source' = a
        /\ selection' = IF a # 0 THEN RowOf(rows, a) - 1 ELSE Min({selection, LastIndex(rows)})
    BY <1>3, Zenon DEF ToggleDebug
  <2>2. a \in Nat /\ (a # 0 => a \in DOMAIN Entries)
    BY AnchorIs, Zenon
  <2>3. a # 0 => rows # <<>>
    BY <1>1, <1>3, <2>2, CoveredRows
  <2>4. rows # <<>> => RowOf(rows, a) - 1 \in Nat
    BY <1>1, <2>2, Remapped, Zenon
  <2>5. LastIndex(rows) \in Nat /\ selection \in Nat
    BY <1>1, LastRow DEF ViewTypeOK, SelectionOK
  <2>6. Min({selection, LastIndex(rows)}) \in Nat
    BY <2>5, MinOfTwo, Zenon
  <2> HIDE DEF a, rows
  <2>7. selection' \in Nat /\ source' \in Nat
    BY <2>1, <2>2, <2>3, <2>4, <2>6
  <2> QED
    BY <2>7 DEF SelectionOK
<1> QED
  BY <1>1, <1>2, <1>4 DEF ViewTypeOK

(* A key that moves the selection leaves the rows as they are.             *)
LEMMA Moved ==
    ASSUME ViewTypeOK, Current, UNCHANGED <<full, low, raw, expanded, search, cache>>
    PROVE  TranscriptOK' /\ SearchOK' /\ Current'
BY DEF ViewTypeOK, TranscriptOK, SearchOK, Current, Entries

LEMMA LastRowNow ==
    ASSUME ViewTypeOK
    PROVE  LastIndex(Rows(Entries, raw)) \in Nat
<1>1. Rows(Entries, raw) \in Seq(SUBSET DOMAIN Entries)
  <2>1. DOMAIN Entries \subseteq Nat /\ IsFiniteSet(DOMAIN Entries) /\ raw \in BOOLEAN
    BY EntriesAre DEF ViewTypeOK, TranscriptOK
  <2> QED
    BY <2>1, RowsAre, Zenon
<1> QED
  BY <1>1, LastIndexIs, Zenon

LEMMA MovesKeep ==
    ASSUME ViewTypeOK, Current,
           \/ \E amount \in {1, Height} : MoveUp(amount)
           \/ MoveDown \/ PageDown
           \/ \E bottom \in BOOLEAN : Jump(bottom)
    PROVE  ViewTypeOK' /\ Current'
<1>1. LastIndex(Rows(Entries, raw)) \in Nat /\ selection \in Nat /\ source \in Nat /\ Height \in Nat
  BY LastRowNow, ViewAssumption DEF ViewTypeOK, SelectionOK
<1>2. UNCHANGED <<full, low, raw, expanded, search, cache, source>>
  BY DEF MoveUp, MoveDown, PageDown, Jump
<1>3. selection' \in Nat
  <2> DEFINE last == LastIndex(Rows(Entries, raw))
  <2>1. ASSUME NEW amount \in {1, Height}, MoveUp(amount)
        PROVE  selection' \in Nat
    <3>1. selection' = selection \/ selection' = Max({0, selection - amount})
      BY <2>1 DEF MoveUp
    <3>2. amount \in Nat
      BY <1>1
    <3> DEFINE b == selection - amount
    <3>3. b \in Int
      BY <1>1, <3>2
    <3> HIDE DEF b
    <3>4. Max({0, b}) = IF b > 0 THEN b ELSE 0
      BY <3>3 DEF Max
    <3>5. Max({0, b}) \in Nat
      BY <3>3, <3>4
    <3> QED
      BY <1>1, <3>1, <3>5 DEF b
  <2>2. CASE MoveDown
    <3>1. selection' = Min({selection + 1, last})
      BY <2>2 DEF MoveDown
    <3>2. selection + 1 \in Nat /\ last \in Nat
      BY <1>1
    <3> QED
      BY <3>1, <3>2, MinOfTwo, Zenon
  <2>3. CASE PageDown
    <3>1. selection' = Min({selection + Height, last})
      BY <2>3 DEF PageDown
    <3>2. selection + Height \in Nat /\ last \in Nat
      BY <1>1
    <3> QED
      BY <3>1, <3>2, MinOfTwo, Zenon
  <2>4. ASSUME NEW bottom \in BOOLEAN, Jump(bottom)
        PROVE  selection' \in Nat
    <3>1. selection' = last \/ selection' = 0
      BY <2>4 DEF Jump
    <3> QED
      BY <1>1, <3>1
  <2> QED
    BY <2>1, <2>2, <2>3, <2>4
<1>4. SelectionOK'
  BY <1>1, <1>2, <1>3 DEF SelectionOK
<1> QED
  BY <1>2, <1>4, Moved DEF ViewTypeOK

LEMMA UnfoldKeeps == ASSUME ViewTypeOK, Current, Unfold
                     PROVE  ViewTypeOK' /\ Current'
<1>1. Entries' = Entries /\ UNCHANGED <<full, raw, search, selection, source>>
  BY DEF Unfold, Entries, view
<1>2. TranscriptOK' /\ SearchOK' /\ SelectionOK'
  BY <1>1 DEF ViewTypeOK, TranscriptOK, SearchOK, SelectionOK
<1>3. Current'
  BY <1>1 DEF Current, Unfold
<1> QED
  BY <1>2, <1>3 DEF ViewTypeOK

LEMMA DecideKeeps == ASSUME ViewTypeOK, Current, Decide
                     PROVE  ViewTypeOK' /\ Current'
<1>1. UNCHANGED <<full, low, raw, expanded, search, cache>> /\ UNCHANGED <<selection, source>>
  BY DEF Decide, view
<1>2. SelectionOK'
  BY <1>1 DEF ViewTypeOK, SelectionOK
<1> QED
  BY <1>1, <1>2, Moved DEF ViewTypeOK

LEMMA SearchKeepsRows ==
    ASSUME ViewTypeOK, Current, UNCHANGED <<full, low, raw, expanded, cache>>,
           SearchOK', SelectionOK',
           search' # NoSearch => search'.matches = Matching(Entries, raw, search'.query)
    PROVE  ViewTypeOK' /\ Current'
<1>1. Entries' = Entries
  BY DEF Entries
<1>2. TranscriptOK'
  BY DEF ViewTypeOK, TranscriptOK
<1>3. Current'
  BY <1>1 DEF Current
<1> QED
  BY <1>2, <1>3 DEF ViewTypeOK

LEMMA OpeningKeeps ==
    ASSUME ViewTypeOK, Current, OpenSearch \/ LeaveSearch
    PROVE  ViewTypeOK' /\ Current'
<1>1. UNCHANGED <<full, low, raw, expanded, cache>> /\ UNCHANGED <<selection, source>>
  BY DEF OpenSearch, LeaveSearch, view
<1>2. search' \in {NoSearch, NewSearch}
  BY DEF OpenSearch, LeaveSearch
<1>3. <<>> \in Seq(Nat) /\ LastIndex(<<>>) = 0
  BY DEF LastIndex
<1>4. SearchOK'
  <2>1. NoSearch \in Searches /\ NewSearch \in Searches
    BY <1>3 DEF Searches, NoSearch, NewSearch, Queries
  <2>2. NoSearch.matches = <<>> /\ NoSearch.current = 0
        /\ NewSearch.matches = <<>> /\ NewSearch.current = 0
    BY DEF NoSearch, NewSearch
  <2> QED
    BY <1>2, <1>3, <2>1, <2>2 DEF SearchOK
<1>5. SelectionOK'
  BY <1>1 DEF ViewTypeOK, SelectionOK
<1>6. search' # NoSearch => search'.matches = Matching(Entries, raw, search'.query)
  <2>1. NewSearch.matches = <<>> /\ NewSearch.query = "empty"
    BY DEF NewSearch, NoSearch
  <2>2. Matching(Entries, raw, "empty") = <<>>
    BY NoneMatch, Zenon
  <2> QED
    BY <1>2, <2>1, <2>2
<1> QED
  BY <1>1, <1>4, <1>5, <1>6, SearchKeepsRows

LEMMA TypeKeeps ==
    ASSUME ViewTypeOK, Current, NEW query \in Queries, Type(query)
    PROVE  ViewTypeOK' /\ Current'
<1>1. UNCHANGED <<full, low, raw, expanded, cache>> /\ UNCHANGED <<selection, source>>
  BY DEF Type, view
<1> DEFINE s == [search EXCEPT !.query = query]
<1>2. s \in Searches
  BY DEF ViewTypeOK, SearchOK, Searches
<1>3. DOMAIN Entries \subseteq Nat /\ IsFiniteSet(DOMAIN Entries) /\ raw \in BOOLEAN
  BY EntriesAre DEF ViewTypeOK, TranscriptOK
<1>4. search' = Recomputed(s, Entries, raw)
  BY DEF Type
<1> HIDE DEF s
<1>5. /\ search' \in Searches
      /\ search'.current <= LastIndex(search'.matches)
      /\ search' # NoSearch => search'.matches = Matching(Entries, raw, search'.query)
  BY <1>2, <1>3, <1>4, RecomputedIs, Zenon
<1>6. SearchOK' /\ SelectionOK'
  BY <1>1, <1>5 DEF ViewTypeOK, SearchOK, SelectionOK
<1> QED
  BY <1>1, <1>5, <1>6, SearchKeepsRows

(* A match that is gone to is one of the matches.                          *)
LEMMA GoingKeeps ==
    ASSUME ViewTypeOK, Current, search # NoSearch, UNCHANGED <<full, low, raw, expanded, cache>>,
           NEW n \in 0..(Len(search.matches) - 1), NEW f \in BOOLEAN,
           search' = [search EXCEPT !.focused = f, !.current = n],
           selection' = search.matches[n + 1], source' = source
    PROVE  ViewTypeOK' /\ Current'
<1>1. search \in Searches /\ search.matches \in Seq(Nat) /\ search.current \in Nat
  BY DEF ViewTypeOK, SearchOK, Searches
<1>2. n \in Nat /\ n + 1 \in 1..Len(search.matches) /\ n <= Len(search.matches) - 1
  BY <1>1
<1>3. selection' \in Nat
  BY <1>1, <1>2
<1>4. /\ search'.matches = search.matches /\ search'.query = search.query
      /\ search'.current = n
      /\ search' \in Searches
  BY <1>1, <1>2 DEF Searches
<1>5. search.matches # <<>>
  BY <1>1, <1>2
<1>6. LastIndex(search.matches) = Len(search.matches) - 1
  BY <1>5 DEF LastIndex
<1>7. SearchOK'
  BY <1>2, <1>4, <1>6 DEF SearchOK
<1>8. SelectionOK'
  BY <1>3 DEF ViewTypeOK, SelectionOK
<1>9. search' # NoSearch => search'.matches = Matching(Entries, raw, search'.query)
  BY <1>4 DEF Current
<1> QED
  BY <1>7, <1>8, <1>9, SearchKeepsRows

LEMMA ConfirmKeeps == ASSUME ViewTypeOK, Current, ConfirmSearch
                      PROVE  ViewTypeOK' /\ Current'
<1> DEFINE matches == search.matches
           onwards == {k \in DOMAIN matches : matches[k] >= selection}
           k == IF onwards = {} THEN 1 ELSE Min(onwards)
<1>1. search \in Searches /\ search.matches \in Seq(Nat) /\ search.current \in Nat
  BY DEF ViewTypeOK, SearchOK, Searches
<1>2. search # NoSearch /\ UNCHANGED <<full, low, raw, expanded, cache>> /\ source' = source
  BY DEF ConfirmSearch
<1>3. CASE matches = <<>>
  <2>1. search' = [search EXCEPT !.focused = FALSE] /\ selection' = selection
    BY <1>3 DEF ConfirmSearch
  <2>2. /\ search'.matches = search.matches /\ search'.query = search.query
        /\ search'.current = search.current
        /\ search' \in Searches
    BY <1>1, <2>1 DEF Searches
  <2>3. SearchOK' /\ SelectionOK'
    BY <1>2, <2>1, <2>2 DEF ViewTypeOK, SearchOK, SelectionOK
  <2>4. search' # NoSearch => search'.matches = Matching(Entries, raw, search'.query)
    BY <1>2, <2>2 DEF Current
  <2> QED
    BY <1>2, <2>3, <2>4, SearchKeepsRows
<1>4. CASE matches # <<>>
  <2>1. /\ search' = [search EXCEPT !.focused = FALSE, !.current = k - 1]
        /\ selection' = matches[k]
    BY <1>4, Zenon DEF ConfirmSearch
  <2>2. k \in 1..Len(matches)
    <3>1. DOMAIN matches = 1..Len(matches) /\ Len(matches) \in Nat /\ 1 \in 1..Len(matches)
      BY <1>1, <1>4
    <3>2. onwards \subseteq 1..Len(matches)
      BY <3>1
    <3>3. onwards \subseteq Nat
      BY <3>1, <3>2
    <3> HIDE DEF onwards, matches
    <3>4. onwards # {} => Min(onwards) \in onwards
      BY <3>3, MinIs, Zenon
    <3> QED
      BY <3>1, <3>2, <3>4
  <2> HIDE DEF k
  <2>3. k - 1 \in 0..(Len(matches) - 1) /\ (k - 1) + 1 = k
    BY <1>1, <2>2
  <2> QED
    BY <1>2, <2>1, <2>3, GoingKeeps, Zenon
<1> QED
  BY <1>3, <1>4

LEMMA CycleKeeps ==
    ASSUME ViewTypeOK, Current, NEW forward \in BOOLEAN, CycleSearch(forward)
    PROVE  ViewTypeOK' /\ Current'
<1> DEFINE len == Len(search.matches)
           step == search.current + (IF forward THEN 1 ELSE len - 1)
           next == step % len
<1>1. search \in Searches /\ search.matches \in Seq(Nat) /\ search.current \in Nat
  BY DEF ViewTypeOK, SearchOK, Searches
<1>2. /\ search # NoSearch /\ search.matches # <<>> /\ ~search.focused
      /\ UNCHANGED <<full, low, raw, expanded, cache>> /\ source' = source
      /\ search' = [search EXCEPT !.current = next] /\ selection' = search.matches[next + 1]
  BY DEF CycleSearch
<1>3. len \in Nat \ {0}
  <2>1. search.matches # <<>>
    BY <1>2
  <2> QED
    BY <1>1, <2>1
<1> HIDE DEF len
<1>6. step \in Nat
  BY <1>1, <1>3
<1> HIDE DEF step
<1>4. next \in 0..(len - 1)
  BY <1>3, <1>6
<1> HIDE DEF next
<1>5. search' = [search EXCEPT !.focused = FALSE, !.current = next]
  BY <1>1, <1>2 DEF Searches
<1> QED
  BY <1>2, <1>4, <1>5, GoingKeeps, Zenon DEF len

LEMMA StutterKeeps ==
    ASSUME ViewTypeOK, Current, UNCHANGED viewVars
    PROVE  ViewTypeOK' /\ Current'
<1>1. UNCHANGED <<full, low, raw, expanded, search, cache>> /\ UNCHANGED <<selection, source>>
  BY DEF viewVars, view
<1>2. SelectionOK'
  BY <1>1 DEF ViewTypeOK, SelectionOK
<1> QED
  BY <1>1, <1>2, Moved DEF ViewTypeOK

LEMMA ViewStarts == ViewInit => ViewTypeOK /\ Current
<1> SUFFICES ASSUME ViewInit
             PROVE  ViewTypeOK /\ Current
  OBVIOUS
<1>1. DOMAIN full = 1..(PageSize + 1)
  BY DEF ViewInit
<1>2. PageSize \in Nat /\ MaxSequence \in Nat /\ PageSize < MaxSequence
  BY ViewAssumption
<1>3. TranscriptOK
  <2>1. IsFiniteSet(1..(PageSize + 1))
    BY <1>2, FS_Interval
  <2> QED
    <3>1. DOMAIN full \subseteq Nat \ {0}
      BY <1>1
    <3>2. raw = FALSE
      BY DEF ViewInit
    <3> QED
      BY <1>1, <2>1, <3>1, <3>2 DEF TranscriptOK
<1>4. SearchOK
  <2>1. <<>> \in Seq(Nat) /\ LastIndex(<<>>) = 0
    BY DEF LastIndex
  <2> QED
    BY <2>1 DEF ViewInit, SearchOK, Searches, NoSearch
<1>5. DOMAIN Entries = {}
  BY <1>1, <1>2 DEF Entries, ViewInit
<1>6. Keys(Entries, raw, expanded) = <<>>
  <2>1. Keys(Entries, raw, expanded) \in [{} -> {}]
    BY <1>5 DEF Keys
  <2>2. 1..0 = {}
    OBVIOUS
  <2>3. Keys(Entries, raw, expanded) \in [1..0 -> {}]
    BY <2>1, <2>2, Zenon
  <2>4. Keys(Entries, raw, expanded) \in Seq({}) /\ Len(Keys(Entries, raw, expanded)) = 0
    BY <2>3, SequenceIs
  <2> QED
    BY <2>4
<1> QED
  BY <1>3, <1>4, <1>6 DEF ViewTypeOK, Current, SelectionOK, ViewInit

LEMMA ViewHolds == ViewSpec => [](ViewTypeOK /\ Current)
<1>1. ASSUME ViewTypeOK, Current, [ViewNext]_viewVars
      PROVE  ViewTypeOK' /\ Current'
  BY <1>1, PageKeeps, DeltaKeeps, SnapshotKeeps, DebugKeeps, MovesKeep, UnfoldKeeps, DecideKeeps,
     OpeningKeeps, TypeKeeps, ConfirmKeeps, CycleKeeps, StutterKeeps, Zenon DEF ViewNext
<1> QED
  BY <1>1, ViewStarts, PTL DEF ViewSpec

(* Search and cache keep up with the rows, however pages, deltas,          *)
(* snapshots and debug mode regroup them (update::update, render_cache).   *)
THEOREM RowsStayCurrent == ViewSpec => []RowsAreCurrent
<1>1. ViewTypeOK /\ Current => RowsAreCurrent
  BY DEF ViewTypeOK, SearchOK, Current, RowsAreCurrent
<1> QED
  BY <1>1, ViewHolds, PTL

(* Who reads up in the transcript stays on the entry, whether debug mode   *)
(* regroups the rows or a snapshot replaces the entries                    *)
(* (stream::remap_selection, keys::detail_key on D).                       *)
THEOREM AnchorStays == ViewSpec => AnchorKept
<1>1. ASSUME ViewTypeOK, ViewTypeOK', [ViewNext]_viewVars,
             raw' # raw \/ (snapshots' # snapshots /\ ~follow),
             Selected # {}, Anchor(Rows(Entries, raw)) \in DOMAIN Entries'
      PROVE  Anchor(Rows(Entries, raw))' = Anchor(Rows(Entries, raw))
  <2> DEFINE a == Anchor(Rows(Entries, raw))
  <2>1. a \in Nat /\ a # 0 /\ a \in DOMAIN Entries'
    BY <1>1, AnchorIs
  <2>2. TranscriptOK' /\ raw' \in BOOLEAN
    BY <1>1 DEF ViewTypeOK, TranscriptOK
  <2> DEFINE rows == Rows(Entries', raw')
             k == RowOf(rows, a)
  <2>3. rows # <<>>
    BY <2>1, <2>2, CoveredRows
  <2>4. a \in RowAt(rows, k - 1) /\ Nearest(rows[k], a) = a
    BY <2>1, <2>2, <2>3, Remapped, Zenon
  <2>5. CASE ToggleDebug
    <3>1. Entries' = Entries /\ raw' = ~raw
      BY <2>5 DEF ToggleDebug, Entries
    <3>2. source' = a /\ selection' = k - 1
      BY <2>1, <2>5, <3>1, Zenon DEF ToggleDebug
    <3> QED
      BY <2>4, <3>2, Zenon DEF Anchor
  <2>6. ASSUME NEW kept \in SUBSET DOMAIN full, SnapshotArrives(kept)
        PROVE  a' = a
    <3>1. raw' = raw
      BY <2>6 DEF SnapshotArrives
    <3>2. ~follow
      BY <1>1, <3>1
    <3>3. selection' = k - 1 /\ source' = Nearest(rows[k], a)
      BY <2>1, <2>3, <2>6, <3>1, <3>2, Zenon DEF SnapshotArrives
    <3> QED
      BY <2>4, <3>3, Zenon DEF Anchor
  <2>7. ToggleDebug \/ \E kept \in SUBSET DOMAIN full : SnapshotArrives(kept)
    BY <1>1 DEF ViewNext, viewVars, PageArrives, DeltaArrives, MoveUp, MoveDown, PageDown, Jump,
                Unfold, Decide, OpenSearch, Type, ConfirmSearch, CycleSearch, LeaveSearch
  <2> QED
    BY <2>5, <2>6, <2>7
<1>2. ViewTypeOK /\ ViewTypeOK' /\ [ViewNext]_viewVars
      => [/\ raw' # raw \/ (snapshots' # snapshots /\ ~follow)
          /\ Selected # {}
          /\ Anchor(Rows(Entries, raw)) \in DOMAIN Entries'
          => Anchor(Rows(Entries, raw))' = Anchor(Rows(Entries, raw))]_viewVars
  BY <1>1
<1> QED
  BY <1>2, ViewHolds, PTL DEF ViewSpec, AnchorKept

=============================================================================
