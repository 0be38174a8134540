------------------------- MODULE RunTimelineProofs -------------------------
(***************************************************************************)
(* Proofs about RunTimeline, for any kinds of events and any bounds.       *)
(***************************************************************************)
EXTENDS RunTimeline, TLAPS

Readable == {n \in DOMAIN log : log[n] # "garbled"}

Messages == [kind: {"event", "lost", "reconnected", "fatal"}, seq: 0..MaxEvents]
Engines == [phase: Phases, own: 0..MaxEvents, source: 0..MaxEvents,
            next: 0..MaxEvents, reconnecting: BOOLEAN]

(* The parts of TypeOK, each about what changes together; of the queue it  *)
(* does not say that an event in it stands in the daemon's log and can be  *)
(* read, and that nothing else there has a number.                         *)
LogOK == log \in Seq(Kinds) /\ Len(log) <= MaxEvents
EngineOK == engine \in Engines /\ watch \in 0..MaxEvents /\ cursor \in 0..MaxEvents
QueueOK ==
    /\ inbox \in Seq(Messages)
    /\ \A i \in DOMAIN inbox :
          /\ inbox[i].kind = "event" => inbox[i].seq \in Readable
          /\ inbox[i].kind # "event" => inbox[i].seq = 0
PanelOK ==
    /\ screen \in BOOLEAN /\ run \in Statuses \cup {"none"}
    /\ selection \in Nat /\ confirm \in BOOLEAN
    /\ active \in BOOLEAN /\ live \in BOOLEAN
NumbersOK == shown \subseteq DOMAIN log /\ seen \subseteq DOMAIN log /\ missed \subseteq DOMAIN log
CountsOK ==
    /\ reads \in [Statuses -> Nat] /\ posts \in Nat
    /\ opens \in 0..MaxOpens /\ breaks \in 0..MaxBreaks /\ crossed \in BOOLEAN

Typed == LogOK /\ EngineOK /\ QueueOK /\ PanelOK /\ NumbersOK /\ CountsOK

LEMMA TypedIsTypeOK == Typed => TypeOK
<1> SUFFICES ASSUME Typed PROVE TypeOK
  OBVIOUS
<1>1. log \in Seq(Kinds) /\ Len(log) <= MaxEvents /\ DOMAIN log = 1..Len(log)
  BY DEF Typed, LogOK
<1>2. /\ engine \in Engines /\ watch \in 0..MaxEvents /\ cursor \in 0..MaxEvents
      /\ inbox \in Seq(Messages)
  BY DEF Typed, EngineOK, QueueOK
<1>3. PanelOK /\ CountsOK /\ NumbersOK
  BY DEF Typed
<1> QED
  BY <1>1, <1>2, <1>3 DEF TypeOK, Engines, Messages, PanelOK, CountsOK, NumbersOK

LEMMA Bounds ==
    /\ MaxEvents \in Nat /\ MaxBreaks \in Nat /\ MaxOpens \in Nat
    /\ MaxInbox \in Nat /\ MaxReads \in Nat /\ Outputs \in Nat
BY BoundsAssumption

(* A part stays as it is with the variables it is about.                   *)
LEMMA Frames ==
    ASSUME Typed
    PROVE  /\ UNCHANGED log => LogOK'
           /\ UNCHANGED <<engine, watch, cursor>> => EngineOK'
           /\ UNCHANGED <<log, inbox>> => QueueOK'
           /\ UNCHANGED <<screen, run, selection, confirm, active, live>> => PanelOK'
           /\ UNCHANGED <<log, shown, seen, missed>> => NumbersOK'
           /\ UNCHANGED <<reads, posts, opens, breaks, crossed>> => CountsOK'
BY DEF Typed, LogOK, EngineOK, QueueOK, Readable, PanelOK, NumbersOK, CountsOK

(* What is sent goes to the end of the queue.                              *)
LEMMA ReportQueued ==
    ASSUME Typed, NEW kind \in {"lost", "reconnected", "fatal"},
           log' = log,
           inbox' = inbox \o <<>> \/ inbox' = inbox \o <<Report(kind)>>
    PROVE  QueueOK'
<1>1. inbox \in Seq(Messages)
  BY DEF Typed, QueueOK
<1>2. Report(kind) \in Messages /\ Report(kind).kind # "event" /\ Report(kind).seq = 0
  BY Bounds DEF Report, Messages
<1>3. CASE inbox' = inbox \o <<>>
  <2>1. inbox' = inbox
    BY <1>1, <1>3
  <2> QED
    BY <2>1, Frames
<1>4. CASE inbox' = inbox \o <<Report(kind)>>
  <2>1. inbox' = Append(inbox, Report(kind))
    BY <1>1, <1>2, <1>4
  <2>2. inbox' \in Seq(Messages)
    BY <1>1, <1>2, <2>1
  <2>3. \A i \in DOMAIN inbox' : \/ i \in DOMAIN inbox /\ inbox'[i] = inbox[i]
                                 \/ inbox'[i] = Report(kind)
    BY <1>1, <1>2, <2>1
  <2> QED
    BY <1>2, <2>2, <2>3 DEF Typed, QueueOK, Readable
<1> QED
  BY <1>3, <1>4

LEMMA EventQueued ==
    ASSUME Typed, NEW n \in Readable, log' = log, inbox' = inbox \o <<Event(n)>>
    PROVE  QueueOK'
<1>1. inbox \in Seq(Messages)
  BY DEF Typed, QueueOK
<1>2. Event(n) \in Messages /\ Event(n).kind = "event" /\ Event(n).seq = n
  <2>1. n \in 1..Len(log) /\ Len(log) \in Nat /\ Len(log) <= MaxEvents
    BY DEF Readable, Typed, LogOK
  <2> QED
    BY <2>1, Bounds DEF Event, Messages
<1>3. inbox' = Append(inbox, Event(n))
  BY <1>1, <1>2
<1>4. inbox' \in Seq(Messages)
  BY <1>1, <1>2, <1>3
<1>5. \A i \in DOMAIN inbox' : \/ i \in DOMAIN inbox /\ inbox'[i] = inbox[i]
                               \/ inbox'[i] = Event(n)
  BY <1>1, <1>2, <1>3
<1> QED
  BY <1>2, <1>4, <1>5 DEF Typed, QueueOK, Readable

(* What is taken is the first in the queue.                                *)
LEMMA MessageTaken ==
    ASSUME Typed, inbox # <<>>, inbox' = Tail(inbox), log' = log
    PROVE  /\ QueueOK'
           /\ Head(inbox) \in Messages
           /\ Head(inbox).kind = "event" => Head(inbox).seq \in Readable
           /\ Head(inbox).kind # "event" => Head(inbox).seq = 0
<1>1. inbox \in Seq(Messages)
  BY DEF Typed, QueueOK
<1>2. /\ inbox' \in Seq(Messages)
      /\ \A i \in DOMAIN inbox' : i + 1 \in DOMAIN inbox /\ inbox'[i] = inbox[i + 1]
      /\ 1 \in DOMAIN inbox /\ Head(inbox) = inbox[1] /\ Head(inbox) \in Messages
  BY <1>1
<1> QED
  BY <1>2 DEF Typed, QueueOK, Readable

LEMMA BreakCounted == Typed /\ Break => breaks' \in 0..MaxBreaks
BY Bounds DEF Break, Typed, CountsOK

-----------------------------------------------------------------------------
(* The daemon and the engine.                                              *)
LEMMA EngineTyped ==
    ASSUME Typed,
           \/ Produce \/ RunChecked \/ Accepted \/ \E final \in BOOLEAN : Refused(final)
           \/ ReadFrame \/ ConnectionLost \/ Retry \/ ForwardCursor
    PROVE  Typed'
<1> USE Bounds
<1>0. /\ log \in Seq(Kinds) /\ Len(log) \in Nat /\ Len(log) <= MaxEvents
      /\ DOMAIN log = 1..Len(log)
      /\ engine \in Engines /\ watch \in 0..MaxEvents /\ cursor \in 0..MaxEvents
  BY DEF Typed, LogOK, EngineOK
<1>1. CASE Produce
  <2>1. PICK k \in Kinds : log' = Append(log, k)
    BY <1>1 DEF Produce
  <2>2. /\ log' \in Seq(Kinds) /\ Len(log') = Len(log) + 1
        /\ \A n \in DOMAIN log : n \in DOMAIN log' /\ log'[n] = log[n]
    BY <1>0, <2>1
  <2>3. LogOK'
    BY <1>0, <1>1, <2>2 DEF Produce, LogOK
  <2>4. QueueOK'
    BY <1>1, <2>2 DEF Produce, Typed, QueueOK, Readable
  <2>5. NumbersOK'
    BY <1>1, <2>2 DEF Produce, Typed, NumbersOK, client, panel, history
  <2> QED
    BY <1>1, <2>3, <2>4, <2>5, Frames DEF Produce, Typed, client, panel, history
<1>2. CASE RunChecked
  <2>1. EngineOK'
    BY <1>0, <1>2 DEF RunChecked, EngineOK, Engines, Phases, client
  <2>2. QueueOK'
    <3>1. CASE UNCHANGED inbox
      BY <1>2, <3>1, Frames DEF RunChecked
    <3>2. CASE Send(<<Report("fatal")>>)
      BY <1>2, <3>2, ReportQueued DEF RunChecked, Send
    <3> QED
      BY <1>2, <3>1, <3>2 DEF RunChecked
  <2>3. CountsOK'
    <3>1. breaks' \in 0..MaxBreaks
      BY <1>2, BreakCounted DEF RunChecked, Typed, CountsOK
    <3> QED
      BY <1>2, <3>1 DEF RunChecked, Typed, CountsOK, client
  <2> QED
    BY <1>2, <2>1, <2>2, <2>3, Frames DEF RunChecked, Typed, client, panel
<1>3. CASE Accepted
  <2>1. EngineOK'
    BY <1>0, <1>3 DEF Accepted, Resume, EngineOK, Engines, Phases, client
  <2>2. QueueOK'
    BY <1>3, ReportQueued DEF Accepted, Send
  <2> QED
    BY <1>3, <2>1, <2>2, Frames DEF Accepted, Typed, client, panel, history
<1>4. ASSUME NEW final \in BOOLEAN, Refused(final) PROVE Typed'
  <2>1. EngineOK'
    BY <1>0, <1>4 DEF Refused, Resume, EngineOK, Engines, Phases, client
  <2>2. QueueOK'
    <3>1. CASE final
      BY <1>4, <3>1, ReportQueued DEF Refused, Send
    <3>2. CASE ~final
      BY <1>4, <3>2, ReportQueued DEF Refused, Send
    <3> QED
      BY <3>1, <3>2
  <2>3. CountsOK'
    BY <1>4, BreakCounted DEF Refused, Typed, CountsOK, client
  <2> QED
    BY <1>4, <2>1, <2>2, <2>3, Frames DEF Refused, Typed, client, panel
<1>5. CASE ReadFrame
  <2>1. engine.next + 1 \in DOMAIN log /\ engine.next + 1 \in 0..MaxEvents
    BY <1>0, <1>5 DEF ReadFrame, Engines
  <2>2. EngineOK'
    BY <1>0, <1>5, <2>1 DEF ReadFrame, EngineOK, Engines, client
  <2>3. QueueOK'
    <3>1. CASE log[engine.next + 1] = "garbled"
      BY <1>5, <3>1, ReportQueued DEF ReadFrame, Send
    <3>2. CASE log[engine.next + 1] # "garbled"
      <4>1. engine.next + 1 \in Readable
        BY <2>1, <3>2 DEF Readable
      <4> QED
        BY <1>5, <3>2, <4>1, EventQueued DEF ReadFrame, Send
    <3> QED
      BY <3>1, <3>2
  <2> QED
    BY <1>5, <2>2, <2>3, Frames DEF ReadFrame, Typed, client, panel, history
<1>6. CASE ConnectionLost
  <2>1. EngineOK'
    BY <1>0, <1>6 DEF ConnectionLost, EngineOK, Engines, Phases, client
  <2>2. QueueOK'
    BY <1>6, ReportQueued DEF ConnectionLost, Send
  <2>3. CountsOK'
    BY <1>6, BreakCounted DEF ConnectionLost, Typed, CountsOK, client
  <2> QED
    BY <1>6, <2>1, <2>2, <2>3, Frames DEF ConnectionLost, Typed, client, panel
<1>7. CASE Retry
  <2>1. EngineOK'
    BY <1>0, <1>7 DEF Retry, EngineOK, Engines, Phases, client
  <2> QED
    BY <1>7, <2>1, Frames DEF Retry, Typed, client, panel, history
<1>8. CASE ForwardCursor
  <2>1. EngineOK'
    BY <1>0, <1>8 DEF ForwardCursor, EngineOK, client
  <2> QED
    BY <1>8, <2>1, Frames DEF ForwardCursor, Typed, client, panel, history
<1> QED
  BY <1>1, <1>2, <1>3, <1>4, <1>5, <1>6, <1>7, <1>8

(* The update loop takes a message.                                        *)
LEMMA ReceiptTyped ==
    ASSUME Typed, Receipt
    PROVE  Typed'
<1>1. /\ inbox # <<>> /\ inbox' = Tail(inbox) /\ log' = log
      /\ UNCHANGED <<watch, screen, selection, confirm, reads, posts, opens, breaks, crossed>>
  BY DEF Receipt, ReceiveUnwanted, ReceiveReport, ReceiveEvent, Receive
<1>2. /\ QueueOK' /\ LogOK' /\ CountsOK'
      /\ Head(inbox) \in Messages
      /\ Head(inbox).kind = "event" => Head(inbox).seq \in Readable
      /\ Head(inbox).kind # "event" => Head(inbox).seq = 0
  BY <1>1, MessageTaken, Frames
<1>3. CASE ReceiveUnwanted
  <2>1. NumbersOK'
    BY <1>1, <1>2, <1>3 DEF ReceiveUnwanted, Typed, NumbersOK, Readable
  <2> QED
    BY <1>1, <1>2, <1>3, <2>1, Frames DEF ReceiveUnwanted, Typed
<1>4. CASE ReceiveReport
  <2>1. PanelOK'
    BY <1>1, <1>4 DEF ReceiveReport, Typed, PanelOK
  <2> QED
    BY <1>1, <1>2, <1>4, <2>1, Frames DEF ReceiveReport, Typed
<1>5. CASE ReceiveEvent
  <2>1. Head(inbox).seq \in Readable /\ Head(inbox).seq \in 0..MaxEvents
    BY <1>2, <1>5 DEF ReceiveEvent, Receive, Messages
  <2>2. NumbersOK'
    BY <1>1, <1>5, <2>1 DEF ReceiveEvent, Typed, NumbersOK, Readable
  <2>3. EngineOK'
    <3>1. NoTask \in Engines
      BY Bounds DEF NoTask, Engines, Phases
    <3> QED
      BY <1>1, <1>5, <2>1, <3>1 DEF ReceiveEvent, Typed, EngineOK
  <2>4. PanelOK'
    BY <1>1, <1>5 DEF ReceiveEvent, Typed, PanelOK, Statuses
  <2> QED
    BY <1>2, <2>2, <2>3, <2>4 DEF Typed
<1> QED
  BY <1>3, <1>4, <1>5 DEF Receipt

(* The run is opened and left, its answers come, and its keys are pressed. *)
LEMMA PanelTyped ==
    ASSUME Typed,
           \/ OpenRun \/ LeaveRun
           \/ \E asked, status \in Statuses : RunArrives(asked, status)
           \/ \E asked \in Statuses, found \in BOOLEAN : RunFails(asked, found)
           \/ \E target \in 0..(Outputs + MaxEvents) : Select(target)
           \/ Control \/ AskKill \/ \E yes \in BOOLEAN : AnswerKill(yes)
           \/ Approve \/ WriteAnswered
    PROVE  Typed'
<1> USE Bounds
<1>0. /\ reads \in [Statuses -> Nat] /\ posts \in Nat
      /\ opens \in 0..MaxOpens /\ breaks \in 0..MaxBreaks /\ crossed \in BOOLEAN
      /\ engine \in Engines /\ watch \in 0..MaxEvents /\ cursor \in 0..MaxEvents
  BY DEF Typed, CountsOK, EngineOK
<1>a. NoTask \in Engines /\ NewTask \in Engines
  <2>1. 0 \in 0..MaxEvents
    OBVIOUS
  <2>2. NoTask \in Engines
    BY <2>1 DEF NoTask, Engines, Phases
  <2> QED
    BY <2>2 DEF NewTask, Engines, Phases
<1>b. Ask => reads' \in [Statuses -> Nat]
  <2>1. Status \in Statuses
    BY DEF Status, Statuses
  <2> QED
    BY <1>0, <2>1 DEF Ask
<1>1. CASE OpenRun
  <2>1. EngineOK'
    BY <1>0, <1>a, <1>1 DEF OpenRun, EngineOK
  <2>2. PanelOK'
    BY <1>1 DEF OpenRun, Typed, PanelOK, Statuses
  <2>3. CountsOK'
    <3>1. opens' \in 0..MaxOpens
      BY <1>0, <1>1 DEF OpenRun
    <3>2. reads' \in [Statuses -> Nat]
      BY <1>1, <1>b DEF OpenRun
    <3> QED
      BY <1>0, <1>1, <3>1, <3>2 DEF OpenRun, CountsOK
  <2>4. NumbersOK'
    BY <1>1 DEF OpenRun, Typed, NumbersOK
  <2> QED
    BY <1>1, <2>1, <2>2, <2>3, <2>4, Frames DEF OpenRun, Typed
<1>2. CASE LeaveRun
  <2>1. EngineOK'
    BY <1>0, <1>a, <1>2 DEF LeaveRun, EngineOK
  <2>2. PanelOK' /\ NumbersOK'
    BY <1>2 DEF LeaveRun, Typed, PanelOK, NumbersOK, Statuses, history
  <2> QED
    BY <1>2, <2>1, <2>2, Frames DEF LeaveRun, Typed, history
<1>3. ASSUME NEW asked \in Statuses, NEW status \in Statuses, RunArrives(asked, status)
      PROVE  Typed'
  <2>1. reads' \in [Statuses -> Nat]
    BY <1>0, <1>3 DEF RunArrives
  <2>2. PanelOK'
    BY <1>3 DEF RunArrives, Typed, PanelOK
  <2>3. CountsOK'
    BY <1>0, <1>3, <2>1 DEF RunArrives, CountsOK
  <2> QED
    BY <1>3, <2>2, <2>3, Frames DEF RunArrives, Typed
<1>4. ASSUME NEW asked \in Statuses, NEW found \in BOOLEAN, RunFails(asked, found)
      PROVE  Typed'
  <2>1. reads' \in [Statuses -> Nat]
    BY <1>0, <1>4 DEF RunFails
  <2>2. PanelOK' /\ NumbersOK'
    <3>1. CASE found
      BY <1>4, <3>1, Frames DEF RunFails, panel
    <3>2. CASE ~found
      <4>1. /\ log' = log /\ seen' = seen /\ missed' = missed
            /\ active' = active /\ live' = live
            /\ screen' = FALSE /\ run' = "none" /\ shown' = {}
            /\ selection' = 0 /\ confirm' = FALSE
        BY <1>4, <3>2 DEF RunFails
      <4>2. PanelOK'
        BY <4>1 DEF Typed, PanelOK
      <4>3. NumbersOK'
        BY <4>1 DEF Typed, NumbersOK
      <4> QED
        BY <4>2, <4>3
    <3> QED
      BY <3>1, <3>2
  <2>3. CountsOK'
    <3>1. breaks' \in 0..MaxBreaks
      BY <1>4, BreakCounted DEF RunFails
    <3>2. posts' = posts /\ opens' = opens /\ crossed' = crossed
      BY <1>4 DEF RunFails
    <3> QED
      BY <1>0, <2>1, <3>1, <3>2 DEF CountsOK
  <2> QED
    BY <1>4, <2>2, <2>3, Frames DEF RunFails, Typed
<1>5. ASSUME NEW target \in 0..(Outputs + MaxEvents), Select(target) PROVE Typed'
  <2>1. PanelOK'
    BY <1>5 DEF Select, Typed, PanelOK
  <2> QED
    BY <1>5, <2>1, Frames DEF Select, Typed, history
<1>6. CASE Control \/ Approve
  <2>1. CountsOK'
    BY <1>0, <1>6 DEF Control, Approve, PostWrite, CountsOK, history
  <2> QED
    BY <1>6, <2>1, Frames DEF Control, Approve, Typed, panel, history
<1>7. CASE AskKill
  <2>1. PanelOK'
    BY <1>7 DEF AskKill, Typed, PanelOK
  <2> QED
    BY <1>7, <2>1, Frames DEF AskKill, Typed, history
<1>8. ASSUME NEW yes \in BOOLEAN, AnswerKill(yes) PROVE Typed'
  <2>1. PanelOK'
    BY <1>8 DEF AnswerKill, Typed, PanelOK
  <2>2. CountsOK'
    BY <1>0, <1>8 DEF AnswerKill, PostWrite, CountsOK, history
  <2> QED
    BY <1>8, <2>1, <2>2, Frames DEF AnswerKill, Typed, history
<1>9. CASE WriteAnswered
  <2>1. reads' \in [Statuses -> Nat] /\ posts' \in Nat
    BY <1>0, <1>b, <1>9 DEF WriteAnswered
  <2>2. CountsOK'
    BY <1>0, <1>9, <2>1 DEF WriteAnswered, CountsOK, history
  <2> QED
    BY <1>9, <2>2, Frames DEF WriteAnswered, Typed, panel, history
<1> QED
  BY <1>1, <1>2, <1>3, <1>4, <1>5, <1>6, <1>7, <1>8, <1>9

LEMMA TypedStep == Typed /\ [Next]_vars => Typed'
<1> SUFFICES ASSUME Typed, [Next]_vars PROVE Typed'
  OBVIOUS
<1>1. CASE UNCHANGED vars
  BY <1>1, Frames DEF vars, client, panel, history, Typed
<1> QED
  BY <1>1, EngineTyped, ReceiptTyped, PanelTyped DEF Next, Receipt

LEMMA TypedInit == Init => Typed
<1> SUFFICES ASSUME Init PROVE Typed
  OBVIOUS
<1>1. NoTask \in Engines /\ 0 \in 0..MaxEvents /\ 0 \in 0..MaxOpens /\ 0 \in 0..MaxBreaks
  BY Bounds DEF NoTask, Engines, Phases
<1>2. LogOK /\ QueueOK /\ NumbersOK
  BY Bounds DEF Init, LogOK, QueueOK, NumbersOK
<1>3. EngineOK /\ PanelOK /\ CountsOK
  BY <1>1 DEF Init, EngineOK, PanelOK, CountsOK, Statuses
<1> QED
  BY <1>2, <1>3 DEF Typed

(* Every reachable state of engine, queue and panel is well formed.        *)
THEOREM TypeCorrect == Spec => []TypeOK
BY TypedInit, TypedStep, TypedIsTypeOK, PTL DEF Spec
-----------------------------------------------------------------------------
(* A run whose last event is in the timeline is shown as ended, unless an  *)
(* answer read before that event came after it (stream.rs, api.rs).        *)
THEOREM EndShown == Spec => []EndedIsShown
<1>1. Init => EndedIsShown
  BY DEF Init, EndedIsShown
<1>2. ASSUME Typed, EndedIsShown, [Next]_vars PROVE EndedIsShown'
  <2>1. NumbersOK /\ LogOK
    BY <1>2 DEF Typed
  <2>2. CASE Produce
    <3>1. PICK k \in Kinds : log' = Append(log, k)
      BY <2>2 DEF Produce
    <3>2. \A n \in shown : log'[n] = log[n]
      BY <2>1, <3>1 DEF NumbersOK, LogOK
    <3> QED
      BY <1>2, <2>2, <3>2 DEF Produce, EndedIsShown, client, panel, history
  <2>3. CASE ReceiveEvent
    <3>1. log' = log /\ screen' = screen /\ crossed' = crossed
      BY <2>3 DEF ReceiveEvent, Receive
    <3>2. CASE shown' = shown /\ run' = run
      BY <1>2, <3>1, <3>2 DEF EndedIsShown
    <3>3. CASE /\ screen /\ shown' = shown \cup {Head(inbox).seq}
               /\ run' = IF log[Head(inbox).seq] = "done" /\ run # "none" THEN "done" ELSE run
      BY <1>2, <3>1, <3>3 DEF EndedIsShown
    <3>4. CASE ~screen
      BY <3>1, <3>4 DEF EndedIsShown
    <3> QED
      BY <2>3, <3>2, <3>3, <3>4 DEF ReceiveEvent
  <2>4. ASSUME NEW asked \in Statuses, NEW status \in Statuses, RunArrives(asked, status)
        PROVE  EndedIsShown'
    BY <1>2, <2>4 DEF RunArrives, EndedIsShown
  <2>5. ASSUME NEW asked \in Statuses, NEW found \in BOOLEAN, RunFails(asked, found)
        PROVE  EndedIsShown'
    BY <1>2, <2>5 DEF RunFails, EndedIsShown, panel
  <2>6. CASE OpenRun \/ LeaveRun
    BY <2>6 DEF OpenRun, LeaveRun, EndedIsShown
  <2>7. CASE UNCHANGED <<log, screen, shown, run, crossed>>
    BY <1>2, <2>7 DEF EndedIsShown
  <2>8. CASE RunChecked \/ Accepted \/ \E final \in BOOLEAN : Refused(final)
    BY <2>7, <2>8 DEF RunChecked, Accepted, Refused, client, panel, history
  <2>9. CASE ReadFrame \/ ConnectionLost \/ Retry \/ ForwardCursor
    BY <2>7, <2>9 DEF ReadFrame, ConnectionLost, Retry, ForwardCursor, client, panel, history
  <2>10. CASE ReceiveUnwanted \/ ReceiveReport
    BY <2>7, <2>10 DEF ReceiveUnwanted, ReceiveReport, Receive
  <2>11. CASE \/ \E target \in 0..(Outputs + MaxEvents) : Select(target)
              \/ Control \/ AskKill \/ \E yes \in BOOLEAN : AnswerKill(yes)
              \/ Approve \/ WriteAnswered
    BY <2>7, <2>11 DEF Select, Control, AskKill, AnswerKill, Approve, WriteAnswered,
                       panel, history
  <2>12. CASE UNCHANGED vars
    BY <2>7, <2>12 DEF vars, client, panel, history
  <2> QED
    BY <1>2, <2>2, <2>3, <2>4, <2>5, <2>6, <2>8, <2>9, <2>10, <2>11, <2>12 DEF Next
<1> QED
  BY <1>1, <1>2, TypedInit, TypedStep, PTL DEF Spec

-----------------------------------------------------------------------------
(* The order of the events.  An event is known once the panel was brought  *)
(* it or it was dropped unwanted.  What stands before an event in the      *)
(* daemon's log is known or stands before it in the queue; what the        *)
(* engine's cursor has passed is known or in the queue; what the panel's   *)
(* cursor has passed, and so what the watch channel carries, is known.     *)
Known == seen \cup missed
QueueInOrder ==
    \A i \in DOMAIN inbox : inbox[i].kind = "event" =>
        \A m \in Readable : m < inbox[i].seq =>
            m \in Known \/ \E j \in DOMAIN inbox : j < i /\ inbox[j] = Event(m)
EngineInOrder ==
    /\ engine.own <= Len(log)
    /\ engine.phase = "reading" => engine.next = engine.own
    /\ \A m \in Readable : m <= engine.own =>
        m \in Known \/ \E j \in DOMAIN inbox : inbox[j] = Event(m)
CursorsInOrder ==
    /\ cursor <= Len(log) /\ watch <= Len(log)
    /\ \A m \in Readable : m <= cursor \/ m <= watch => m \in Known

InOrder == QueueInOrder /\ EngineInOrder /\ CursorsInOrder

(* While the run is open for the first time nothing was dropped, and its   *)
(* panel holds what its cursor has passed.                                 *)
Fresh ==
    /\ opens = 0 => /\ ~screen /\ ~active /\ inbox = <<>> /\ engine = NoTask
                    /\ cursor = 0 /\ watch = 0 /\ seen = {} /\ missed = {}
    /\ opens = 1 /\ screen => /\ shown = {m \in Readable : m <= cursor}
                              /\ active => seen = shown /\ missed = {}

LEMMA OrderInit == Init => InOrder /\ Fresh
<1> SUFFICES ASSUME Init PROVE InOrder /\ Fresh
  OBVIOUS
<1>1. Readable = {} /\ Len(log) = 0 /\ DOMAIN inbox = {}
  BY DEF Init, Readable
<1>2. engine.own = 0 /\ engine.phase # "reading"
  BY DEF Init, NoTask
<1> QED
  BY <1>1, <1>2 DEF Init, InOrder, QueueInOrder, EngineInOrder, CursorsInOrder, Fresh

(* Steps that bring nothing new: at most a report is sent, and a cursor    *)
(* moves no further than to another one.                                   *)
LEMMA QuietOrder ==
    ASSUME Typed, InOrder,
           log' = log, seen' = seen, missed' = missed, cursor' = cursor,
           watch' \in {watch, cursor}, engine'.own \in {engine.own, watch, 0},
           engine'.phase = "reading" => engine'.next = engine'.own,
           \/ inbox' = inbox
           \/ \E kind \in {"lost", "reconnected", "fatal"} : inbox' = Append(inbox, Report(kind))
    PROVE  InOrder'
<1>1. inbox \in Seq(Messages) /\ Len(log) \in Nat
  BY DEF Typed, QueueOK, LogOK
<1>2. /\ \A j \in DOMAIN inbox : j \in DOMAIN inbox' /\ inbox'[j] = inbox[j]
      /\ \A i \in DOMAIN inbox' : inbox'[i].kind = "event" => i \in DOMAIN inbox
  <2>1. \A kind \in {"lost", "reconnected", "fatal"} : Report(kind).kind # "event"
    BY DEF Report
  <2> QED
    BY <1>1, <2>1
<1>3. Readable' = Readable /\ Known' = Known
  BY DEF Readable, Known
<1>4. QueueInOrder'
  BY <1>2, <1>3 DEF InOrder, QueueInOrder, Event
<1>5. engine'.own <= Len(log)
  BY <1>1 DEF InOrder, EngineInOrder, CursorsInOrder
<1>6. ASSUME NEW m \in Readable, m <= engine'.own
      PROVE  m \in Known \/ \E j \in DOMAIN inbox : inbox[j] = Event(m)
  <2>1. m \in Nat \ {0}
    BY <1>1 DEF Readable, Typed, LogOK
  <2> QED
    BY <1>6, <2>1 DEF InOrder, EngineInOrder, CursorsInOrder
<1>7. EngineInOrder'
  BY <1>2, <1>3, <1>5, <1>6 DEF EngineInOrder, Event
<1>8. CursorsInOrder'
  BY <1>3 DEF InOrder, CursorsInOrder
<1> QED
  BY <1>4, <1>7, <1>8 DEF InOrder

(* The event that is read is the one after the engine's cursor.            *)
LEMMA ReadOrder == Typed /\ InOrder /\ ReadFrame => InOrder'
<1> SUFFICES ASSUME Typed, InOrder, ReadFrame PROVE InOrder'
  OBVIOUS
<1> DEFINE n == engine.next + 1
<1>1. /\ inbox \in Seq(Messages) /\ Len(log) \in Nat /\ DOMAIN log = 1..Len(log)
      /\ engine \in Engines /\ Len(log) <= MaxEvents
  BY DEF Typed, QueueOK, LogOK, EngineOK
<1>2. /\ engine.next = engine.own /\ engine.next < Len(log) /\ n \in DOMAIN log
      /\ engine'.own = n /\ engine'.next = n
  BY <1>1, Bounds DEF ReadFrame, InOrder, EngineInOrder, Engines
<1>3. log' = log /\ seen' = seen /\ missed' = missed /\ cursor' = cursor /\ watch' = watch
  BY DEF ReadFrame, client, panel, history
<1>4. Readable' = Readable /\ Known' = Known
  BY <1>3 DEF Readable, Known
<1>5. CursorsInOrder'
  BY <1>3, <1>4 DEF InOrder, CursorsInOrder
<1>6. /\ \A j \in DOMAIN inbox : j \in DOMAIN inbox' /\ inbox'[j] = inbox[j]
      /\ \A i \in DOMAIN inbox' : \/ i \in DOMAIN inbox
                                  \/ inbox'[i] = Event(n) /\ \A j \in DOMAIN inbox : j < i
      /\ n \in Readable => \E i \in DOMAIN inbox' : inbox'[i] = Event(n)
  <2>1. CASE log[n] = "garbled"
    <3>1. inbox' = inbox \o <<>>
      BY <2>1 DEF ReadFrame, Send
    <3>2. inbox' = inbox
      BY <1>1, <3>1
    <3> QED
      BY <2>1, <3>2 DEF Readable
  <2>2. CASE log[n] # "garbled"
    <3>1. Event(n) \in Messages
      BY <1>1, <1>2, Bounds DEF Event, Messages, Engines
    <3>2. inbox' = inbox \o <<Event(n)>>
      BY <2>2 DEF ReadFrame, Send
    <3>3. inbox' = Append(inbox, Event(n))
      BY <1>1, <3>1, <3>2
    <3>4. /\ DOMAIN inbox = 1..Len(inbox) /\ DOMAIN inbox' = 1..(Len(inbox) + 1)
          /\ Len(inbox) \in Nat /\ inbox'[Len(inbox) + 1] = Event(n)
          /\ \A j \in DOMAIN inbox : inbox'[j] = inbox[j]
      BY <1>1, <3>1, <3>3
    <3> QED
      BY <3>4
  <2> QED
    BY <2>1, <2>2
<1>7. \A m \in Readable : m < n => m \in Known \/ \E j \in DOMAIN inbox : inbox[j] = Event(m)
  <2>1. ASSUME NEW m \in Readable, m < n PROVE m <= engine.own
    BY <1>1, <1>2, <2>1 DEF Readable, Engines
  <2> QED
    BY <2>1 DEF InOrder, EngineInOrder
<1>8. EngineInOrder'
  <2>1. engine'.own <= Len(log)
    BY <1>1, <1>2
  <2>2. ASSUME NEW m \in Readable, m <= n
        PROVE  m \in Known \/ \E j \in DOMAIN inbox' : inbox'[j] = Event(m)
    <3>1. m < n \/ m = n
      BY <1>1, <1>2, <2>2 DEF Readable, Engines
    <3> QED
      BY <1>6, <1>7, <3>1
  <2> QED
    BY <1>2, <1>3, <1>4, <2>1, <2>2 DEF EngineInOrder, Event
<1>9. QueueInOrder'
  <2> SUFFICES ASSUME NEW i \in DOMAIN inbox', inbox'[i].kind = "event",
                      NEW m \in Readable, m < inbox'[i].seq
               PROVE  m \in Known \/ \E j \in DOMAIN inbox' : j < i /\ inbox'[j] = Event(m)
    BY <1>4 DEF QueueInOrder, Event
  <2>1. CASE i \in DOMAIN inbox
    BY <1>6, <2>1 DEF InOrder, QueueInOrder
  <2>2. CASE inbox'[i] = Event(n) /\ \A j \in DOMAIN inbox : j < i
    <3>1. m < n
      BY <2>2 DEF Event
    <3> QED
      BY <1>6, <1>7, <2>2, <3>1
  <2> QED
    BY <1>6, <2>1, <2>2
<1> QED
  BY <1>5, <1>8, <1>9 DEF InOrder

(* Nothing that comes later stands before what is there.                   *)
LEMMA ProduceOrder == Typed /\ InOrder /\ Produce => InOrder'
<1> SUFFICES ASSUME Typed, InOrder, Produce PROVE InOrder'
  OBVIOUS
<1>1. /\ log \in Seq(Kinds) /\ Len(log) \in Nat
      /\ engine.own \in Nat /\ watch \in Nat /\ cursor \in Nat
  BY Bounds DEF Typed, LogOK, EngineOK, Engines
<1>2. /\ UNCHANGED <<engine, watch, inbox, cursor, seen, missed>>
      /\ \E k \in Kinds : log' = Append(log, k)
  BY DEF Produce, client, history
<1>3. /\ Len(log') = Len(log) + 1 /\ Known' = Known
      /\ \A m \in Readable' : m \in Nat /\ (m <= Len(log) => m \in Readable)
  BY <1>1, <1>2 DEF Readable, Known
<1>4. \A i \in DOMAIN inbox : inbox[i].kind = "event" => inbox[i].seq \in 1..Len(log)
  BY <1>1 DEF Typed, QueueOK, Readable
<1>5. QueueInOrder'
  <2> SUFFICES ASSUME NEW i \in DOMAIN inbox, inbox[i].kind = "event",
                      NEW m \in Readable', m < inbox[i].seq
               PROVE  m \in Known \/ \E j \in DOMAIN inbox : j < i /\ inbox[j] = Event(m)
    BY <1>2, <1>3 DEF QueueInOrder, Event
  <2>1. m \in Readable
    BY <1>1, <1>3, <1>4
  <2> QED
    BY <2>1 DEF InOrder, QueueInOrder
<1>6. EngineInOrder'
  <2>1. \A m \in Readable' : m <= engine.own => m \in Readable
    BY <1>1, <1>3 DEF InOrder, EngineInOrder
  <2> QED
    BY <1>1, <1>2, <1>3, <2>1 DEF InOrder, EngineInOrder, Event
<1>7. CursorsInOrder'
  <2>1. \A m \in Readable' : m <= cursor \/ m <= watch => m \in Readable
    BY <1>1, <1>3 DEF InOrder, CursorsInOrder
  <2> QED
    BY <1>1, <1>2, <1>3, <2>1 DEF InOrder, CursorsInOrder
<1> QED
  BY <1>5, <1>6, <1>7 DEF InOrder

(* An event is known when it leaves the queue, and all before it are.      *)
LEMMA FirstInOrder ==
    ASSUME Typed, InOrder, inbox # <<>>, Head(inbox).kind = "event"
    PROVE  /\ Head(inbox).seq \in Readable
           /\ \A m \in Readable : m < Head(inbox).seq => m \in Known
<1>1. inbox \in Seq(Messages) /\ 1 \in DOMAIN inbox /\ Head(inbox) = inbox[1]
  BY DEF Typed, QueueOK
<1>2. \A j \in DOMAIN inbox : ~(j < 1)
  BY <1>1
<1> QED
  BY <1>1, <1>2 DEF Typed, QueueOK, InOrder, QueueInOrder

LEMMA ReceiptOrder == Typed /\ InOrder /\ Receipt => InOrder'
<1> SUFFICES ASSUME Typed, InOrder, Receipt PROVE InOrder'
  OBVIOUS
<1> DEFINE first == Head(inbox)
<1>1. /\ inbox \in Seq(Messages) /\ Len(log) \in Nat /\ DOMAIN log = 1..Len(log)
      /\ Len(inbox) \in Nat /\ DOMAIN inbox = 1..Len(inbox)
  BY DEF Typed, QueueOK, LogOK
<1>2. inbox # <<>> /\ inbox' = Tail(inbox) /\ log' = log /\ watch' = watch
  BY DEF Receipt, ReceiveUnwanted, ReceiveReport, ReceiveEvent, Receive
<1>3. /\ Readable' = Readable
      /\ Known \subseteq Known'
      /\ first.kind = "event" => first.seq \in Known'
  <2>1. first.kind = "event" => first.seq \in Readable /\ first.seq # 0
    BY <1>1, <1>2, FirstInOrder DEF Readable
  <2>2. first.kind \in {"lost", "reconnected", "fatal"} => first.kind # "event"
    OBVIOUS
  <2> QED
    BY <1>2, <2>1, <2>2 DEF Readable, Known, Receipt, ReceiveUnwanted, ReceiveReport, ReceiveEvent, Receive
<1>4. /\ \A i \in DOMAIN inbox' : i + 1 \in DOMAIN inbox /\ inbox'[i] = inbox[i + 1]
      /\ \A j \in DOMAIN inbox : j = 1 \/ (j - 1 \in DOMAIN inbox' /\ inbox'[j - 1] = inbox[j])
      /\ inbox[1] = first
  BY <1>1, <1>2
<1>5. ASSUME NEW m, NEW j \in DOMAIN inbox, inbox[j] = Event(m)
      PROVE  m \in Known' \/ (j - 1 \in DOMAIN inbox' /\ inbox'[j - 1] = Event(m))
  BY <1>3, <1>4, <1>5 DEF Event
<1>6. QueueInOrder'
  <2> SUFFICES ASSUME NEW i \in DOMAIN inbox', inbox'[i].kind = "event",
                      NEW m \in Readable, m < inbox'[i].seq
               PROVE  m \in Known' \/ \E j \in DOMAIN inbox' : j < i /\ inbox'[j] = Event(m)
    BY <1>3 DEF QueueInOrder, Event
  <2>1. m \in Known \/ \E j \in DOMAIN inbox : j < i + 1 /\ inbox[j] = Event(m)
    BY <1>4 DEF InOrder, QueueInOrder
  <2>2. ASSUME NEW j \in DOMAIN inbox, j < i + 1, inbox[j] = Event(m)
        PROVE  m \in Known' \/ \E k \in DOMAIN inbox' : k < i /\ inbox'[k] = Event(m)
    <3>1. i + 1 \in 1..Len(inbox) /\ i \in DOMAIN inbox'
      BY <1>1, <1>4
    <3>2. i \in Int /\ j \in Int
      BY <1>1, <1>2
    <3>3. j - 1 < i
      BY <2>2, <3>2
    <3> QED
      BY <1>5, <2>2, <3>3
  <2> QED
    BY <1>3, <2>1, <2>2
<1>7. EngineInOrder'
  <2>1. CASE engine' = engine
    <3>1. ASSUME NEW m \in Readable, m <= engine.own
          PROVE  m \in Known' \/ \E j \in DOMAIN inbox' : inbox'[j] = Event(m)
      BY <1>3, <1>5, <3>1 DEF InOrder, EngineInOrder
    <3> QED
      BY <1>2, <1>3, <2>1, <3>1 DEF InOrder, EngineInOrder, Event
  <2>2. CASE engine' = NoTask
    <3>1. engine'.own = 0 /\ engine'.phase = "none"
      BY <2>2 DEF NoTask
    <3>2. \A m \in Readable : ~(m <= 0)
      BY <1>1 DEF Readable
    <3> QED
      BY <1>1, <1>2, <1>3, <3>1, <3>2 DEF EngineInOrder
  <2> QED
    BY <2>1, <2>2 DEF Receipt, ReceiveUnwanted, ReceiveReport, ReceiveEvent
<1>8. CursorsInOrder'
  <2>1. CASE cursor' = cursor
    BY <1>2, <1>3, <2>1 DEF InOrder, CursorsInOrder
  <2>2. CASE cursor' = first.seq /\ first.kind = "event"
    <3>1. first.seq \in 1..Len(log)
      BY <1>1, <1>2, <2>2, FirstInOrder DEF Readable
    <3>2. \A m \in Readable : m <= first.seq => m \in Known'
      <4>1. \A m \in Readable : m <= first.seq => m < first.seq \/ m = first.seq
        BY <1>1, <3>1 DEF Readable
      <4> QED
        BY <1>2, <1>3, <2>2, <4>1, FirstInOrder
    <3> QED
      BY <1>2, <1>3, <2>2, <3>1, <3>2 DEF InOrder, CursorsInOrder
  <2> QED
    BY <2>1, <2>2 DEF Receipt, ReceiveUnwanted, ReceiveReport, ReceiveEvent, Receive
<1> QED
  BY <1>6, <1>7, <1>8 DEF InOrder

LEMMA Sent ==
    ASSUME Typed
    PROVE  /\ Send(<<>>) => inbox' = inbox
           /\ \A kind \in {"lost", "reconnected", "fatal"} :
                Send(<<Report(kind)>>) => inbox' = Append(inbox, Report(kind))
<1>1. inbox \in Seq(Messages)
  BY DEF Typed, QueueOK
<1>2. \A kind \in {"lost", "reconnected", "fatal"} : Report(kind) \in Messages
  BY Bounds DEF Report, Messages
<1> QED
  BY <1>1, <1>2 DEF Send

LEMMA OrderStep == Typed /\ InOrder /\ [Next]_vars => InOrder'
<1> SUFFICES ASSUME Typed, InOrder, [Next]_vars PROVE InOrder'
  OBVIOUS
<1>0. /\ engine \in Engines
      /\ engine.phase = "reading" => engine.next = engine.own
      /\ NoTask.own = 0 /\ NoTask.phase = "none" /\ NewTask.own = 0 /\ NewTask.phase = "checking"
  BY DEF Typed, EngineOK, InOrder, EngineInOrder, NoTask, NewTask
<1>1. CASE Produce
  BY <1>1, ProduceOrder
<1>2. CASE ReadFrame
  BY <1>2, ReadOrder
<1>3. CASE ReceiveUnwanted \/ ReceiveReport \/ ReceiveEvent
  BY <1>3, ReceiptOrder DEF Receipt
<1>4. CASE RunChecked
  <2>1. /\ log' = log /\ seen' = seen /\ missed' = missed /\ cursor' = cursor /\ watch' = watch
        /\ engine'.own \in {engine.own, watch} /\ engine'.phase # "reading"
    BY <1>0, <1>4 DEF RunChecked, client, Engines
  <2>2. \/ inbox' = inbox
        \/ \E kind \in {"lost", "reconnected", "fatal"} : inbox' = Append(inbox, Report(kind))
    BY <1>4, Sent DEF RunChecked
  <2> QED
    BY <2>1, <2>2, QuietOrder
<1>5. CASE Accepted
  <2>1. /\ log' = log /\ seen' = seen /\ missed' = missed /\ cursor' = cursor /\ watch' = watch
        /\ engine'.own = Resume /\ engine'.next = Resume
    BY <1>0, <1>5 DEF Accepted, client, history, Engines
  <2>2. Resume \in {engine.own, watch}
    BY DEF Resume
  <2>3. \/ inbox' = inbox
        \/ \E kind \in {"lost", "reconnected", "fatal"} : inbox' = Append(inbox, Report(kind))
    BY <1>5, Sent DEF Accepted
  <2> QED
    BY <2>1, <2>2, <2>3, QuietOrder
<1>6. ASSUME NEW final \in BOOLEAN, Refused(final) PROVE InOrder'
  <2>1. /\ log' = log /\ seen' = seen /\ missed' = missed /\ cursor' = cursor /\ watch' = watch
        /\ engine'.own = Resume /\ engine'.phase # "reading"
    BY <1>0, <1>6 DEF Refused, client, Engines
  <2>2. Resume \in {engine.own, watch}
    BY DEF Resume
  <2>3. \E kind \in {"lost", "reconnected", "fatal"} : inbox' = Append(inbox, Report(kind))
    <3>1. CASE final
      BY <1>6, <3>1, Sent DEF Refused
    <3>2. CASE ~final
      BY <1>6, <3>2, Sent DEF Refused
    <3> QED
      BY <3>1, <3>2
  <2> QED
    BY <2>1, <2>2, <2>3, QuietOrder
<1>7. CASE ConnectionLost
  <2>1. /\ log' = log /\ seen' = seen /\ missed' = missed /\ cursor' = cursor /\ watch' = watch
        /\ engine'.own = engine.own /\ engine'.phase # "reading"
    BY <1>0, <1>7 DEF ConnectionLost, client, Engines
  <2>2. \E kind \in {"lost", "reconnected", "fatal"} : inbox' = Append(inbox, Report(kind))
    BY <1>7, Sent DEF ConnectionLost
  <2> QED
    BY <2>1, <2>2, QuietOrder
<1>8. CASE Retry
  <2>1. /\ log' = log /\ seen' = seen /\ missed' = missed /\ cursor' = cursor /\ watch' = watch
        /\ inbox' = inbox /\ engine'.own = engine.own /\ engine'.phase # "reading"
    BY <1>0, <1>8 DEF Retry, client, history, Engines
  <2> QED
    BY <2>1, QuietOrder
<1>9. CASE ForwardCursor
  BY <1>0, <1>9, QuietOrder DEF ForwardCursor, client, history
<1>10. CASE OpenRun \/ LeaveRun
  BY <1>0, <1>10, QuietOrder DEF OpenRun, LeaveRun, history
<1>11. CASE UNCHANGED <<log, engine, watch, inbox, cursor, seen, missed>>
  BY <1>0, <1>11, QuietOrder
<1>12. CASE \/ \E asked, status \in Statuses : RunArrives(asked, status)
            \/ \E asked \in Statuses, found \in BOOLEAN : RunFails(asked, found)
            \/ \E target \in 0..(Outputs + MaxEvents) : Select(target)
            \/ Control \/ AskKill \/ \E yes \in BOOLEAN : AnswerKill(yes)
            \/ Approve \/ WriteAnswered
  BY <1>11, <1>12 DEF RunArrives, RunFails, Select, Control, AskKill, AnswerKill, Approve,
                      WriteAnswered, history
<1>13. CASE UNCHANGED vars
  BY <1>11, <1>13 DEF vars, client, history
<1> QED
  BY <1>1, <1>2, <1>3, <1>4, <1>5, <1>6, <1>7, <1>8, <1>9, <1>10, <1>12, <1>13 DEF Next

-----------------------------------------------------------------------------
LEMMA FreshStep == Typed /\ InOrder /\ Fresh /\ [Next]_vars => Fresh'
<1> SUFFICES ASSUME Typed, InOrder, Fresh, [Next]_vars PROVE Fresh'
  OBVIOUS
<1>0. /\ opens \in Nat /\ cursor \in Nat /\ Len(log) \in Nat /\ cursor <= Len(log)
      /\ DOMAIN log = 1..Len(log) /\ log \in Seq(Kinds)
      /\ NoTask.phase = "none"
  BY Bounds DEF Typed, CountsOK, EngineOK, LogOK, InOrder, CursorsInOrder, NoTask
<1>1. CASE Produce
  <2>1. PICK k \in Kinds : log' = Append(log, k)
    BY <1>1 DEF Produce
  <2>2. {m \in Readable' : m <= cursor} = {m \in Readable : m <= cursor}
    BY <1>0, <2>1 DEF Readable
  <2> QED
    BY <1>1, <2>2 DEF Produce, Fresh, client, panel, history
<1>2. CASE Receipt
  <2>1. /\ inbox # <<>> /\ log' = log /\ opens' = opens /\ screen' = screen
        /\ watch' = watch /\ Readable' = Readable
    BY <1>2 DEF Receipt, ReceiveUnwanted, ReceiveReport, ReceiveEvent, Receive, Readable
  <2>2. opens # 0
    BY <2>1 DEF Fresh
  <2>3. CASE ReceiveUnwanted \/ ReceiveReport
    BY <1>0, <2>1, <2>2, <2>3 DEF ReceiveUnwanted, ReceiveReport, Fresh
  <2>4. ASSUME ReceiveEvent, opens = 1, screen PROVE Fresh'
    <3> DEFINE n == Head(inbox).seq
    <3>1. /\ active /\ shown = {m \in Readable : m <= cursor} /\ seen = shown /\ missed = {}
          /\ Head(inbox).kind = "event" /\ seen' = seen \cup {n} /\ missed' = missed
      BY <2>4 DEF ReceiveEvent, Receive, Fresh
    <3>2. n \in Readable /\ \A m \in Readable : m < n => m \in shown
      BY <2>1, <3>1, FirstInOrder DEF Known
    <3>3. CASE n \in shown
      <4>1. shown' = shown /\ cursor' = cursor /\ active' = active /\ seen' = seen
        BY <2>4, <3>1, <3>3 DEF ReceiveEvent
      <4> QED
        BY <1>0, <2>1, <2>2, <3>1, <4>1 DEF Fresh
    <3>4. CASE n \notin shown
      <4>1. shown' = shown \cup {n} /\ cursor' = n
        BY <2>4, <3>4 DEF ReceiveEvent
      <4>2. n \in Nat /\ cursor < n
        BY <1>0, <3>1, <3>2, <3>4 DEF Readable
      <4>3. shown \cup {n} = {m \in Readable : m <= n}
        <5>1. \A m \in Readable : m \in Nat
          BY <1>0 DEF Readable
        <5> QED
          BY <1>0, <3>1, <3>2, <4>2, <5>1
      <4> QED
        BY <1>0, <2>1, <2>2, <3>1, <4>1, <4>3 DEF Fresh
    <3> QED
      BY <3>3, <3>4
  <2>5. CASE ReceiveEvent /\ ~(opens = 1 /\ screen)
    BY <1>0, <2>1, <2>2, <2>5 DEF Fresh
  <2> QED
    BY <1>2, <2>3, <2>4, <2>5 DEF Receipt
<1>3. CASE OpenRun
  <2>1. /\ opens' = opens + 1 /\ shown' = {} /\ log' = log /\ cursor' = cursor
        /\ seen' = seen /\ missed' = missed
    BY <1>3 DEF OpenRun
  <2>2. CASE opens = 0
    <3>1. cursor = 0 /\ seen = {} /\ missed = {}
      BY <2>2 DEF Fresh
    <3>2. {m \in Readable : m <= 0} = {}
      BY <1>0 DEF Readable
    <3>3. shown' = {m \in Readable' : m <= cursor'} /\ seen' = {} /\ missed' = {}
      BY <2>1, <3>1, <3>2 DEF Readable
    <3> QED
      BY <2>1, <2>2, <3>3 DEF Fresh
  <2>3. CASE opens # 0
    BY <1>0, <2>1, <2>3 DEF Fresh
  <2> QED
    BY <2>2, <2>3
<1>4. ASSUME UNCHANGED <<log, cursor, seen, missed, opens, inbox, active>>,
             \/ screen' = FALSE
             \/ UNCHANGED <<screen, shown>>,
             opens = 0 => UNCHANGED <<engine, watch>>
      PROVE  Fresh'
  BY <1>0, <1>4 DEF Fresh, Readable
<1>5. CASE LeaveRun
  <2>1. opens # 0
    BY <1>5 DEF LeaveRun, Fresh
  <2> QED
    BY <1>0, <1>5, <2>1 DEF LeaveRun, Fresh, history
<1>6. ASSUME UNCHANGED <<log, cursor, seen, missed, opens, screen, shown, active>>,
             engine.phase # "none"
      PROVE  Fresh'
  BY <1>0, <1>6 DEF Fresh, Readable
<1>7. CASE RunChecked \/ Accepted \/ \E final \in BOOLEAN : Refused(final)
  BY <1>6, <1>7 DEF RunChecked, Accepted, Refused, client, panel, history
<1>8. CASE ReadFrame \/ ConnectionLost \/ Retry \/ ForwardCursor
  BY <1>6, <1>8 DEF ReadFrame, ConnectionLost, Retry, ForwardCursor, client, panel, history
<1>9. CASE \/ \E asked, status \in Statuses : RunArrives(asked, status)
           \/ \E asked \in Statuses, found \in BOOLEAN : RunFails(asked, found)
  BY <1>4, <1>9 DEF RunArrives, RunFails, panel
<1>10. CASE \/ \E target \in 0..(Outputs + MaxEvents) : Select(target)
            \/ Control \/ AskKill \/ \E yes \in BOOLEAN : AnswerKill(yes)
            \/ Approve \/ WriteAnswered \/ UNCHANGED vars
  BY <1>4, <1>10 DEF Select, Control, AskKill, AnswerKill, Approve, WriteAnswered,
                     vars, client, panel, history
<1> QED
  BY <1>1, <1>2, <1>3, <1>5, <1>7, <1>8, <1>9, <1>10 DEF Next, Receipt

Whole == Typed /\ InOrder /\ Fresh

LEMMA WholeAlways == Spec => []Whole
BY TypedInit, TypedStep, OrderInit, OrderStep, FreshStep, PTL DEF Spec, Whole

(* The first time a run is open, its panel shows every readable event up   *)
(* to the cursor: lost connections, the engine's own cursor and the late   *)
(* cursor of the watch channel leave no gap (stream.rs, runtime/mod.rs,    *)
(* sse/engine.rs).                                                         *)
THEOREM NoGap == Spec => []TimelineComplete
<1>1. Whole => TimelineComplete
  <2> SUFFICES ASSUME Whole, screen, opens = 1
               PROVE  shown = {n \in 1..cursor : log[n] # "garbled"}
    BY DEF TimelineComplete
  <2>1. shown = {m \in Readable : m <= cursor}
    BY DEF Whole, Fresh
  <2>2. /\ cursor \in Nat /\ Len(log) \in Nat /\ cursor <= Len(log) /\ DOMAIN log = 1..Len(log)
    BY Bounds DEF Whole, Typed, EngineOK, LogOK, InOrder, CursorsInOrder
  <2> QED
    BY <2>1, <2>2 DEF Readable
<1> QED
  BY <1>1, WholeAlways, PTL

-----------------------------------------------------------------------------
(* The refinement.  What the abstract feed calls open.                     *)
Open == active /\ (engine.phase # "over" \/ \E i \in DOMAIN inbox : inbox[i].kind = "event")

(* A step that brings and drops nothing at most opens or closes the feed.  *)
LEMMA QuietFeed ==
    ASSUME Typed, log' = log, seen' = seen, missed' = missed
    PROVE  [Feed!Next]_Feed!vars
<1>1. Open \in BOOLEAN /\ Open' \in BOOLEAN
  BY DEF Open
<1>2. CASE Open' = Open
  BY <1>2 DEF Feed!vars, Open
<1>3. CASE Open' = ~Open
  BY <1>3 DEF Feed!Next, Feed!OpenOrClose, Open
<1> QED
  BY <1>1, <1>2, <1>3

LEMMA ReceiptFeed == Typed /\ InOrder /\ Receipt => [Feed!Next]_Feed!vars
<1> SUFFICES ASSUME Typed, InOrder, Receipt PROVE [Feed!Next]_Feed!vars
  OBVIOUS
<1> DEFINE n == Head(inbox).seq
<1>1. inbox # <<>> /\ log' = log /\ inbox \in Seq(Messages)
  BY DEF Receipt, ReceiveUnwanted, ReceiveReport, ReceiveEvent, Receive, Typed, QueueOK
<1>2. CASE ReceiveUnwanted
  <2>1. /\ ~Open /\ ~Open' /\ seen' = seen /\ missed' = missed \cup ({n} \ {0})
    BY <1>2 DEF ReceiveUnwanted, Open
  <2>2. CASE n = 0 \/ n \in missed
    <3>1. missed' = missed
      BY <2>1, <2>2
    <3> QED
      BY <1>1, <2>1, <3>1, QuietFeed
  <2>3. CASE n # 0 /\ n \notin missed
    <3>1. n \in Readable
      BY <1>1, <1>2, <2>3, MessageTaken DEF ReceiveUnwanted, Receive
    <3>2. n \in Feed!Readable \ missed /\ missed' = missed \cup {n}
      BY <2>1, <2>3, <3>1 DEF Readable, Feed!Readable
    <3>3. Feed!Miss
      BY <1>1, <2>1, <3>2 DEF Feed!Miss, Open
    <3> QED
      BY <3>3 DEF Feed!Next
  <2> QED
    BY <2>2, <2>3
<1>3. CASE ReceiveReport
  BY <1>1, <1>3, QuietFeed DEF ReceiveReport
<1>4. CASE ReceiveEvent
  <2>1. /\ active /\ Head(inbox).kind = "event" /\ seen' = seen \cup {n} /\ missed' = missed
    BY <1>4 DEF ReceiveEvent, Receive
  <2>2. CASE n \in seen
    <3>1. seen' = seen
      BY <2>1, <2>2
    <3> QED
      BY <1>1, <2>1, <3>1, QuietFeed
  <2>3. CASE n \notin seen
    <3>1. Open
      <4>1. 1 \in DOMAIN inbox /\ inbox[1] = Head(inbox)
        BY <1>1
      <4> QED
        BY <2>1, <4>1 DEF Open
    <3>2. n \in Feed!Readable \ seen /\ {m \in Feed!Readable : m < n} \subseteq seen \cup missed
      BY <1>1, <2>1, <2>3, FirstInOrder DEF Readable, Feed!Readable, Known
    <3>3. Open' \in BOOLEAN
      BY DEF Open
    <3>4. Feed!See
      BY <1>1, <2>1, <3>1, <3>2, <3>3 DEF Feed!See, Open
    <3> QED
      BY <3>4 DEF Feed!Next
  <2> QED
    BY <2>2, <2>3
<1> QED
  BY <1>2, <1>3, <1>4 DEF Receipt

LEMMA FeedStep == Typed /\ InOrder /\ [Next]_vars => [Feed!Next]_Feed!vars
<1> SUFFICES ASSUME Typed, InOrder, [Next]_vars PROVE [Feed!Next]_Feed!vars
  OBVIOUS
<1>1. CASE Produce
  <2>1. /\ \E k \in Kinds : log' = Append(log, k)
        /\ UNCHANGED <<seen, missed, engine, inbox, active>>
    BY <1>1 DEF Produce, client, history
  <2>2. Feed!Produce
    BY <2>1 DEF Feed!Produce
  <2> QED
    BY <2>2 DEF Feed!Next
<1>2. CASE Receipt
  BY <1>2, ReceiptFeed
<1>3. CASE RunChecked \/ Accepted \/ \E final \in BOOLEAN : Refused(final)
  BY <1>3, QuietFeed DEF RunChecked, Accepted, Refused, history
<1>4. CASE ReadFrame \/ ConnectionLost \/ Retry \/ ForwardCursor
  BY <1>4, QuietFeed DEF ReadFrame, ConnectionLost, Retry, ForwardCursor, history
<1>5. CASE \/ OpenRun \/ LeaveRun
           \/ \E asked, status \in Statuses : RunArrives(asked, status)
           \/ \E asked \in Statuses, found \in BOOLEAN : RunFails(asked, found)
  BY <1>5, QuietFeed DEF OpenRun, LeaveRun, RunArrives, RunFails, history
<1>6. CASE \/ \E target \in 0..(Outputs + MaxEvents) : Select(target)
           \/ Control \/ AskKill \/ \E yes \in BOOLEAN : AnswerKill(yes)
           \/ Approve \/ WriteAnswered \/ UNCHANGED vars
  BY <1>6, QuietFeed DEF Select, Control, AskKill, AnswerKill, Approve, WriteAnswered,
                         vars, history
<1> QED
  BY <1>1, <1>2, <1>3, <1>4, <1>5, <1>6 DEF Next, Receipt

(* Every step of engine, runtime and panel is a step of the abstract feed  *)
(* or changes nothing the feed knows of: the panel is brought the readable *)
(* events in the daemon's order, and passes over only those dropped while  *)
(* no panel was open (sse/engine.rs, runtime/mod.rs, stream.rs).           *)
THEOREM StepsImplementFeed == Spec => Feed!Init /\ [][Feed!Next]_Feed!vars
<1>1. Init => Feed!Init
  BY DEF Init, Feed!Init
<1>2. Whole /\ [Next]_vars => [Feed!Next]_Feed!vars
  BY FeedStep DEF Whole
<1> QED
  BY <1>1, <1>2, WholeAlways, PTL DEF Spec
=============================================================================
