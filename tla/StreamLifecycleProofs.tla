------------------------ MODULE StreamLifecycleProofs ------------------------
(***************************************************************************)
(* Proofs about StreamLifecycle for any sets of sessions, runs, log scopes *)
(* and workspaces, and any bounds on the requests and messages in flight.  *)
(***************************************************************************)
EXTENDS StreamLifecycle, SequenceTheorems, TLAPS

(* The kinds of stream ids, details and overlays are told apart.           *)
LEMMA KindsDiffer ==
    /\ TranscriptStreams \subseteq StreamIds /\ RunStreams \subseteq StreamIds
    /\ LogStreams \subseteq StreamIds /\ Catalog \in StreamIds
    /\ \A i \in TranscriptStreams : i \notin RunStreams /\ i \notin LogStreams
    /\ \A i \in RunStreams : i \notin LogStreams
    /\ Catalog \notin TranscriptStreams \cup RunStreams \cup LogStreams
    /\ EmptyDetail \notin StreamIds
    /\ NoOverlay \notin LogStreams /\ ClarifyOverlay \notin LogStreams
    /\ PickerOverlay \notin LogStreams
    /\ \A s \in Sessions : Transcript(s) \in TranscriptStreams
    /\ \A r \in Runs : RunEvents(r) \in RunStreams
    /\ \A x \in LogScopes : Logs(x) \in LogStreams
BY DEF TranscriptStreams, RunStreams, LogStreams, StreamIds, Catalog, EmptyDetail,
       NoOverlay, ClarifyOverlay, PickerOverlay, Transcript, RunEvents, Logs

(* The task table after stopping some streams and starting another.        *)
LEMMA TaskTables ==
    ASSUME TypeOK, NEW ids \in SUBSET StreamIds, NEW id \in StreamIds
    PROVE  /\ StopTasks(ids) \in [StreamIds -> {"none", "running", "ended"}]
           /\ StopAndStart(ids, id) \in [StreamIds -> {"none", "running", "ended"}]
           /\ StartTask(id) \in [StreamIds -> {"none", "running", "ended"}]
BY DEF TypeOK, StopTasks, StopAndStart, StartTask

LEMMA TaskEntries ==
    ASSUME TypeOK, NEW ids \in SUBSET StreamIds, NEW id \in StreamIds, NEW i \in StreamIds
    PROVE  /\ StopTasks(ids)[i] = IF i \in ids THEN "none" ELSE tasks[i]
           /\ StopAndStart(ids, id)[i] =
                IF i = id THEN "running" ELSE IF i \in ids THEN "none" ELSE tasks[i]
           /\ StartTask(id)[i] = IF i = id THEN "running" ELSE tasks[i]
BY DEF TypeOK, StopTasks, StopAndStart, StartTask

(* Opening a panel closes the detail stream of another one, never its own. *)
LEMMA ClosedStreams ==
    ASSUME TypeOK, NEW id \in StreamIds
    PROVE  /\ Closed(id) \in SUBSET (TranscriptStreams \cup RunStreams)
           /\ Closed(id) \in SUBSET StreamIds
           /\ id \notin Closed(id)
           /\ detail \in TranscriptStreams \cup RunStreams /\ detail # id => detail \in Closed(id)
BY KindsDiffer DEF TypeOK, Closed, Details

LEMMA RequestCounters ==
    ASSUME TypeOK, NEW r \in Requests, Issue(r) \/ Answered(r)
    PROVE  inflight' \in [Requests -> Nat]
BY DEF TypeOK, Issue, Answered

LEMMA RequestKinds ==
    /\ \A s \in Sessions : Page(s) \in Requests /\ Prompt(s) \in Requests
    /\ \A r \in Runs : RunGet(r) \in Requests
    /\ Clarify \in Requests
    /\ \A i \in TranscriptStreams : <<"page", i[2]>> \in Requests
BY DEF Page, Prompt, RunGet, Clarify, Requests, TranscriptStreams

LEMMA InboxHead ==
    ASSUME TypeOK, inbox # <<>>
    PROVE  /\ Head(inbox) \in Messages
           /\ Head(inbox).id \in StreamIds
           /\ Tail(inbox) \in Seq(Messages)
<1>1. inbox \in Seq(Messages)
  BY DEF TypeOK
<1>2. Head(inbox) \in Messages /\ Tail(inbox) \in Seq(Messages)
  BY <1>1, HeadTailProperties
<1>3. QED
  BY <1>2 DEF Messages
-----------------------------------------------------------------------------
(* Type correctness.                                                       *)

(* TypeOK is an invariant: no handler, however its inputs are interleaved, *)
(* builds an id, a view, a task table or a message of another shape.       *)
THEOREM TypeCorrect == Spec => []TypeOK
<1>1. Init => TypeOK
  BY KindsDiffer, ConstantsAssumption, RequestKinds
     DEF Init, TypeOK, Details, Views, StreamStatus, FreshView, Overlays, NoneInFlight
<1>2. TypeOK /\ [Next]_vars => TypeOK'
  <2> SUFFICES ASSUME TypeOK, [Next]_vars PROVE TypeOK'
    OBVIOUS
  <2> USE KindsDiffer, RequestKinds DEF ui
  <2> DEFINE Tables == [StreamIds -> {"none", "running", "ended"}]
  <2>1. ASSUME NEW s \in Sessions, NEW stopped \in BOOLEAN, ShowSession(s, stopped),
               overlay' \in Overlays
        PROVE  TypeOK'
    <3>1. tasks' \in Tables /\ active' \in SUBSET StreamIds
      <4>1. Closed(Transcript(s)) \in SUBSET StreamIds
        BY ClosedStreams
      <4>2. StopAndStart(Closed(Transcript(s)), Transcript(s)) \in Tables
        BY <4>1, TaskTables
      <4>3. QED
        BY <2>1, <4>1, <4>2 DEF ShowSession, TypeOK
    <3>2. inflight' \in [Requests -> Nat]
      BY <2>1, RequestCounters DEF ShowSession
    <3>3. QED
      BY <2>1, <3>1, <3>2 DEF ShowSession, TypeOK, Details, Views, StreamStatus, FreshView
  <2>2. ASSUME NEW r \in Runs, OpenRun(r) PROVE TypeOK'
    <3>1. tasks' \in Tables /\ active' \in SUBSET StreamIds
      <4>1. Closed(RunEvents(r)) \in SUBSET StreamIds
        BY ClosedStreams
      <4>2. StopAndStart(Closed(RunEvents(r)), RunEvents(r)) \in Tables
        BY <4>1, TaskTables
      <4>3. QED
        BY <2>2, <4>1, <4>2 DEF OpenRun, TypeOK
    <3>2. inflight' \in [Requests -> Nat]
      BY <2>2, RequestCounters DEF OpenRun
    <3>3. QED
      BY <2>2, <3>1, <3>2 DEF OpenRun, TypeOK, Details, Views, StreamStatus, FreshView
  <2>3. ASSUME NEW x \in LogScopes, OpenLogs(x) PROVE TypeOK'
    <3>1. tasks' \in Tables
      BY <2>3, TaskTables DEF OpenLogs
    <3>2. QED
      BY <2>3, <3>1 DEF OpenLogs, TypeOK, Overlays
  <2>4. CASE CloseLogs
    <3>1. overlay \in StreamIds
      BY <2>4 DEF CloseLogs
    <3>2. tasks' \in Tables
      BY <2>4, <3>1, TaskTables DEF CloseLogs
    <3>3. QED
      BY <2>4, <3>2 DEF CloseLogs, TypeOK, Overlays
  <2>5. CASE ToggleErrorOnly
    <3>1. overlay \in StreamIds
      BY <2>5 DEF ToggleErrorOnly
    <3>2. StopAndStart({overlay}, overlay) \in Tables
      <4>1. {overlay} \in SUBSET StreamIds
        BY <3>1
      <4>2. QED
        BY <3>1, <4>1, TaskTables
    <3>3. QED
      BY <2>5, <3>1, <3>2 DEF ToggleErrorOnly, TypeOK
  <2>6. CASE OpenPicker
    BY <2>6 DEF OpenPicker, TypeOK, Overlays
  <2>7. CASE CloseOverlay
    BY <2>7 DEF CloseOverlay, TypeOK, Overlays
  <2>8. ASSUME NEW w \in Workspaces, SwitchWorkspace(w) PROVE TypeOK'
    <3>1. active \in SUBSET StreamIds
      BY DEF TypeOK
    <3>2. tasks' \in Tables
      BY <2>8, <3>1, TaskTables DEF SwitchWorkspace
    <3>3. view' \in Views
      BY <2>8 DEF SwitchWorkspace, Views, StreamStatus, FreshView
    <3>4. inflight' \in [Requests -> Nat]
      BY <2>8 DEF SwitchWorkspace, NoneInFlight
    <3>5. QED
      BY <2>8, <3>2, <3>3, <3>4 DEF SwitchWorkspace, TypeOK, Details, Overlays
  <2>9. CASE Quit
    <3>1. tasks' \in Tables
      BY <2>9, TaskTables DEF Quit
    <3>2. inbox' \in Seq(Messages)
      BY <2>9 DEF Quit
    <3>3. QED
      BY <2>9, <3>1, <3>2 DEF Quit, TypeOK
  <2>10. ASSUME NEW s \in Sessions, SendPrompt(s) PROVE TypeOK'
    <3>1. inflight' \in [Requests -> Nat]
      BY <2>10, RequestCounters DEF SendPrompt
    <3>2. QED
      BY <2>10, <3>1 DEF SendPrompt, TypeOK
  <2>11. ASSUME NEW s \in Sessions, PromptAccepted(s) PROVE TypeOK'
    <3>1. tasks' \in Tables
      <4>1. StartTask(Transcript(s)) \in Tables
        BY TaskTables
      <4>2. QED
        BY <2>11, <4>1 DEF PromptAccepted, TypeOK
    <3>2. inflight' \in [Requests -> Nat]
      BY <2>11, RequestCounters DEF PromptAccepted
    <3>3. view' \in Views /\ active' \in SUBSET StreamIds
      BY <2>11 DEF PromptAccepted, TypeOK, Views, StreamStatus
    <3>4. QED
      BY <2>11, <3>1, <3>2, <3>3 DEF PromptAccepted, TypeOK
  <2>12. ASSUME NEW r \in Requests, RequestFailed(r) PROVE TypeOK'
    <3>1. inflight' \in [Requests -> Nat]
      BY <2>12, RequestCounters DEF RequestFailed
    <3>2. QED
      BY <2>12, <3>1 DEF RequestFailed, TypeOK
  <2>13. CASE AnswerClarification
    <3>1. inflight' \in [Requests -> Nat]
      BY <2>13, RequestCounters DEF AnswerClarification
    <3>2. QED
      BY <2>13, <3>1 DEF AnswerClarification, TypeOK
  <2>14. CASE ClarificationAnswered
    <3>1. inflight' \in [Requests -> Nat]
      BY <2>14, RequestCounters DEF ClarificationAnswered
    <3>2. QED
      BY <2>14, <3>1 DEF ClarificationAnswered, TypeOK, Overlays
  <2>15. ASSUME NEW s \in Sessions, FetchOlder(s) PROVE TypeOK'
    <3>1. inflight' \in [Requests -> Nat]
      BY <2>15, RequestCounters DEF FetchOlder
    <3>2. view' \in Views
      BY <2>15 DEF FetchOlder, TypeOK, Views
    <3>3. QED
      BY <2>15, <3>1, <3>2 DEF FetchOlder, TypeOK
  <2>16. ASSUME NEW s \in Sessions, PageArrived(s) PROVE TypeOK'
    <3>1. tasks' \in Tables
      <4>1. StartTask(Transcript(s)) \in Tables
        BY TaskTables
      <4>2. QED
        BY <2>16, <4>1 DEF PageArrived, TypeOK
    <3>2. inflight' \in [Requests -> Nat]
      BY <2>16, RequestCounters DEF PageArrived
    <3>3. active' \in SUBSET StreamIds
      BY <2>16 DEF PageArrived, TypeOK
    <3>4. view' \in Views
      <4>1. view' \in {view, [view EXCEPT !.fetching = FALSE]}
        BY <2>16 DEF PageArrived
      <4>2. view \in Views
        BY DEF TypeOK
      <4>3. QED
        BY <4>1, <4>2 DEF Views
    <3>5. QED
      BY <2>16, <3>1, <3>2, <3>3, <3>4 DEF PageArrived, TypeOK
  <2>17. ASSUME NEW r \in Runs, RunArrived(r) PROVE TypeOK'
    <3>1. inflight' \in [Requests -> Nat]
      BY <2>17, RequestCounters DEF RunArrived
    <3>2. QED
      BY <2>17, <3>1 DEF RunArrived, TypeOK
  <2>18. ASSUME NEW r \in Runs, RunNotFound(r) PROVE TypeOK'
    <3>1. inflight' \in [Requests -> Nat]
      BY <2>18, RequestCounters DEF RunNotFound
    <3>2. QED
      BY <2>18, <3>1 DEF RunNotFound, TypeOK, Details
  <2>19. ASSUME NEW s \in Sessions, SessionsListed(s) PROVE TypeOK'
    <3>1. tasks' \in Tables
      BY <2>19, TaskTables DEF SessionsListed
    <3>2. view' \in Views
      BY <2>19 DEF SessionsListed, TypeOK, Views, StreamStatus
    <3>3. QED
      BY <2>19, <3>1, <3>2 DEF SessionsListed, TypeOK
  <2>20. ASSUME NEW id \in StreamIds, NEW e \in Events, Emit(id, e) PROVE TypeOK'
    <3>1. [id |-> id, event |-> e] \in Messages
      BY DEF Messages
    <3>2. inbox' \in Seq(Messages)
      BY <2>20, <3>1, AppendProperties DEF Emit, TypeOK
    <3>3. QED
      BY <2>20, <3>2 DEF Emit, TypeOK
  <2>21. CASE ReceiveIgnored
    <3>1. inbox' \in Seq(Messages)
      BY <2>21, InboxHead DEF ReceiveIgnored, Receive
    <3>2. QED
      BY <2>21, <3>1 DEF ReceiveIgnored, Receive, TypeOK
  <2>22. CASE ReceiveEnd
    <3>1. Head(inbox).id \in StreamIds /\ inbox' \in Seq(Messages)
      BY <2>22, InboxHead DEF ReceiveEnd, Receive
    <3>2. tasks' \in Tables
      BY <2>22, <3>1, TaskTables DEF ReceiveEnd
    <3>3. view' \in Views
      BY <2>22 DEF ReceiveEnd, TypeOK, Views, StreamStatus
    <3>4. QED
      BY <2>22, <3>1, <3>2, <3>3 DEF ReceiveEnd, Receive, TypeOK
  <2>23. CASE ReceiveStatus
    <3>1. inbox' \in Seq(Messages)
      BY <2>23, InboxHead DEF ReceiveStatus, Receive
    <3>2. view' \in Views
      BY <2>23 DEF ReceiveStatus, TypeOK, Views, StreamStatus, StatusAfter
    <3>3. QED
      BY <2>23, <3>1, <3>2 DEF ReceiveStatus, Receive, TypeOK
  <2>24. CASE ReceiveGap
    <3>1. inbox' \in Seq(Messages)
      BY <2>24, InboxHead DEF ReceiveGap, Receive
    <3>2. Page(Head(inbox).id[2]) \in Requests
      BY <2>24 DEF ReceiveGap, Page
    <3>3. inflight' \in [Requests -> Nat]
      <4>1. Issue(Page(Head(inbox).id[2])) \/ inflight' = inflight
        BY <2>24 DEF ReceiveGap
      <4>2. CASE Issue(Page(Head(inbox).id[2]))
        BY <3>2, <4>2, RequestCounters
      <4>3. CASE inflight' = inflight
        BY <4>3 DEF TypeOK
      <4>4. QED
        BY <4>1, <4>2, <4>3
    <3>4. view' \in Views
      <4>1. view' \in {view, [view EXCEPT !.fetching = TRUE]}
        BY <2>24 DEF ReceiveGap
      <4>2. view \in Views
        BY DEF TypeOK
      <4>3. QED
        BY <4>1, <4>2 DEF Views
    <3>5. QED
      BY <2>24, <3>1, <3>3, <3>4 DEF ReceiveGap, Receive, TypeOK
  <2>25. CASE ReceiveCursorReset
    <3>1. Head(inbox).id \in StreamIds /\ inbox' \in Seq(Messages)
      BY <2>25, InboxHead DEF ReceiveCursorReset, Receive
    <3>2. StartTask(Head(inbox).id) \in Tables
      BY <3>1, TaskTables
    <3>3. QED
      BY <2>25, <3>1, <3>2 DEF ReceiveCursorReset, Receive, TypeOK
  <2>26. CASE UNCHANGED vars
    BY <2>26 DEF vars, TypeOK
  <2>27. ASSUME NEW s \in Sessions, NEW stopped \in BOOLEAN,
                OpenSession(s, stopped) \/ OpenClarify(s, stopped)
         PROVE  ShowSession(s, stopped) /\ overlay' \in Overlays
    BY <2>27 DEF OpenSession, OpenClarify, TypeOK, Overlays
  <2>28. QED
    BY <2>1, <2>2, <2>3, <2>4, <2>5, <2>6, <2>7, <2>8, <2>9, <2>10, <2>11, <2>12,
       <2>13, <2>14, <2>15, <2>16, <2>17, <2>18, <2>19, <2>20, <2>21, <2>22, <2>23,
       <2>24, <2>25, <2>26, <2>27 DEF Next, Keys, Responses, Streams
<1>3. QED
  BY <1>1, <1>2, PTL DEF Spec

-----------------------------------------------------------------------------
(* Supervision: the model's streams, the runtime's tasks and the panel on  *)
(* screen agree.                                                           *)

Supervised ==
    /\ ActiveHasTask
    /\ OrphansAreTranscripts
    /\ OpenSessionFollowed
    /\ QuitLeavesNoTask

(* A handler that closes some streams and opens another keeps every active *)
(* stream supervised.                                                      *)
LEMMA Reopened ==
    ASSUME TypeOK, Supervised, up, up' = up,
           NEW ids \in SUBSET StreamIds, NEW id \in StreamIds,
           active' = (active \ ids) \cup {id}, tasks' = StopAndStart(ids, id)
    PROVE  ActiveHasTask' /\ OrphansAreTranscripts' /\ QuitLeavesNoTask'
<1>1. ASSUME NEW i \in StreamIds
      PROVE  tasks'[i] = IF i = id THEN "running" ELSE IF i \in ids THEN "none" ELSE tasks[i]
  <2>1. StopAndStart(ids, id)[i] =
          IF i = id THEN "running" ELSE IF i \in ids THEN "none" ELSE tasks[i]
    BY ONLY TypeOK, TaskEntries
  <2>2. QED
    BY <2>1
<1>2. active \in SUBSET StreamIds
  BY DEF TypeOK
<1>3. QED
  BY <1>1, <1>2 DEF Supervised, ActiveHasTask, OrphansAreTranscripts, QuitLeavesNoTask

(* So does one that starts a single task.                                  *)
LEMMA Started ==
    ASSUME TypeOK, Supervised, up, up' = up, NEW id \in StreamIds,
           active' = active \cup {id}, tasks' = StartTask(id)
    PROVE  ActiveHasTask' /\ OrphansAreTranscripts' /\ QuitLeavesNoTask'
BY Reopened DEF StartTask

(* And one that only closes streams.                                       *)
LEMMA Stopped ==
    ASSUME TypeOK, Supervised, up, up' = up, NEW ids \in SUBSET StreamIds,
           active' = active \ ids, tasks' = StopTasks(ids)
    PROVE  ActiveHasTask' /\ OrphansAreTranscripts' /\ QuitLeavesNoTask'
<1>1. \A i \in StreamIds : tasks'[i] = IF i \in ids THEN "none" ELSE tasks[i]
  BY KindsDiffer, TaskEntries
<1>2. active \in SUBSET StreamIds
  BY DEF TypeOK
<1>3. QED
  BY <1>1, <1>2 DEF Supervised, ActiveHasTask, OrphansAreTranscripts, QuitLeavesNoTask

(* A step that touches neither table and shows no other session.           *)
LEMMA Bystander ==
    ASSUME Supervised, UNCHANGED <<up, active, tasks>>,
           detail' = detail \/ detail' = EmptyDetail, view'.stopped = view.stopped
    PROVE  Supervised'
BY KindsDiffer DEF Supervised, ActiveHasTask, OrphansAreTranscripts, OpenSessionFollowed,
                   QuitLeavesNoTask

LEMMA SupervisionStep ==
    ASSUME TypeOK, Supervised, [Next]_vars
    PROVE  Supervised'
<1> USE KindsDiffer
<1>1. ASSUME NEW s \in Sessions, NEW stopped \in BOOLEAN, up, ShowSession(s, stopped)
      PROVE  Supervised'
  <2>1. Closed(Transcript(s)) \in SUBSET StreamIds
    BY ClosedStreams
  <2>2. ActiveHasTask' /\ OrphansAreTranscripts' /\ QuitLeavesNoTask'
    BY <1>1, <2>1, Reopened DEF ShowSession
  <2>3. OpenSessionFollowed'
    BY <1>1 DEF ShowSession, OpenSessionFollowed
  <2>4. QED
    BY <2>2, <2>3 DEF Supervised
<1>2. ASSUME NEW r \in Runs, OpenRun(r) PROVE Supervised'
  <2>1. Closed(RunEvents(r)) \in SUBSET StreamIds
    BY ClosedStreams
  <2>2. ActiveHasTask' /\ OrphansAreTranscripts' /\ QuitLeavesNoTask'
    BY <1>2, <2>1, Reopened DEF OpenRun
  <2>3. OpenSessionFollowed'
    BY <1>2 DEF OpenRun, OpenSessionFollowed
  <2>4. QED
    BY <2>2, <2>3 DEF Supervised
<1>3. ASSUME NEW x \in LogScopes, OpenLogs(x) PROVE Supervised'
  <2>1. ActiveHasTask' /\ OrphansAreTranscripts' /\ QuitLeavesNoTask'
    BY <1>3, Started DEF OpenLogs
  <2>2. OpenSessionFollowed'
    BY <1>3 DEF OpenLogs, Supervised, OpenSessionFollowed
  <2>3. QED
    BY <2>1, <2>2 DEF Supervised
<1>4. CASE CloseLogs
  <2>1. {overlay} \in SUBSET StreamIds
    BY <1>4 DEF CloseLogs
  <2>2. ActiveHasTask' /\ OrphansAreTranscripts' /\ QuitLeavesNoTask'
    BY <1>4, <2>1, Stopped DEF CloseLogs
  <2>3. OpenSessionFollowed'
    BY <1>4 DEF CloseLogs, Supervised, OpenSessionFollowed
  <2>4. QED
    BY <2>2, <2>3 DEF Supervised
<1>5. CASE ToggleErrorOnly
  <2>1. overlay \in StreamIds /\ {overlay} \in SUBSET StreamIds
    BY <1>5 DEF ToggleErrorOnly
  <2>2. active' = (active \ {overlay}) \cup {overlay}
    BY <1>5 DEF ToggleErrorOnly
  <2>3. ActiveHasTask' /\ OrphansAreTranscripts' /\ QuitLeavesNoTask'
    BY <1>5, <2>1, <2>2, Reopened DEF ToggleErrorOnly
  <2>4. OpenSessionFollowed'
    BY <1>5 DEF ToggleErrorOnly, Supervised, OpenSessionFollowed
  <2>5. QED
    BY <2>3, <2>4 DEF Supervised
<1>6. CASE OpenPicker
  BY <1>6, Bystander DEF OpenPicker
<1>7. CASE CloseOverlay
  BY <1>7, Bystander DEF CloseOverlay
<1>8. ASSUME NEW w \in Workspaces, SwitchWorkspace(w) PROVE Supervised'
  <2>1. active \in SUBSET StreamIds
    BY DEF TypeOK
  <2>2. active' = (active \ active) \cup {Catalog}
    BY <1>8 DEF SwitchWorkspace
  <2>3. ActiveHasTask' /\ OrphansAreTranscripts' /\ QuitLeavesNoTask'
    BY <1>8, <2>1, <2>2, Reopened DEF SwitchWorkspace
  <2>4. OpenSessionFollowed'
    BY <1>8 DEF SwitchWorkspace, OpenSessionFollowed
  <2>5. QED
    BY <2>3, <2>4 DEF Supervised
<1>9. CASE Quit
  <2>1. \A i \in StreamIds : tasks'[i] = "none"
    BY <1>9, TaskEntries DEF Quit
  <2>2. QED
    BY <1>9, <2>1 DEF Quit, Supervised, ActiveHasTask, OrphansAreTranscripts,
                      OpenSessionFollowed, QuitLeavesNoTask
<1>10. ASSUME NEW s \in Sessions, SendPrompt(s) PROVE Supervised'
  BY <1>10, Bystander DEF SendPrompt, ui
<1>11. ASSUME NEW s \in Sessions, PromptAccepted(s) PROVE Supervised'
  <2>1. CASE detail = Transcript(s) /\ (view.stopped \/ view.stream = "stopped")
    <3>1. ActiveHasTask' /\ OrphansAreTranscripts' /\ QuitLeavesNoTask'
      BY <1>11, <2>1, Started DEF PromptAccepted
    <3>2. OpenSessionFollowed'
      BY <1>11, <2>1 DEF PromptAccepted, OpenSessionFollowed
    <3>3. QED
      BY <3>1, <3>2 DEF Supervised
  <2>2. CASE detail = Transcript(s) /\ ~view.stopped /\ view.stream # "stopped"
    <3>1. detail \in active
      BY <1>11, <2>2 DEF PromptAccepted, Supervised, OpenSessionFollowed
    <3>2. UNCHANGED <<up, detail, active, tasks>>
      BY <1>11, <2>2 DEF PromptAccepted
    <3>3. QED
      BY <3>1, <3>2 DEF Supervised, ActiveHasTask, OrphansAreTranscripts,
                        OpenSessionFollowed, QuitLeavesNoTask
  <2>3. CASE detail # Transcript(s)
    BY <1>11, <2>3, Bystander DEF PromptAccepted
  <2>4. QED
    BY <2>1, <2>2, <2>3
<1>12. ASSUME NEW r \in Requests, RequestFailed(r) PROVE Supervised'
  BY <1>12, Bystander DEF RequestFailed, ui
<1>13. CASE AnswerClarification
  BY <1>13, Bystander DEF AnswerClarification, ui
<1>14. CASE ClarificationAnswered
  BY <1>14, Bystander DEF ClarificationAnswered
<1>15. ASSUME NEW s \in Sessions, FetchOlder(s) PROVE Supervised'
  <2>1. view'.stopped = view.stopped
    BY <1>15 DEF FetchOlder, TypeOK, Views
  <2>2. QED
    BY <1>15, <2>1, Bystander DEF FetchOlder
<1>16. ASSUME NEW s \in Sessions, PageArrived(s) PROVE Supervised'
  <2>1. CASE detail = Transcript(s) /\ view.stopped
    <3>1. up /\ up' = up /\ tasks' = tasks /\ active' = active \ {Transcript(s)}
      BY <1>16, <2>1 DEF PageArrived
    <3>2. view'.stopped /\ detail' = detail
      BY <1>16, <2>1 DEF PageArrived, TypeOK, Views
    <3>3. QED
      BY <3>1, <3>2 DEF Supervised, ActiveHasTask, OrphansAreTranscripts,
                        OpenSessionFollowed, QuitLeavesNoTask
  <2>2. CASE detail = Transcript(s) /\ ~view.stopped
    <3>1. ActiveHasTask' /\ OrphansAreTranscripts' /\ QuitLeavesNoTask'
      BY <1>16, <2>2, Started DEF PageArrived
    <3>2. OpenSessionFollowed'
      BY <1>16, <2>2 DEF PageArrived, OpenSessionFollowed
    <3>3. QED
      BY <3>1, <3>2 DEF Supervised
  <2>3. CASE detail # Transcript(s)
    BY <1>16, <2>3, Bystander DEF PageArrived
  <2>4. QED
    BY <2>1, <2>2, <2>3
<1>17. ASSUME NEW r \in Runs, RunArrived(r) PROVE Supervised'
  BY <1>17, Bystander DEF RunArrived, ui
<1>18. ASSUME NEW r \in Runs, RunNotFound(r) PROVE Supervised'
  BY <1>18, Bystander DEF RunNotFound
<1>19. ASSUME NEW s \in Sessions, SessionsListed(s) PROVE Supervised'
  <2>1. ActiveHasTask' /\ OrphansAreTranscripts' /\ QuitLeavesNoTask'
    BY <1>19, Started DEF SessionsListed
  <2>2. OpenSessionFollowed'
    BY <1>19 DEF SessionsListed, OpenSessionFollowed
  <2>3. QED
    BY <2>1, <2>2 DEF Supervised
<1>20. ASSUME NEW id \in StreamIds, NEW e \in Events, Emit(id, e) PROVE Supervised'
  <2>1. UNCHANGED <<up, active, detail, view>> /\ up
    BY <1>20 DEF Emit, ui
  <2>2. \A i \in StreamIds : tasks'[i] = "none" <=> tasks[i] = "none"
    BY <1>20 DEF Emit, TypeOK
  <2>3. active \in SUBSET StreamIds
    BY DEF TypeOK
  <2>4. QED
    BY <2>1, <2>2, <2>3 DEF Supervised, ActiveHasTask, OrphansAreTranscripts,
                            OpenSessionFollowed, QuitLeavesNoTask
<1>21. CASE ReceiveIgnored
  BY <1>21, Bystander DEF ReceiveIgnored, Receive
<1>22. CASE ReceiveEnd
  <2>1. {Head(inbox).id} \in SUBSET StreamIds
    BY <1>22, InboxHead DEF ReceiveEnd, Receive
  <2>2. up /\ up' = up
    BY <1>22 DEF ReceiveEnd, Receive
  <2>3. ActiveHasTask' /\ OrphansAreTranscripts' /\ QuitLeavesNoTask'
    BY <1>22, <2>1, <2>2, Stopped DEF ReceiveEnd
  <2>4. OpenSessionFollowed'
    <3>1. detail' = detail /\ detail = Head(inbox).id
      BY <1>22 DEF ReceiveEnd, Receive, HeardByDetail
    <3>2. detail \in TranscriptStreams => view'.stopped
      BY <1>22, <3>1 DEF ReceiveEnd, TypeOK, Views
    <3>3. QED
      BY <3>1, <3>2 DEF OpenSessionFollowed
  <2>5. QED
    BY <2>3, <2>4 DEF Supervised
<1>23. CASE ReceiveStatus
  <2>1. view'.stopped = view.stopped
    BY <1>23 DEF ReceiveStatus, TypeOK, Views
  <2>2. QED
    BY <1>23, <2>1, Bystander DEF ReceiveStatus, Receive
<1>24. CASE ReceiveGap
  <2>1. view' \in {view, [view EXCEPT !.fetching = TRUE]}
    BY <1>24 DEF ReceiveGap
  <2>2. view'.stopped = view.stopped
    BY <2>1 DEF TypeOK, Views
  <2>3. QED
    BY <1>24, <2>2, Bystander DEF ReceiveGap, Receive
<1>25. CASE ReceiveCursorReset
  <2>1. Head(inbox).id \in StreamIds /\ active' = active \cup {Head(inbox).id}
    BY <1>25, InboxHead DEF ReceiveCursorReset, Receive, Heard
  <2>2. up /\ up' = up
    BY <1>25 DEF ReceiveCursorReset, Receive
  <2>3. ActiveHasTask' /\ OrphansAreTranscripts' /\ QuitLeavesNoTask'
    BY <1>25, <2>1, <2>2, Started DEF ReceiveCursorReset
  <2>4. OpenSessionFollowed'
    BY <1>25 DEF ReceiveCursorReset, Receive, Supervised, OpenSessionFollowed
  <2>5. QED
    BY <2>3, <2>4 DEF Supervised
<1>26. CASE UNCHANGED vars
  BY <1>26, Bystander DEF vars
<1>27. ASSUME NEW s \in Sessions, NEW stopped \in BOOLEAN,
              OpenSession(s, stopped) \/ OpenClarify(s, stopped)
       PROVE  up /\ ShowSession(s, stopped)
  BY <1>27 DEF OpenSession, OpenClarify
<1>28. QED
  BY <1>1, <1>2, <1>3, <1>4, <1>5, <1>6, <1>7, <1>8, <1>9, <1>10, <1>11, <1>12, <1>13,
     <1>14, <1>15, <1>16, <1>17, <1>18, <1>19, <1>20, <1>21, <1>22, <1>23, <1>24, <1>25,
     <1>26, <1>27 DEF Next, Keys, Responses, Streams

LEMMA SupervisionInvariant == Spec => []Supervised
<1>1. Init => Supervised
  BY KindsDiffer DEF Init, Supervised, ActiveHasTask, OrphansAreTranscripts,
                     OpenSessionFollowed, QuitLeavesNoTask
<1>2. TypeOK /\ Supervised /\ [Next]_vars => Supervised'
  BY SupervisionStep
<1>3. QED
  BY <1>1, <1>2, TypeCorrect, PTL DEF Spec

(* No handler marks a stream active without starting it, or stops a stream *)
(* another one counts on.                                                  *)
THEOREM ActiveStreamsHaveTasks == Spec => []ActiveHasTask
BY SupervisionInvariant, PTL DEF Supervised

(* Only transcript tasks can outlive their place in active_streams.        *)
THEOREM OnlyTranscriptsOrphaned == Spec => []OrphansAreTranscripts
BY SupervisionInvariant, PTL DEF Supervised

(* The session on screen is followed unless it is stopped.                 *)
THEOREM OpenSessionIsFollowed == Spec => []OpenSessionFollowed
BY SupervisionInvariant, PTL DEF Supervised

(* Quitting leaves no stream task behind.                                  *)
THEOREM QuitStopsEverything == Spec => []QuitLeavesNoTask
BY SupervisionInvariant, PTL DEF Supervised

-----------------------------------------------------------------------------
LEMMA RestartStep ==
    ASSUME TypeOK, Next, detail' = detail, detail \in TranscriptStreams,
           view.stopped, ~view'.stopped
    PROVE  detail \in active' /\ tasks'[detail] = "running"
<1> USE KindsDiffer
<1>1. ASSUME NEW id \in StreamIds, detail = id
      PROVE  /\ StartTask(id)[id] = "running"
             /\ StopAndStart(Closed(id), id)[id] = "running"
  <2>1. Closed(id) \in SUBSET StreamIds
    BY ClosedStreams
  <2>2. StartTask(id)[id] = "running"
    BY TaskEntries
  <2>3. StopAndStart(Closed(id), id)[id] = "running"
    BY <2>1, TaskEntries
  <2>4. QED
    BY <2>2, <2>3
<1>2. ASSUME NEW s \in Sessions, NEW stopped \in BOOLEAN,
             OpenSession(s, stopped) \/ OpenClarify(s, stopped)
      PROVE  detail \in active' /\ tasks'[detail] = "running"
  BY <1>1, <1>2 DEF OpenSession, OpenClarify, ShowSession
<1>3. ASSUME NEW s \in Sessions, PromptAccepted(s)
      PROVE  detail \in active' /\ tasks'[detail] = "running"
  BY <1>1, <1>3 DEF PromptAccepted
<1>4. ASSUME NEW s \in Sessions, SessionsListed(s)
      PROVE  detail \in active' /\ tasks'[detail] = "running"
  BY <1>1, <1>4 DEF SessionsListed
(* Every other step shows another panel or leaves view.stopped set.        *)
<1>5. ASSUME NEW r \in Runs, OpenRun(r) PROVE FALSE
  BY <1>5 DEF OpenRun
<1>6. ASSUME NEW w \in Workspaces, SwitchWorkspace(w) PROVE FALSE
  BY <1>6 DEF SwitchWorkspace
<1>7. ASSUME NEW s \in Sessions, FetchOlder(s) PROVE FALSE
  BY <1>7 DEF FetchOlder, TypeOK, Views
<1>8. ASSUME NEW s \in Sessions, PageArrived(s) PROVE FALSE
  <2>1. view' \in {view, [view EXCEPT !.fetching = FALSE]}
    BY <1>8 DEF PageArrived
  <2>2. QED
    BY <2>1 DEF TypeOK, Views
<1>9. CASE ReceiveEnd
  BY <1>9 DEF ReceiveEnd, TypeOK, Views
<1>10. CASE ReceiveStatus
  BY <1>10 DEF ReceiveStatus, TypeOK, Views
<1>11. CASE ReceiveGap
  <2>1. view' \in {view, [view EXCEPT !.fetching = TRUE]}
    BY <1>11 DEF ReceiveGap
  <2>2. QED
    BY <2>1 DEF TypeOK, Views
<1>12. CASE \/ \E x \in LogScopes : OpenLogs(x)
            \/ CloseLogs \/ ToggleErrorOnly \/ OpenPicker \/ CloseOverlay \/ Quit
  BY <1>12 DEF OpenLogs, CloseLogs, ToggleErrorOnly, CloseOverlay, Quit, OpenPicker
<1>13. CASE \/ \E s \in Sessions : SendPrompt(s)
            \/ \E r \in Requests : RequestFailed(r)
            \/ AnswerClarification \/ ClarificationAnswered
            \/ \E r \in Runs : RunArrived(r) \/ RunNotFound(r)
  BY <1>13 DEF SendPrompt, RequestFailed, AnswerClarification, ClarificationAnswered,
               RunArrived, RunNotFound, ui
<1>14. CASE \/ \E id \in StreamIds, e \in Events : Emit(id, e)
            \/ ReceiveIgnored \/ ReceiveCursorReset
  BY <1>14 DEF Emit, ReceiveIgnored, ReceiveCursorReset, ui
<1>15. QED
  BY <1>2, <1>3, <1>4, <1>5, <1>6, <1>7, <1>8, <1>9, <1>10, <1>11, <1>12, <1>13, <1>14
     DEF Next, Keys, Responses, Streams

(* A session panel leaves "stopped" only together with a new stream task.  *)
THEOREM RestartsAreLive == Spec => RestartIsLive
<1>1. TypeOK /\ [Next]_vars
        => [detail' = detail /\ detail \in TranscriptStreams /\ view.stopped /\ ~view'.stopped
              => detail \in active' /\ tasks'[detail] = "running"]_vars
  BY RestartStep
<1>2. QED
  BY <1>1, TypeCorrect, PTL DEF Spec, RestartIsLive
=============================================================================
