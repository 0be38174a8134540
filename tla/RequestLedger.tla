---------------------------- MODULE RequestLedger ----------------------------
(***************************************************************************)
(* Which answer belongs to which request.                                  *)
(*                                                                         *)
(* Model.pending and Model.late_writes (batuta-tui/src/app/model.rs) and   *)
(* the runtime's Tasks.requests are all keyed by RequestId, a counter of   *)
(* the Model.  Switching workspaces builds a new Model, whose counter      *)
(* starts again at 1, while the requests of the old one are still running  *)
(* and their answers may already be queued for the update loop.            *)
(*                                                                         *)
(* One step is one message taken by the loop, or one HTTP request ending.  *)
(* What an answer does to the panels is left out.                          *)
(***************************************************************************)
EXTENDS Naturals, Sequences

CONSTANTS
    MaxId,          \* bound: requests of one Model
    MaxSwitches,    \* bound: workspace switches
    MaxInbox        \* bound: answers queued for the update loop

ASSUME BoundsAssumption ==
    /\ MaxId \in Nat /\ MaxId > 3 /\ MaxSwitches \in Nat /\ MaxInbox \in Nat \ {0}

VARIABLES
    model,          \* history: how many Models there were before the present one
    next,           \* Model.next_request
    pending,        \* Model.pending
    late,           \* Model.late_writes
    tasks,          \* Tasks.requests: what the task kept under an id asked for
    unsent,         \* requests running whose answer is not sent yet
    inbox,          \* Msg::Api messages in the mpsc channel, oldest first
    collided        \* history: an id was given out while still in use

vars == <<model, next, pending, late, tasks, unsent, inbox, collided>>

-----------------------------------------------------------------------------
(* cmd::Request, told apart by Request::is_write only.                     *)
Kinds == {"read", "write"}

Ids == 1..MaxId
Requests == [id : Ids, kind : Kinds, model : 0..MaxSwitches]
None == [id |-> 0, kind |-> "none", model |-> 0]
Empty == [i \in Ids |-> None]

Ask(i, kind, m) == [id |-> i, kind |-> kind, model |-> m]

(* Model::initial_cmds: sessions, runs and overview are read, with the     *)
(* first ids.                                                              *)
BootIds == 1..3

(* Mutation: a request is built after the counter moved on.                *)
BootShifted(m) == [i \in Ids |-> IF i \in BootIds THEN Ask(i + 1, "read", m) ELSE None]
Boot(m) == [i \in Ids |-> IF i \in BootIds THEN Ask(i, "read", m) ELSE None]
BootRequests(m) == {Ask(i, "read", m) : i \in BootIds}

(* An id is in use by an earlier Model when a write of it is remembered,   *)
(* or an answer to it is still to come or to be taken.                     *)
InUse(i, m) ==
    \/ late[i] # None
    \/ \E r \in unsent : r.id = i /\ r.model # m
    \/ \E k \in DOMAIN inbox : inbox[k].id = i /\ inbox[k].model # m

(* runtime::execute on Get and Post: a task kept under the same id is      *)
(* aborted, so what it was to send never comes.                            *)
Unaborted(ids) == {r \in unsent : ~(r.id \in ids /\ tasks[r.id] = r)}

Init ==
    /\ model = 0
    /\ next = 4
    /\ pending = Boot(0)
    /\ late = Empty
    /\ tasks = Boot(0)
    /\ unsent = BootRequests(0)
    /\ inbox = <<>>
    /\ collided = FALSE

-----------------------------------------------------------------------------
(* Mutation: the counter is not advanced.                                  *)
IssueSameId(kind) ==
    LET r == Ask(next, kind, model) IN
    /\ next <= MaxId
    /\ pending' = [pending EXCEPT ![next] = r]
    /\ tasks' = [tasks EXCEPT ![next] = r]
    /\ unsent' = Unaborted({next}) \cup {r}
    /\ collided' = (collided \/ InUse(next, model))
    /\ UNCHANGED <<model, next, late, inbox>>

(* Model::allocate, then Cmd::Get or Cmd::Post.                            *)
Issue(kind) ==
    LET r == Ask(next, kind, model) IN
    /\ next <= MaxId
    /\ next' = next + 1
    /\ pending' = [pending EXCEPT ![next] = r]
    /\ tasks' = [tasks EXCEPT ![next] = r]
    /\ unsent' = Unaborted({next}) \cup {r}
    /\ collided' = (collided \/ InUse(next, model))
    /\ UNCHANGED <<model, late, inbox>>

(* picker::switch: only the writes still pending are remembered.           *)
Switch ==
    /\ model < MaxSwitches
    /\ model' = model + 1
    /\ next' = 4
    /\ late' = [i \in Ids |-> IF pending[i].kind = "write" THEN pending[i] ELSE None]
    /\ pending' = Boot(model')
    /\ tasks' = [i \in Ids |-> IF i \in BootIds THEN Boot(model')[i] ELSE tasks[i]]
    /\ unsent' = Unaborted(BootIds) \cup BootRequests(model')
    /\ collided' = (collided \/ \E i \in BootIds : InUse(i, model'))
    /\ UNCHANGED inbox

(* The future of a request resolves: a response, or an error, the client's *)
(* request timeout among them.                                             *)
Complete(r) ==
    /\ r \in unsent
    /\ Len(inbox) < MaxInbox
    /\ unsent' = unsent \ {r}
    /\ inbox' = Append(inbox, r)
    /\ UNCHANGED <<model, next, pending, late, tasks, collided>>

(* Mutation: the entry of a late write is looked at and left.              *)
DeliverLateKept ==
    LET i == Head(inbox).id IN
    /\ inbox # <<>>
    /\ inbox' = Tail(inbox)
    /\ tasks' = [tasks EXCEPT ![i] = None]
    /\ late[i] # None
    /\ UNCHANGED <<model, next, pending, late, unsent, collided>>

(* runtime::run_with_messages drops the handle kept under the id; api::api *)
(* looks for a late write of that id first.                                *)
DeliverLate ==
    LET i == Head(inbox).id IN
    /\ inbox # <<>>
    /\ inbox' = Tail(inbox)
    /\ tasks' = [tasks EXCEPT ![i] = None]
    /\ late[i] # None
    /\ late' = [late EXCEPT ![i] = None]
    /\ UNCHANGED <<model, next, pending, unsent, collided>>

(* Mutation: the pending entry is read and left.                           *)
DeliverKept ==
    LET i == Head(inbox).id IN
    /\ inbox # <<>>
    /\ inbox' = Tail(inbox)
    /\ tasks' = [tasks EXCEPT ![i] = None]
    /\ late[i] = None
    /\ UNCHANGED <<model, next, pending, late, unsent, collided>>

(* Then api::api takes the pending request of that id; without one the     *)
(* answer is dropped.                                                      *)
Deliver ==
    LET i == Head(inbox).id IN
    /\ inbox # <<>>
    /\ inbox' = Tail(inbox)
    /\ tasks' = [tasks EXCEPT ![i] = None]
    /\ late[i] = None
    /\ pending' = [pending EXCEPT ![i] = None]
    /\ UNCHANGED <<model, next, late, unsent, collided>>

Next ==
    \/ \E kind \in Kinds : Issue(kind)
    \/ Switch
    \/ \E r \in Requests : Complete(r)
    \/ DeliverLate
    \/ Deliver

(* Every request ends, by its timeout at the latest, and the update loop   *)
(* keeps taking messages.                                                  *)
Fairness ==
    /\ \A r \in Requests : WF_vars(Complete(r))
    /\ WF_vars(DeliverLate \/ Deliver)

Spec == Init /\ [][Next]_vars /\ Fairness

-----------------------------------------------------------------------------
(* Type invariant.  Each table holds under an id only requests of that id. *)
TypeOK ==
    /\ model \in 0..MaxSwitches
    /\ next \in 4..(MaxId + 1)
    /\ pending \in [Ids -> Requests \cup {None}]
    /\ late \in [Ids -> Requests \cup {None}]
    /\ tasks \in [Ids -> Requests \cup {None}]
    /\ \A i \in Ids : \A r \in {pending[i], late[i], tasks[i]} : r # None => r.id = i
    /\ unsent \subseteq Requests
    /\ inbox \in Seq(Requests)
    /\ collided \in BOOLEAN

(* The answer to r is still to come, or queued.                            *)
OnItsWay(r) == r \in unsent \/ \E k \in DOMAIN inbox : inbox[k] = r

(* As long as no id of an earlier Model was given out again while in use,  *)
(* every entry of the two tables waits for an answer that is on its way:   *)
(* the abort in execute never takes the answer of a request the Model      *)
(* still counts on.                                                        *)
EntriesAreBacked ==
    ~collided => \A i \in Ids :
        /\ pending[i] # None => OnItsWay(pending[i])
        /\ late[i] # None => OnItsWay(late[i])

(* Under the same condition, the answer that takes an entry out of pending *)
(* or late_writes is the answer to the request the entry stands for:       *)
(* api::api never applies one request's answer to another's entry.         *)
AnswersTheirRequest ==
    [][ \A i \in Ids :
          /\ pending[i] # None /\ pending'[i] = None /\ model' = model
                => collided \/ pending[i] = Head(inbox)
          /\ late[i] # None /\ late'[i] = None /\ model' = model
                => collided \/ late[i] = Head(inbox) ]_vars

(* Under the same condition no request is left pending for ever: the       *)
(* flags the panels clear with the answer (fetching, prompt_pending) are   *)
(* cleared.                                                                *)
PendingIsAnswered ==
    \A i \in Ids : pending[i] # None ~> (pending[i] = None \/ collided)
=============================================================================
