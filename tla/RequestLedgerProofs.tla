------------------------- MODULE RequestLedgerProofs -------------------------
(***************************************************************************)
(* Proofs about RequestLedger for any number of requests, switches and     *)
(* queued answers.                                                         *)
(***************************************************************************)
EXTENDS RequestLedger, SequenceTheorems, TLAPS

(* What the tables and the answers say of the Models that made them: ids   *)
(* are given out in order, and the boot reads have the first ones.         *)
Recorded ==
    /\ \A i \in Ids : pending[i] # None =>
          /\ pending[i].model = model
          /\ i < next
          /\ i \in BootIds => pending[i].kind = "read"
    /\ \A r \in Requests : OnItsWay(r) =>
          /\ r.model <= model
          /\ r.model = model => r.id < next

(* As long as no id was given out again while in use, an id is in one of   *)
(* the two tables at most, and every answer with that id is its answer.    *)
OneOwner ==
    ~collided => \A i \in Ids :
        /\ pending[i] # None => late[i] = None
        /\ \A r \in Requests : OnItsWay(r) /\ r.id = i =>
              pending[i] \in {None, r} /\ late[i] \in {None, r}

(* OnItsWay after the step, for an answer named before it.                 *)
OnItsWayNext(r) == r \in unsent' \/ \E k \in DOMAIN inbox' : inbox'[k] = r

(* The inductive invariant. *)
Ledger == TypeOK /\ Recorded /\ OneOwner /\ EntriesAreBacked

-----------------------------------------------------------------------------
LEMMA Bounds == MaxId \in Nat /\ MaxId > 3 /\ MaxSwitches \in Nat
BY BoundsAssumption

LEMMA Entries ==
    ASSUME NEW m \in 0..MaxSwitches
    PROVE  /\ BootIds \subseteq Ids
           /\ \A r \in Requests : r # None /\ r.id \in Ids /\ r.id # 0
           /\ Empty \in [Ids -> Requests \cup {None}]
           /\ Boot(m) \in [Ids -> Requests \cup {None}]
           /\ BootRequests(m) \subseteq Requests
           /\ \A i \in Ids : i \in BootIds =>
                 /\ Boot(m)[i] = Ask(i, "read", m)
                 /\ Boot(m)[i] \in BootRequests(m)
           /\ \A i \in Ids : i \notin BootIds => Boot(m)[i] = None
           /\ \A i \in Ids : Boot(m)[i] # None =>
                 /\ i \in BootIds
                 /\ Boot(m)[i].id = i /\ Boot(m)[i].model = m /\ Boot(m)[i].kind = "read"
           /\ \A r \in BootRequests(m) :
                 r.id \in BootIds /\ r.model = m /\ r = Boot(m)[r.id]
<1>1. BootIds \subseteq Ids
  BY Bounds DEF BootIds, Ids
<1>2. \A r \in Requests : r # None /\ r.id \in Ids /\ r.id # 0
  BY Bounds DEF Ids, Requests, None
<1>3. \A i \in BootIds : Ask(i, "read", m) \in Requests
  BY <1>1 DEF Requests, Ask, Kinds
<1>4. /\ Empty \in [Ids -> Requests \cup {None}]
      /\ Boot(m) \in [Ids -> Requests \cup {None}]
      /\ BootRequests(m) \subseteq Requests
  BY <1>3 DEF Empty, Boot, BootRequests
<1>5. \A i \in Ids : i \in BootIds =>
          Boot(m)[i] = Ask(i, "read", m) /\ Boot(m)[i] \in BootRequests(m)
  BY DEF Boot, BootRequests
<1>6. \A i \in Ids : i \notin BootIds => Boot(m)[i] = None
  BY DEF Boot
<1>7. \A r \in BootRequests(m) : r.id \in BootIds /\ r.model = m /\ r = Boot(m)[r.id]
  BY <1>1 DEF Boot, BootRequests, Ask
<1>8. \A i \in BootIds : LET r == Ask(i, "read", m) IN r.id = i /\ r.model = m /\ r.kind = "read"
  BY DEF Ask
<1>9. QED
  BY <1>1, <1>2, <1>4, <1>5, <1>6, <1>7, <1>8

(* The answer at the head of the queue, and what is on its way after it    *)
(* was taken.                                                              *)
LEMMA HeadTaken ==
    ASSUME TypeOK, inbox # <<>>, inbox' = Tail(inbox), UNCHANGED unsent
    PROVE  /\ Head(inbox) \in Requests
           /\ OnItsWay(Head(inbox))
           /\ inbox' \in Seq(Requests)
           /\ \A r : OnItsWayNext(r) => OnItsWay(r)
           /\ \A r : OnItsWay(r) /\ r # Head(inbox) => OnItsWayNext(r)
<1>1. inbox \in Seq(Requests)
  BY DEF TypeOK
<1>2. /\ Head(inbox) \in Requests /\ Tail(inbox) \in Seq(Requests)
      /\ Len(inbox) \in Nat \ {0} /\ Len(Tail(inbox)) = Len(inbox) - 1
      /\ DOMAIN inbox = 1..Len(inbox) /\ DOMAIN Tail(inbox) = 1..(Len(inbox) - 1)
      /\ Head(inbox) = inbox[1]
      /\ \A k \in 1..(Len(inbox) - 1) : Tail(inbox)[k] = inbox[k + 1]
  BY <1>1
<1>3. OnItsWay(Head(inbox))
  BY <1>2 DEF OnItsWay
<1>4. ASSUME NEW r, OnItsWayNext(r) PROVE OnItsWay(r)
  BY <1>2, <1>4 DEF OnItsWay, OnItsWayNext
<1>5. ASSUME NEW r, OnItsWay(r), r # Head(inbox) PROVE OnItsWayNext(r)
  <2>1. CASE r \in unsent
    BY <2>1 DEF OnItsWay, OnItsWayNext
  <2>2. CASE \E k \in DOMAIN inbox : inbox[k] = r
    <3>1. PICK k \in 1..Len(inbox) : inbox[k] = r
      BY <2>2, <1>2
    <3>2. k - 1 \in 1..(Len(inbox) - 1) /\ Tail(inbox)[k - 1] = r
      BY <3>1, <1>2, <1>5
    <3>3. QED
      BY <3>2, <1>2 DEF OnItsWay, OnItsWayNext
  <2>3. QED
    BY <1>5, <2>1, <2>2 DEF OnItsWay, OnItsWayNext
<1>6. QED
  BY <1>2, <1>3, <1>4, <1>5

(* An answer that is queued is as much on its way as before.               *)
LEMMA Queued ==
    ASSUME TypeOK, NEW q \in Requests, Complete(q)
    PROVE  /\ inbox' \in Seq(Requests)
           /\ \A r : OnItsWayNext(r) <=> OnItsWay(r)
<1>1. inbox \in Seq(Requests) /\ inbox' = Append(inbox, q)
  BY DEF TypeOK, Complete
<1>2. /\ inbox' \in Seq(Requests)
      /\ Len(inbox) \in Nat /\ DOMAIN inbox = 1..Len(inbox)
      /\ DOMAIN inbox' = 1..(Len(inbox) + 1)
      /\ inbox'[Len(inbox) + 1] = q
      /\ \A k \in 1..Len(inbox) : inbox'[k] = inbox[k]
  BY <1>1
<1>3. ASSUME NEW r PROVE (\E k \in DOMAIN inbox' : inbox'[k] = r)
                            <=> (r = q \/ \E k \in DOMAIN inbox : inbox[k] = r)
  BY <1>2
<1>4. QED
  BY <1>2, <1>3 DEF OnItsWay, OnItsWayNext, Complete

(* The abort in execute only reaches requests of the ids given out.        *)
LEMMA AbortedIds ==
    ASSUME NEW ids
    PROVE  /\ Unaborted(ids) \subseteq unsent
           /\ \A r \in unsent : r.id \notin ids => r \in Unaborted(ids)
BY DEF Unaborted
-----------------------------------------------------------------------------
(* Type correctness.                                                       *)

LEMMA TypeStep == TypeOK /\ [Next]_vars => TypeOK'
<1> SUFFICES ASSUME TypeOK, [Next]_vars PROVE TypeOK'
  OBVIOUS
<1> USE Bounds
<1> DEFINE Tables == [Ids -> Requests \cup {None}]
<1>1. ASSUME NEW kind \in Kinds, Issue(kind) PROVE TypeOK'
  <2> DEFINE r == Ask(next, kind, model)
  <2>1. next \in Ids /\ next + 1 \in 4..(MaxId + 1)
    BY <1>1 DEF Issue, TypeOK, Ids
  <2>2. r \in Requests /\ r.id = next
    BY <2>1 DEF Requests, Ask, TypeOK
  <2>3. Unaborted({next}) \subseteq Requests
    BY AbortedIds DEF TypeOK
  <2>4. /\ pending' \in Tables /\ tasks' \in Tables /\ late' \in Tables
        /\ \A i \in Ids : \A q \in {pending'[i], late'[i], tasks'[i]} : q # None => q.id = i
    BY <1>1, <2>1, <2>2 DEF Issue, TypeOK
  <2>5. collided' \in BOOLEAN
    BY <1>1, Zenon DEF Issue, TypeOK, InUse
  <2>6. QED
    BY <1>1, <2>1, <2>2, <2>3, <2>4, <2>5 DEF Issue, TypeOK
<1>2. ASSUME Switch PROVE TypeOK'
  <2>1. model' \in 0..MaxSwitches
    BY <1>2 DEF Switch, TypeOK
  <2>2. pending' \in Tables /\ \A i \in Ids : pending'[i] # None => pending'[i].id = i
    BY <1>2, <2>1, Entries DEF Switch
  <2>3. late' \in Tables /\ \A i \in Ids : late'[i] # None => late'[i].id = i
    BY <1>2 DEF Switch, TypeOK
  <2>4. tasks' \in Tables /\ \A i \in Ids : tasks'[i] # None => tasks'[i].id = i
    <3> DEFINE boot == Boot(model')
    <3>1. boot \in Tables /\ \A i \in Ids : boot[i] # None => boot[i].id = i
      BY <2>1, Entries
    <3>2. tasks' = [i \in Ids |-> IF i \in BootIds THEN boot[i] ELSE tasks[i]]
      BY <1>2 DEF Switch
    <3> HIDE DEF boot
    <3>3. QED
      BY <3>1, <3>2 DEF TypeOK
  <2>5. unsent' \subseteq Requests
    BY <1>2, <2>1, Entries, AbortedIds DEF Switch, TypeOK
  <2>6. collided' \in BOOLEAN
    BY <1>2, Zenon DEF Switch, TypeOK, InUse
  <2>7. QED
    BY <1>2, <2>1, <2>2, <2>3, <2>4, <2>5, <2>6 DEF Switch, TypeOK
<1>3. ASSUME NEW q \in Requests, Complete(q) PROVE TypeOK'
  BY <1>3, Queued DEF Complete, TypeOK
<1>4. ASSUME DeliverLate \/ Deliver PROVE TypeOK'
  <2>1. Head(inbox) \in Requests /\ inbox' \in Seq(Requests)
    BY <1>4, HeadTaken DEF DeliverLate, Deliver
  <2>2. Head(inbox).id \in Ids
    BY <2>1, Entries, Bounds DEF Requests
  <2>3. CASE DeliverLate
    BY <2>1, <2>2, <2>3 DEF DeliverLate, TypeOK
  <2>4. CASE Deliver
    BY <2>1, <2>2, <2>4 DEF Deliver, TypeOK
  <2>5. QED
    BY <1>4, <2>3, <2>4
<1>5. CASE UNCHANGED vars
  BY <1>5 DEF vars, TypeOK
<1>6. QED
  BY <1>1, <1>2, <1>3, <1>4, <1>5 DEF Next

LEMMA TypeInit == Init => TypeOK
<1> SUFFICES ASSUME Init PROVE TypeOK
  OBVIOUS
<1>1. 0 \in 0..MaxSwitches
  BY Bounds
<1>2. /\ pending \in [Ids -> Requests \cup {None}] /\ pending = tasks
      /\ \A i \in Ids : pending[i] # None => pending[i].id = i
  BY <1>1, Entries DEF Init
<1>3. late \in [Ids -> Requests \cup {None}] /\ \A i \in Ids : late[i] = None
  BY <1>1, Entries DEF Init, Empty
<1>4. unsent \subseteq Requests
  BY <1>1, Entries DEF Init
<1>5. model \in 0..MaxSwitches /\ next \in 4..(MaxId + 1) /\ inbox \in Seq(Requests)
  BY <1>1, Bounds DEF Init
<1>6. QED
  BY <1>2, <1>3, <1>4, <1>5 DEF Init, TypeOK

(* TypeOK is an invariant: each table holds under an id only requests of   *)
(* that id, through every switch.                                          *)
THEOREM TypeCorrect == Spec => []TypeOK
<1>1. QED
  BY TypeInit, TypeStep, PTL DEF Spec
-----------------------------------------------------------------------------
(* The ledger.                                                             *)

LEMMA LedgerInit == Init => Ledger
<1> SUFFICES ASSUME Init PROVE Ledger
  OBVIOUS
<1>1. TypeOK
  BY TypeInit
<1>2. 0 \in 0..MaxSwitches
  BY Bounds
<1>3. \A r : OnItsWay(r) => r \in BootRequests(0)
  BY DEF Init, OnItsWay
<1>4. Recorded
  BY <1>2, <1>3, Entries DEF Init, Recorded, BootIds
<1>5. OneOwner
  BY <1>2, <1>3, Entries DEF Init, OneOwner, Empty
<1>6. EntriesAreBacked
  BY <1>2, Entries DEF Init, EntriesAreBacked, OnItsWay, Empty
<1>7. QED
  BY <1>1, <1>4, <1>5, <1>6 DEF Ledger

(* A request that is given an id nobody uses owns it.                      *)
LEMMA IssueStep ==
    ASSUME Ledger, TypeOK', NEW kind \in Kinds, Issue(kind)
    PROVE  Ledger'
<1> DEFINE r == Ask(next, kind, model)
<1> USE Bounds
<1>1. next \in Ids /\ r \in Requests /\ r.id = next /\ r.model = model /\ r # None
  <2>1. next \in Ids
    BY DEF Ledger, TypeOK, Issue, Ids
  <2>2. r \in Requests /\ r.id = next /\ r.model = model
    BY <2>1 DEF Ledger, TypeOK, Requests, Ask
  <2>3. QED
    BY <2>1, <2>2 DEF None, Ids
<1>2. /\ pending \in [Ids -> Requests \cup {None}]
      /\ pending' = [pending EXCEPT ![next] = r] /\ late' = late /\ model' = model
      /\ next' = next + 1 /\ next \in Nat /\ next > 3 /\ inbox' = inbox
      /\ unsent' = Unaborted({next}) \cup {r}
  BY DEF Ledger, TypeOK, Issue
<1>3. \A q \in Requests : OnItsWayNext(q) => q = r \/ OnItsWay(q)
  BY <1>2, AbortedIds DEF OnItsWay, OnItsWayNext
<1>4. OnItsWayNext(r) /\ \A q \in Requests : OnItsWay(q) /\ q.id # next => OnItsWayNext(q)
  BY <1>2, AbortedIds DEF OnItsWay, OnItsWayNext
<1> HIDE DEF r
<1>5. Recorded'
  <2>1. ASSUME NEW i \in Ids, pending'[i] # None
        PROVE  /\ pending'[i].model = model'
               /\ i < next'
               /\ i \in BootIds => pending'[i].kind = "read"
    <3>1. CASE i = next
      BY <3>1, <1>1, <1>2 DEF BootIds
    <3>2. CASE i # next
      BY <3>2, <2>1, <1>2 DEF Ledger, Recorded, Ids
    <3>3. QED
      BY <3>1, <3>2
  <2>2. ASSUME NEW q \in Requests, OnItsWayNext(q)
        PROVE  q.model <= model' /\ (q.model = model' => q.id < next')
    <3>1. CASE q = r
      BY <3>1, <1>1, <1>2 DEF Requests
    <3>2. CASE OnItsWay(q)
      BY <3>2, <1>2 DEF Ledger, Recorded, Requests, Ids
    <3>3. QED
      BY <2>2, <1>3, <3>1, <3>2
  <2>3. QED
    BY <2>1, <2>2 DEF Recorded, OnItsWay, OnItsWayNext
<1>6. ASSUME ~collided' PROVE ~collided /\ ~InUse(next, model)
  BY <1>6, Zenon DEF Issue
<1>7. ASSUME ~collided'
      PROVE late[next] = None /\ \A q \in Requests : OnItsWayNext(q) /\ q.id = next => q = r
  <2>1. late[next] = None
    BY <1>6, <1>7 DEF InUse
  <2>2. ASSUME NEW q \in Requests, OnItsWay(q), q.id = next PROVE FALSE
    <3>1. q.model = model
      BY <1>6, <1>7, <2>2 DEF InUse, OnItsWay
    <3>2. q.id < next
      BY <2>2, <3>1 DEF Ledger, Recorded
    <3>3. QED
      BY <2>2, <3>2, <1>2
  <2>3. QED
    BY <2>1, <2>2, <1>3
<1>8. OneOwner'
  <2> SUFFICES ASSUME ~collided', NEW i \in Ids
               PROVE  /\ pending'[i] # None => late'[i] = None
                      /\ \A q \in Requests : OnItsWayNext(q) /\ q.id = i =>
                            pending'[i] \in {None, q} /\ late'[i] \in {None, q}
    BY DEF OneOwner, OnItsWay, OnItsWayNext
  <2>1. CASE i = next
    BY <2>1, <1>1, <1>2, <1>7
  <2>2. CASE i # next
    <3>1. /\ pending[i] # None => late[i] = None
          /\ \A q \in Requests : OnItsWay(q) /\ q.id = i =>
                pending[i] \in {None, q} /\ late[i] \in {None, q}
      BY <1>6 DEF Ledger, OneOwner
    <3>2. pending'[i] = pending[i]
      BY <2>2, <1>2
    <3>3. QED
      BY <2>2, <3>1, <3>2, <1>1, <1>2, <1>3
  <2>3. QED
    BY <2>1, <2>2
<1>9. EntriesAreBacked'
  <2> SUFFICES ASSUME ~collided', NEW i \in Ids
               PROVE  /\ pending'[i] # None => OnItsWayNext(pending'[i])
                      /\ late'[i] # None => OnItsWayNext(late'[i])
    BY Zenon DEF EntriesAreBacked, OnItsWay, OnItsWayNext
  <2>1. CASE i = next
    BY <2>1, <1>1, <1>2, <1>4, <1>7
  <2>2. CASE i # next
    <3>1. /\ pending[i] # None => OnItsWay(pending[i]) /\ pending[i].id = i
          /\ late[i] # None => OnItsWay(late[i]) /\ late[i].id = i
      BY <1>6 DEF Ledger, EntriesAreBacked, TypeOK
    <3>2. /\ pending[i] # None => pending[i] \in Requests
          /\ late[i] # None => late[i] \in Requests
      BY DEF Ledger, TypeOK
    <3>3. pending'[i] = pending[i] /\ late'[i] = late[i]
      BY <2>2, <1>2
    <3>4. QED
      BY <2>2, <3>1, <3>2, <3>3, <1>4
  <2>3. QED
    BY <2>1, <2>2
<1>10. QED
  BY <1>5, <1>8, <1>9 DEF Ledger

(* A switch gives the first ids to the boot reads and remembers the writes *)
(* under theirs, which are others.                                         *)
LEMMA SwitchStep ==
    ASSUME Ledger, TypeOK', Switch
    PROVE  Ledger'
<1> DEFINE m == model + 1
           boot == Boot(m)
           reads == BootRequests(m)
<1> USE Bounds
<1>1. model \in Nat /\ m \in 0..MaxSwitches /\ model' = m /\ next' = 4 /\ inbox' = inbox
  BY DEF Ledger, TypeOK, Switch
<1>2. /\ late' = [i \in Ids |-> IF pending[i].kind = "write" THEN pending[i] ELSE None]
      /\ pending' = boot
      /\ unsent' = Unaborted(BootIds) \cup reads
      /\ ~collided' => ~collided /\ \A i \in BootIds : ~InUse(i, m)
  BY <1>1, Zenon DEF Switch
<1>3. /\ reads \subseteq Requests /\ boot \in [Ids -> Requests \cup {None}]
      /\ \A r \in reads : r.id \in BootIds /\ r.model = m /\ r = boot[r.id]
      /\ \A i \in Ids : i \in BootIds => boot[i] \in reads
      /\ \A i \in Ids : i \notin BootIds => boot[i] = None
      /\ \A i \in Ids : boot[i] # None => boot[i].model = m /\ boot[i].kind = "read"
      /\ BootIds \subseteq Ids
  BY <1>1, Entries
<1>4. \A q \in Requests : OnItsWayNext(q) => q \in reads \/ OnItsWay(q)
  BY <1>1, <1>2, AbortedIds DEF OnItsWay, OnItsWayNext
<1>5. /\ \A q \in reads : OnItsWayNext(q)
      /\ \A q \in Requests : OnItsWay(q) /\ q.id \notin BootIds => OnItsWayNext(q)
  BY <1>1, <1>2, AbortedIds DEF OnItsWay, OnItsWayNext
<1> HIDE DEF boot, reads
<1>6. ASSUME NEW i \in Ids, late'[i] # None
      PROVE  late'[i] = pending[i] /\ pending[i] \in Requests /\ pending[i].id = i /\ i \notin BootIds
  <2>1. late'[i] = pending[i] /\ pending[i].kind = "write" /\ pending[i] # None
    BY <1>2, <1>6
  <2>2. QED
    BY <2>1 DEF Ledger, TypeOK, Recorded
<1>7. Recorded'
  <2>1. ASSUME NEW i \in Ids, pending'[i] # None
        PROVE  /\ pending'[i].model = model'
               /\ i < next'
               /\ i \in BootIds => pending'[i].kind = "read"
    BY <2>1, <1>1, <1>2, <1>3 DEF BootIds, Ids
  <2>2. ASSUME NEW q \in Requests, OnItsWayNext(q)
        PROVE  q.model <= model' /\ (q.model = model' => q.id < next')
    <3>1. CASE q \in reads
      BY <3>1, <1>1, <1>3 DEF BootIds
    <3>2. CASE OnItsWay(q)
      BY <3>2, <1>1 DEF Ledger, Recorded, Requests
    <3>3. QED
      BY <2>2, <1>4, <3>1, <3>2
  <2>3. QED
    BY <2>1, <2>2 DEF Recorded, OnItsWay, OnItsWayNext
<1>8. OneOwner'
  <2> SUFFICES ASSUME ~collided', NEW i \in Ids
               PROVE  /\ pending'[i] # None => late'[i] = None
                      /\ \A q \in Requests : OnItsWayNext(q) /\ q.id = i =>
                            pending'[i] \in {None, q} /\ late'[i] \in {None, q}
    BY DEF OneOwner, OnItsWay, OnItsWayNext
  <2>1. pending'[i] # None => late'[i] = None
    BY <1>2, <1>3, <1>6
  <2>2. ASSUME NEW q \in Requests, OnItsWayNext(q), q.id = i
        PROVE  pending'[i] \in {None, q} /\ late'[i] \in {None, q}
    <3>1. CASE q \in reads
      BY <3>1, <2>2, <1>2, <1>3, <1>6
    <3>2. CASE OnItsWay(q)
      <4>1. q.model # m
        BY <3>2, <1>1 DEF Ledger, Recorded, Requests
      <4>2. i \notin BootIds
        BY <4>1, <3>2, <2>2, <1>2 DEF InUse, OnItsWay
      <4>3. pending[i] \in {None, q}
        BY <3>2, <2>2, <1>2 DEF Ledger, OneOwner
      <4>4. QED
        BY <4>2, <4>3, <1>2, <1>3, <1>6
    <3>3. QED
      BY <2>2, <1>4, <3>1, <3>2
  <2>3. QED
    BY <2>1, <2>2
<1>9. EntriesAreBacked'
  <2> SUFFICES ASSUME ~collided', NEW i \in Ids
               PROVE  /\ pending'[i] # None => OnItsWayNext(pending'[i])
                      /\ late'[i] # None => OnItsWayNext(late'[i])
    BY Zenon DEF EntriesAreBacked, OnItsWay, OnItsWayNext
  <2>1. pending'[i] # None => OnItsWayNext(pending'[i])
    BY <1>2, <1>3, <1>5
  <2>2. ASSUME late'[i] # None PROVE OnItsWayNext(late'[i])
    <3>1. OnItsWay(pending[i])
      BY <2>2, <1>2, <1>6, Entries, <1>1 DEF Ledger, EntriesAreBacked
    <3>2. QED
      BY <3>1, <2>2, <1>5, <1>6
  <2>3. QED
    BY <2>1, <2>2
<1>10. QED
  BY <1>7, <1>8, <1>9 DEF Ledger

(* Taking an answer releases the entry it answers and no other.            *)
LEMMA DeliverStep ==
    ASSUME Ledger, TypeOK', DeliverLate \/ Deliver
    PROVE  Ledger'
<1> DEFINE h == Head(inbox)
<1>1. /\ h \in Requests /\ OnItsWay(h)
      /\ \A r : OnItsWayNext(r) => OnItsWay(r)
      /\ \A r : OnItsWay(r) /\ r # h => OnItsWayNext(r)
  BY HeadTaken DEF Ledger, DeliverLate, Deliver
<1>2. h.id \in Ids /\ h # None
  BY <1>1, Bounds DEF Requests, None, Ids
<1>3. /\ model' = model /\ next' = next /\ collided' = collided
      /\ \/ late[h.id] # None /\ late' = [late EXCEPT ![h.id] = None] /\ pending' = pending
         \/ late[h.id] = None /\ pending' = [pending EXCEPT ![h.id] = None] /\ late' = late
  BY DEF DeliverLate, Deliver
<1>4. pending \in [Ids -> Requests \cup {None}] /\ late \in [Ids -> Requests \cup {None}]
  BY DEF Ledger, TypeOK
<1> HIDE DEF h
<1>5. \A i \in Ids : pending'[i] \in {None, pending[i]} /\ late'[i] \in {None, late[i]}
  BY <1>2, <1>3, <1>4
<1>6. Recorded'
  <2>1. Recorded
    BY DEF Ledger
  <2>2. QED
    BY <2>1, <1>1, <1>3, <1>5 DEF Recorded, OnItsWay, OnItsWayNext
<1>7. OneOwner'
  <2> SUFFICES ASSUME ~collided', NEW i \in Ids
               PROVE  /\ pending'[i] # None => late'[i] = None
                      /\ \A q \in Requests : OnItsWayNext(q) /\ q.id = i =>
                            pending'[i] \in {None, q} /\ late'[i] \in {None, q}
    BY DEF OneOwner, OnItsWay, OnItsWayNext
  <2>1. /\ pending[i] # None => late[i] = None
        /\ \A q \in Requests : OnItsWay(q) /\ q.id = i =>
              pending[i] \in {None, q} /\ late[i] \in {None, q}
    BY <1>3 DEF Ledger, OneOwner
  <2>2. QED
    BY <2>1, <1>1, <1>5
<1>8. EntriesAreBacked'
  <2> SUFFICES ASSUME ~collided', NEW i \in Ids
               PROVE  /\ pending'[i] # None => OnItsWayNext(pending'[i])
                      /\ late'[i] # None => OnItsWayNext(late'[i])
    BY Zenon DEF EntriesAreBacked, OnItsWay, OnItsWayNext
  <2>1. /\ pending[i] # None => OnItsWay(pending[i]) /\ pending[i].id = i /\ late[i] = None
        /\ late[i] # None => OnItsWay(late[i]) /\ late[i].id = i
    BY <1>3 DEF Ledger, EntriesAreBacked, OneOwner, TypeOK
  <2>2. CASE i = h.id
    BY <2>1, <2>2, <1>2, <1>3, <1>4
  <2>3. CASE i # h.id
    BY <2>1, <2>3, <1>1, <1>5
  <2>4. QED
    BY <2>2, <2>3
<1>9. QED
  BY <1>6, <1>7, <1>8 DEF Ledger

LEMMA LedgerStep == Ledger /\ [Next]_vars => Ledger'
<1> SUFFICES ASSUME Ledger, [Next]_vars PROVE Ledger'
  OBVIOUS
<1>1. TypeOK'
  BY TypeStep DEF Ledger
<1>2. ASSUME NEW kind \in Kinds, Issue(kind) PROVE Ledger'
  BY <1>1, <1>2, IssueStep
<1>3. CASE Switch
  BY <1>1, <1>3, SwitchStep
<1>4. ASSUME NEW q \in Requests, Complete(q) PROVE Ledger'
  <2>1. \A r : OnItsWayNext(r) <=> OnItsWay(r)
    BY <1>4, Queued DEF Ledger
  <2>2. UNCHANGED <<model, next, pending, late, collided>>
    BY <1>4 DEF Complete
  <2>3. QED
    BY <1>1, <2>1, <2>2
       DEF Ledger, Recorded, OneOwner, EntriesAreBacked, OnItsWay, OnItsWayNext
<1>5. CASE DeliverLate \/ Deliver
  BY <1>1, <1>5, DeliverStep
<1>6. CASE UNCHANGED vars
  BY <1>1, <1>6 DEF vars, Ledger, Recorded, OneOwner, EntriesAreBacked, OnItsWay
<1>7. QED
  BY <1>2, <1>3, <1>4, <1>5, <1>6 DEF Next

(* As long as no id was given out again while in use, every entry of       *)
(* Model.pending and Model.late_writes waits for an answer on its way.     *)
THEOREM Backed == Spec => []EntriesAreBacked
<1>1. Ledger => EntriesAreBacked
  BY DEF Ledger
<1>2. QED
  BY <1>1, LedgerInit, LedgerStep, PTL DEF Spec

(* Under the same condition the answer that takes an entry out of a table  *)
(* is the answer to the request the entry stands for.                      *)
THEOREM AnswersMatch == Spec => AnswersTheirRequest
<1> DEFINE Matches ==
        \A i \in Ids :
          /\ pending[i] # None /\ pending'[i] = None /\ model' = model
                => collided \/ pending[i] = Head(inbox)
          /\ late[i] # None /\ late'[i] = None /\ model' = model
                => collided \/ late[i] = Head(inbox)
<1>1. ASSUME Ledger, Next PROVE Matches
  <2>1. ASSUME NEW kind \in Kinds, Issue(kind) PROVE Matches
    <3>1. next \in Ids /\ Ask(next, kind, model) # None /\ pending \in [Ids -> Requests \cup {None}]
      BY <1>1, <2>1, Bounds DEF Ledger, TypeOK, Issue, Ids, Ask, None
    <3>2. QED
      BY <2>1, <3>1 DEF Issue
  <2>2. CASE Switch
    BY <1>1, <2>2, Bounds DEF Switch, Ledger, TypeOK
  <2>3. ASSUME NEW q \in Requests, Complete(q) PROVE Matches
    BY <2>3 DEF Complete
  <2>4. CASE DeliverLate \/ Deliver
    <3>1. Head(inbox) \in Requests /\ OnItsWay(Head(inbox))
      BY <1>1, <2>4, HeadTaken DEF Ledger, DeliverLate, Deliver
    <3>2. Head(inbox).id \in Ids
      BY <3>1 DEF Requests
    <3>3. ASSUME ~collided
          PROVE  /\ pending[Head(inbox).id] \in {None, Head(inbox)}
                 /\ late[Head(inbox).id] \in {None, Head(inbox)}
      BY <1>1, <3>1, <3>2, <3>3 DEF Ledger, OneOwner
    <3>4. pending \in [Ids -> Requests \cup {None}] /\ late \in [Ids -> Requests \cup {None}]
      BY <1>1 DEF Ledger, TypeOK
    <3>5. QED
      BY <2>4, <3>2, <3>3, <3>4 DEF DeliverLate, Deliver
  <2>5. QED
    BY <1>1, <2>1, <2>2, <2>3, <2>4 DEF Next
<1>2. Ledger /\ [Next]_vars => [Matches]_vars
  BY <1>1
<1>3. QED
  BY <1>2, LedgerInit, LedgerStep, PTL DEF Spec, AnswersTheirRequest
=============================================================================
