------------------------------ MODULE EventFeed ------------------------------
(***************************************************************************)
(* What a panel is promised of an event stream of the daemon: while it is  *)
(* open the panel is brought every event that can be read, in the order in *)
(* which the daemon produced them, however often the connection is lost in *)
(* between, and it is not kept waiting forever.  Only an event that came   *)
(* by while the panel was closed may be passed over.                       *)
(* Nothing here knows of connections, cursors or queues; RunTimeline       *)
(* implements this specification.                                          *)
(***************************************************************************)
EXTENDS Integers, Sequences

CONSTANT Kinds        \* kinds of events; "garbled" is one that cannot be read

VARIABLES
    log,              \* the events the daemon has produced
    seen,             \* numbers of the events the panel was brought
    missed,           \* numbers of those that came by while it was closed
    open              \* whether the panel can be brought events

vars == <<log, seen, missed, open>>

Readable == {n \in DOMAIN log : log[n] # "garbled"}

Init == log = <<>> /\ seen = {} /\ missed = {} /\ open = FALSE

Produce ==
    /\ \E k \in Kinds : log' = Append(log, k)
    /\ UNCHANGED <<seen, missed, open>>

OpenOrClose ==
    /\ open' = ~open
    /\ UNCHANGED <<log, seen, missed>>

Miss ==
    /\ ~open
    /\ \E n \in Readable \ missed : missed' = missed \cup {n}
    /\ UNCHANGED <<log, seen, open>>

(* The next event.  The last one of a run closes the stream with it.       *)
See ==
    /\ open
    /\ \E n \in Readable \ seen :
        /\ {m \in Readable : m < n} \subseteq seen \cup missed
        /\ seen' = seen \cup {n}
    /\ open' \in BOOLEAN
    /\ UNCHANGED <<log, missed>>

(* An event that was missed may never come.                                *)
SeeNew == See /\ seen' \ (seen \cup missed) # {}

Next == Produce \/ OpenOrClose \/ Miss \/ See

Spec == Init /\ [][Next]_vars /\ WF_vars(SeeNew)

=============================================================================
