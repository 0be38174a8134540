---------------------------- MODULE TranscriptSync ----------------------------
(***************************************************************************)
(* How the panel of one open session follows the daemon's transcript.      *)
(*                                                                         *)
(* Two sources feed TranscriptState (batuta-tui/src/transcript.rs): pages  *)
(* read over HTTP, and the frames of the session's event stream, which     *)
(* resumes after a cursor.  Every page that arrives replaces the stream    *)
(* task by one that resumes at the merged cursor; the frames the old task  *)
(* had queued for the update loop are still delivered.                     *)
(*                                                                         *)
(* The daemon is not in this repository.  Its transcript is modelled from  *)
(* how the client uses it, as a log of events numbered 1, 2, ...: event n  *)
(* opens the entry n or extends the newest entry s, which then has         *)
(* start_sequence s and sequence n, so that "a following entry begins      *)
(* either at the previous entry's sequence or one past it" (transcript.rs, *)
(* apply_delta).  An epoch here stands for the fence pair (epoch,          *)
(* generation); 0 is "no fence yet".                                       *)
(***************************************************************************)
EXTENDS Naturals, Sequences, FiniteSets

CONSTANTS
    PageSize,       \* entries per page and per snapshot
    MaxSequence,    \* bound: events of the first transcript
    MaxEpoch,       \* bound: transcript rewrites
    MaxRewritten,   \* bound: events of a transcript to be rewritten, and of the new one
    MaxPages,       \* bound: page requests awaited at once
    MaxInbox        \* bound: stream frames queued for the update loop

ASSUME BoundsAssumption ==
    /\ PageSize \in Nat \ {0} /\ MaxSequence \in Nat \ {0}
    /\ MaxRewritten \in 1..MaxSequence
    /\ MaxEpoch \in Nat \ {0} /\ MaxPages \in Nat \ {0} /\ MaxInbox \in Nat \ {0}

VARIABLES
    epoch, log,     \* the daemon: fence, and for each event its entry's start_sequence
    shown,          \* TranscriptState of the open panel
    fetching,       \* SessionView.fetching
    cursor,         \* Model.stream_cursors for this stream
    stream,         \* the stream task, its connection and its engine's cursor
    pages,          \* page requests, asked or read by the daemon, not yet answered
    inbox,          \* frames in the mpsc channel, oldest first
    crossed         \* history: a page and the stream have crossed (see Crossing)

vars == <<epoch, log, shown, fetching, cursor, stream, pages, inbox, crossed>>
daemon == <<epoch, log>>

-----------------------------------------------------------------------------
Sequences == 1..MaxSequence
Entries == UNION {[S -> Sequences] : S \in SUBSET Sequences}
NoEntries == [s \in {} |-> 0]

Latest(S) == CHOOSE m \in S : \A n \in S : n <= m
Greater(m, n) == IF m < n THEN n ELSE m

Starts(l) == {l[n] : n \in DOMAIN l}
Version(l, s) == Latest({n \in DOMAIN l : l[n] = s})

(* The PageSize newest entries of the log below a start, 0 meaning no bound. *)
Below(before) == {s \in Starts(log) : before = 0 \/ s < before}
Newest(before) == {s \in Below(before) :
                    Cardinality({t \in Below(before) : t > s}) < PageSize}
Contents(S) == [s \in S |-> Version(log, s)]
Oldest(S) == CHOOSE m \in S : \A n \in S : m <= n

(* What a page or a snapshot says of the entries it leaves out: the client  *)
(* asks for them with before_sequence.  0 is has_older = false.             *)
OlderThan(S) == IF S # {} /\ \E s \in Starts(log) : s < Oldest(S) THEN Oldest(S) ELSE 0

(* types::TranscriptPage; `at` is the event it was read after.             *)
PageOf(before) ==
    LET S == Newest(before)
        content == Contents(S) IN
    [read |-> TRUE, before |-> before, epoch |-> epoch, entries |-> content,
     max |-> IF before = 0 THEN Len(log)
             ELSE IF S = {} THEN 0 ELSE Latest({content[s] : s \in S}),
     older |-> OlderThan(S), at |-> Len(log)]
Asked(before) ==
    [read |-> FALSE, before |-> before, epoch |-> 0, entries |-> NoEntries,
     max |-> 0, older |-> 0, at |-> 0]

(* types::TranscriptSnapshot and TranscriptDelta.                          *)
SnapshotFrame ==
    LET S == Newest(0) IN
    [kind |-> "snapshot", epoch |-> epoch, entries |-> Contents(S),
     max |-> Len(log), older |-> OlderThan(S)]
DeltaFrame(after) ==
    [kind |-> "delta", epoch |-> epoch,
     entries |-> Contents({s \in Starts(log) : Version(log, s) > after}),
     max |-> Len(log), older |-> 0]

(* SessionDetail::new *)
EmptyTranscript == [fence |-> 0, entries |-> NoEntries, max |-> 0, older |-> 0]

(* TranscriptState::cursor *)
CursorOf(t) == [epoch |-> t.fence, after |-> t.max]

(* runtime::execute on StartStream, and EventStream::open: the connection  *)
(* asks for what follows the cursor; `known` is the fence the daemon holds *)
(* the connection to, `fence` and `source` are the engine's own.           *)
ConnectAt(c) == [fence |-> c.epoch, after |-> c.after, source |-> c, known |-> c.epoch]

Init ==
    /\ epoch = 1
    /\ log = <<1>>
    /\ shown = EmptyTranscript
    /\ fetching = TRUE
    /\ cursor = CursorOf(EmptyTranscript)
    /\ stream = ConnectAt(cursor)
    /\ pages = <<Asked(0)>>
    /\ inbox = <<>>
    /\ crossed = FALSE

-----------------------------------------------------------------------------
(* The daemon and the wire.                                                *)

(* Event n opens entry n or extends the newest entry.                      *)
AppendEvent(s) ==
    LET n == Len(log) + 1 IN
    /\ n <= IF epoch = 1 THEN MaxSequence ELSE MaxRewritten
    /\ s \in {log[n - 1], n}
    /\ log' = Append(log, s)
    /\ UNCHANGED <<epoch, shown, fetching, cursor, stream, pages, inbox, crossed>>

(* The transcript is rewritten under new fences.                           *)
Rewrite ==
    /\ epoch < MaxEpoch /\ Len(log) <= MaxRewritten
    /\ epoch' = epoch + 1
    /\ log' = <<1>>
    /\ UNCHANGED <<shown, fetching, cursor, stream, pages, inbox, crossed>>

ReadPage(i) ==
    /\ ~pages[i].read
    /\ pages' = [pages EXCEPT ![i] = PageOf(pages[i].before)]
    /\ UNCHANGED <<epoch, log, shown, fetching, cursor, stream, inbox, crossed>>

(* The stream sends what follows the cursor: a reset snapshot when the     *)
(* fences are missing or do not match, else a delta.                       *)
SendFrame ==
    /\ Len(inbox) < MaxInbox
    /\ \/ /\ stream.known # epoch
          /\ inbox' = Append(inbox, SnapshotFrame)
       \/ /\ stream.known = epoch
          /\ stream.after < Len(log)
          /\ inbox' = Append(inbox, DeltaFrame(stream.after))
    /\ stream' = [stream EXCEPT !.after = Len(log), !.known = epoch]
    /\ UNCHANGED <<epoch, log, shown, fetching, cursor, pages, crossed>>

(* EventStream::open after a lost connection: the model's cursor, if it    *)
(* moved since the engine last looked, else the last id received.          *)
Reconnect ==
    /\ stream' = IF cursor # stream.source THEN ConnectAt(cursor)
                                            ELSE [stream EXCEPT !.known = stream.fence]
    /\ stream' # stream
    /\ UNCHANGED <<epoch, log, shown, fetching, cursor, pages, inbox, crossed>>

-----------------------------------------------------------------------------
(* Pages.                                                                  *)

(* The entries of e, and those of f that e does not have.                  *)
Merged(e, f) ==
    [s \in DOMAIN e \cup DOMAIN f |-> IF s \in DOMAIN e THEN e[s] ELSE f[s]]

RemoveAt(seq, i) == SubSeq(seq, 1, i - 1) \o SubSeq(seq, i + 1, Len(seq))

(* Mutation: has_older and next_before_sequence are not taken from the page. *)
PrependPageKeepsOlder(t, p) ==
    [fence |-> IF t.entries = NoEntries THEN p.epoch ELSE t.fence,
     entries |-> Merged(t.entries, p.entries),
     max |-> Greater(t.max, p.max),
     older |-> t.older]

(* Mutation: entries already loaded are replaced by those of the page.     *)
PrependPageReplaces(t, p) ==
    [fence |-> IF t.entries = NoEntries THEN p.epoch ELSE t.fence,
     entries |-> Merged(p.entries, t.entries),
     max |-> Greater(t.max, p.max),
     older |-> p.older]

(* TranscriptState::prepend_page: entries already loaded are kept.         *)
PrependPage(t, p) ==
    [fence |-> IF t.entries = NoEntries THEN p.epoch ELSE t.fence,
     entries |-> Merged(t.entries, p.entries),
     max |-> Greater(t.max, p.max),
     older |-> p.older]

(* The page and the stream have crossed: the page carries a newer version  *)
(* of an entry already loaded, or was read under another fence; frames     *)
(* older than the merged cursor are still queued; the page is older than   *)
(* the cursor and brings entries the stream has passed by; or it was asked *)
(* to extend a transcript that a snapshot has replaced since.              *)
KeepsStaleEntry(t, p) ==
    \E s \in DOMAIN t.entries \cap DOMAIN p.entries : t.entries[s] < p.entries[s]
MixesFences(t, p) == t.entries # NoEntries /\ t.fence # p.epoch
OvertakesFrames(t, p) ==
    \E k \in DOMAIN inbox : inbox[k].epoch # p.epoch \/ inbox[k].max < Greater(t.max, p.max)
BringsPassedEntry(t, p) ==
    p.at < t.max /\ (p.older < t.older \/ DOMAIN p.entries \ DOMAIN t.entries # {})
LeavesHole(t, p) == p.before # 0 /\ p.before # t.older
Crossing(t, p) ==
    \/ KeepsStaleEntry(t, p) \/ MixesFences(t, p) \/ OvertakesFrames(t, p)
    \/ BringsPassedEntry(t, p) \/ LeavesHole(t, p)

(* Mutation: the stream is left running from where it was.                 *)
PageArrivedStreamKept(i) ==
    /\ pages[i].read
    /\ shown' = PrependPage(shown, pages[i])
    /\ fetching' = FALSE
    /\ cursor' = CursorOf(shown')
    /\ pages' = RemoveAt(pages, i)
    /\ crossed' = (crossed \/ Crossing(shown, pages[i]))
    /\ UNCHANGED <<daemon, stream, inbox>>

(* api::apply on a TranscriptPage and page_into_detail: merge, and restart *)
(* the stream at the merged cursor.                                        *)
PageArrived(i) ==
    /\ pages[i].read
    /\ shown' = PrependPage(shown, pages[i])
    /\ fetching' = FALSE
    /\ cursor' = CursorOf(shown')
    /\ stream' = ConnectAt(cursor')
    /\ pages' = RemoveAt(pages, i)
    /\ crossed' = (crossed \/ Crossing(shown, pages[i]))
    /\ UNCHANGED <<daemon, inbox>>

(* api::failure on a TranscriptPage: a toast; `fetching` stays set.        *)
PageFailed(i) ==
    /\ pages' = RemoveAt(pages, i)
    /\ UNCHANGED <<daemon, shown, fetching, cursor, stream, inbox, crossed>>

(* keys::move_up on the first row.                                         *)
FetchOlder ==
    /\ shown.older # 0 /\ ~fetching
    /\ Len(pages) < MaxPages
    /\ fetching' = TRUE
    /\ pages' = Append(pages, Asked(shown.older))
    /\ UNCHANGED <<daemon, shown, cursor, stream, inbox, crossed>>

(* keys::open_session_id on the session already open: the transcript is    *)
(* dropped, the stream resumes at the cursor remembered for it.            *)
Reopen ==
    /\ Len(pages) < MaxPages
    /\ shown' = EmptyTranscript
    /\ fetching' = TRUE
    /\ stream' = ConnectAt(cursor)
    /\ pages' = Append(pages, Asked(0))
    /\ UNCHANGED <<daemon, cursor, inbox, crossed>>

-----------------------------------------------------------------------------
(* Frames.                                                                 *)

(* The frontier apply_delta has reached before it looks at the entry s:    *)
(* the cursor, or the last event of an entry of the delta before s.        *)
Frontier(t, d, s) ==
    Latest({t.max} \cup {d.entries[r] : r \in {r \in DOMAIN d.entries : r < s}})

UnknownStarts(t, d) ==
    {s \in DOMAIN d.entries \ DOMAIN t.entries :
        s \notin Frontier(t, d, s)..(Frontier(t, d, s) + 1)}

(* TranscriptState::apply_delta on a delta with our fences and no gap.     *)
ApplyDelta(t, d) ==
    [t EXCEPT !.entries = Merged(d.entries, @), !.max = Greater(@, d.max)]

(* Mutation: a snapshot is merged like a page.                             *)
ApplySnapshotMerged(f) ==
    [fence |-> f.epoch, entries |-> Merged(f.entries, shown.entries), max |-> f.max,
     older |-> f.older]

(* TranscriptState::apply_snapshot *)
ApplySnapshot(f) ==
    [fence |-> f.epoch, entries |-> f.entries, max |-> f.max, older |-> f.older]

Receive(f) == inbox # <<>> /\ f = Head(inbox) /\ inbox' = Tail(inbox)

ReceiveSnapshot ==
    LET f == Head(inbox) IN
    /\ Receive(f) /\ f.kind = "snapshot"
    /\ shown' = ApplySnapshot(f)
    /\ cursor' = CursorOf(shown')
    /\ UNCHANGED <<daemon, fetching, stream, pages, crossed>>

ReceiveDelta ==
    LET f == Head(inbox) IN
    /\ Receive(f) /\ f.kind = "delta"
    /\ f.epoch = shown.fence
    /\ UnknownStarts(shown, f) = {}
    /\ shown' = ApplyDelta(shown, f)
    /\ cursor' = CursorOf(shown')
    /\ UNCHANGED <<daemon, fetching, stream, pages, crossed>>

(* Applied::FenceMismatch: the delta is taken for a whole snapshot.        *)
ReceiveMismatch ==
    LET f == Head(inbox) IN
    /\ Receive(f) /\ f.kind = "delta"
    /\ f.epoch # shown.fence
    /\ shown' = ApplySnapshot(f)
    /\ cursor' = CursorOf(shown')
    /\ crossed' = TRUE
    /\ UNCHANGED <<daemon, fetching, stream, pages>>

(* Applied::UnknownStart: the delta is dropped; the newest page is asked   *)
(* for unless one is on its way.                                           *)
ReceiveGap ==
    LET f == Head(inbox) IN
    /\ Receive(f) /\ f.kind = "delta"
    /\ f.epoch = shown.fence
    /\ UnknownStarts(shown, f) # {}
    /\ \/ fetching /\ UNCHANGED <<fetching, pages>>
       \/ /\ ~fetching
          /\ Len(pages) < MaxPages
          /\ fetching' = TRUE
          /\ pages' = Append(pages, Asked(0))
    /\ cursor' = CursorOf(shown)
    /\ UNCHANGED <<daemon, shown, stream, crossed>>

-----------------------------------------------------------------------------
Daemon ==
    \/ \E s \in Sequences : AppendEvent(s)
    \/ Rewrite
    \/ \E i \in DOMAIN pages : ReadPage(i)
    \/ SendFrame
    \/ Reconnect

Client ==
    \/ \E i \in DOMAIN pages : PageArrived(i)
    \/ \E i \in DOMAIN pages : PageFailed(i)
    \/ FetchOlder
    \/ Reopen
    \/ ReceiveSnapshot
    \/ ReceiveDelta
    \/ ReceiveMismatch
    \/ ReceiveGap

Next == Daemon \/ Client

Spec == Init /\ [][Next]_vars

-----------------------------------------------------------------------------
(* Properties.                                                             *)

Transcripts == [fence : 0..MaxEpoch, entries : Entries, max : 0..MaxSequence,
                older : 0..MaxSequence]
Cursors == [epoch : 0..MaxEpoch, after : 0..MaxSequence]
Frames == [kind : {"snapshot", "delta"}, epoch : 1..MaxEpoch, entries : Entries,
           max : 1..MaxSequence, older : 0..MaxSequence]
PageSlots == [read : BOOLEAN, before : 0..MaxSequence, epoch : 0..MaxEpoch,
              entries : Entries, max : 0..MaxSequence, older : 0..MaxSequence,
              at : 0..MaxSequence]

TypeOK ==
    /\ epoch \in 1..MaxEpoch
    /\ log \in Seq(Sequences)
    /\ shown \in Transcripts
    /\ fetching \in BOOLEAN
    /\ cursor \in Cursors
    /\ stream \in [fence : 0..MaxEpoch, after : 0..MaxSequence, source : Cursors,
                   known : 0..MaxEpoch]
    /\ pages \in Seq(PageSlots)
    /\ inbox \in Seq(Frames)
    /\ crossed \in BOOLEAN

(* What the panel claims to show: every entry from its oldest page on, each *)
(* at least as new as the cursor it resumes the stream from.                *)
UpToCursor(t) ==
    LET passed == SubSeq(log, 1, t.max) IN
    /\ t.max <= Len(log)
    /\ \A s \in Starts(passed) :
         s >= t.older => s \in DOMAIN t.entries /\ t.entries[s] >= Version(passed, s)

(* Nothing the stream has passed by is missing or stale on screen, unless a *)
(* page and the stream have crossed.                                        *)
NothingLost == ~crossed /\ shown.fence = epoch => UpToCursor(shown)

(* Under the daemon's present fence the panel shows no entry, and no        *)
(* version of one, that the daemon's transcript never had.                  *)
NothingForeign ==
    ~crossed /\ shown.fence = epoch
        => /\ shown.max <= Len(log)
           /\ \A s \in DOMAIN shown.entries :
                shown.entries[s] \in DOMAIN log /\ log[shown.entries[s]] = s

(* Once the stream has sent everything and every frame and page has been   *)
(* handled, the panel is current: no cursor is left behind for good.       *)
Settled == /\ inbox = <<>> /\ pages = <<>>
           /\ stream.known = epoch /\ stream.after = Len(log)
SettledIsCurrent ==
    ~crossed /\ Settled /\ ~fetching => shown.fence = epoch /\ shown.max = Len(log)

(* Under the daemon's present fence the panel only moves on: its cursor    *)
(* does not go back, and an entry stays, in the version it had or a newer  *)
(* one, unless the panel can ask for it again with the next older page     *)
(* (apply_snapshot, apply_delta and prepend_page of transcript.rs).        *)
NeverGoesBack ==
    [][~crossed' /\ shown.fence = epoch /\ shown'.fence = epoch
        => /\ shown.max <= shown'.max
           /\ \A s \in DOMAIN shown.entries :
                IF s \in DOMAIN shown'.entries THEN shown.entries[s] <= shown'.entries[s]
                                               ELSE s < shown'.older]_vars

=============================================================================
