--------------------------- MODULE SessionProofs ---------------------------
(***************************************************************************)
(* Proofs about the open session: how its panel follows the daemon's       *)
(* transcript (TranscriptSync), for any number of events, pages, frames    *)
(* and rewrites; and the panel that lists what waits for the user          *)
(* (Attention), for any sets of sessions, permissions, clarifications and  *)
(* tasks.                                                                  *)
(***************************************************************************)
EXTENDS TranscriptSync, Attention, FiniteSetTheorems, SequenceTheorems,
        WellFoundedInduction, TLAPS

-----------------------------------------------------------------------------
(* Least and greatest.                                                     *)

LEMMA LeastExists ==
    ASSUME NEW S \in SUBSET Nat, S # {}
    PROVE  \E m \in S : \A n \in S : m <= n
<1>1. PICK m \in S : \A n \in S : ~(<<n, m>> \in OpToRel(<, Nat))
  BY NatLessThanWellFounded, WFMin, Zenon
<1>2. \A n \in S : <<n, m>> \in OpToRel(<, Nat) <=> n < m
  BY DEF OpToRel
<1>3. ASSUME NEW n \in S PROVE m <= n
  <2>1. ~(n < m)
    BY <1>1, <1>2
  <2>2. m \in Nat /\ n \in Nat
    OBVIOUS
  <2>3. QED
    BY <2>1, <2>2
<1>4. QED
  BY <1>3

LEMMA GreatestExists ==
    ASSUME NEW S \in SUBSET Nat, S # {}, NEW b \in Nat, \A n \in S : n <= b
    PROVE  \E m \in S : \A n \in S : n <= m
<1> DEFINE T == {b - n : n \in S}
<1>1. \A n \in S : n \in Nat /\ b - n \in Nat
  <2>1. \A n \in S : n \in Nat /\ n <= b
    OBVIOUS
  <2>2. QED
    BY <2>1
<1>2. T \in SUBSET Nat /\ T # {}
  BY <1>1
<1>3. PICK t \in T : \A u \in T : t <= u
  BY <1>2, LeastExists
<1>4. PICK m \in S : t = b - m
  OBVIOUS
<1>5. ASSUME NEW n \in S PROVE n <= m
  <2>1. t <= b - n
    BY <1>3
  <2>2. QED
    BY <2>1, <1>1, <1>4
<1>6. QED
  BY <1>5

LEMMA OldestIsLeast ==
    ASSUME NEW S \in SUBSET Nat, S # {}
    PROVE  Oldest(S) \in S /\ \A n \in S : Oldest(S) <= n
<1>1. \E m \in S : \A n \in S : m <= n
  BY LeastExists
<1>2. QED
  BY <1>1 DEF Oldest

LEMMA LatestIsGreatest ==
    ASSUME NEW S \in SUBSET Nat, S # {}, NEW b \in Nat, \A n \in S : n <= b
    PROVE  Latest(S) \in S /\ \A n \in S : n <= Latest(S)
<1>1. \E m \in S : \A n \in S : n <= m
  BY GreatestExists
<1>2. QED
  BY <1>1 DEF Latest

-----------------------------------------------------------------------------
(* Sequences.                                                              *)

LEMMA Removed ==
    ASSUME NEW T, NEW seq \in Seq(T), NEW i \in DOMAIN seq
    PROVE  /\ RemoveAt(seq, i) \in Seq(T)
           /\ \A k \in 1..Len(RemoveAt(seq, i)) :
                 \E j \in 1..Len(seq) : RemoveAt(seq, i)[k] = seq[j]
<1> DEFINE front == SubSeq(seq, 1, i - 1)
           rest == SubSeq(seq, i + 1, Len(seq))
<1>1. Len(seq) \in Nat /\ DOMAIN seq = 1..Len(seq) /\ i \in 1..Len(seq)
  BY LenProperties
<1>2. front \in Seq(T) /\ Len(front) = i - 1 /\ \A k \in 1..(i - 1) : front[k] = seq[k]
  BY <1>1, SubSeqProperties
<1>3. rest \in Seq(T) /\ Len(rest) = Len(seq) - i
        /\ \A k \in 1..(Len(seq) - i) : rest[k] = seq[i + k]
  BY <1>1, SubSeqProperties
<1> HIDE DEF front, rest
<1>4. /\ front \o rest \in Seq(T)
      /\ Len(front \o rest) = Len(seq) - 1
      /\ \A k \in 1..(Len(seq) - 1) :
           (front \o rest)[k] = IF k <= i - 1 THEN front[k] ELSE rest[k - (i - 1)]
  <2>1. /\ front \o rest \in Seq(T)
        /\ Len(front \o rest) = Len(front) + Len(rest)
        /\ \A k \in 1..(Len(front) + Len(rest)) :
             (front \o rest)[k] = IF k <= Len(front) THEN front[k] ELSE rest[k - Len(front)]
    BY <1>2, <1>3, ConcatProperties
  <2>2. Len(front) + Len(rest) = Len(seq) - 1
    BY <1>1, <1>2, <1>3
  <2>3. QED
    BY <2>1, <2>2, <1>2
<1>5. ASSUME NEW k \in 1..(Len(seq) - 1)
      PROVE  (front \o rest)[k] = IF k <= i - 1 THEN seq[k] ELSE seq[k + 1]
  <2>1. CASE k <= i - 1
    BY <2>1, <1>1, <1>2, <1>4
  <2>2. CASE ~(k <= i - 1)
    <3>1. k - (i - 1) \in 1..(Len(seq) - i) /\ i + (k - (i - 1)) = k + 1
      BY <2>2, <1>1
    <3>2. QED
      BY <2>2, <3>1, <1>3, <1>4
  <2>3. QED
    BY <2>1, <2>2
<1>6. RemoveAt(seq, i) = front \o rest
  BY DEF RemoveAt, front, rest
<1>7. QED
  BY <1>1, <1>4, <1>5, <1>6

-----------------------------------------------------------------------------
(* The invariant of TranscriptSync.                                        *)

(* Every event names the entry it belongs to by its first event, and the   *)
(* events of an entry follow one another.                                  *)
LogShape ==
    /\ Len(log) \in 1..MaxSequence
    /\ \A n \in 1..Len(log) : log[n] \in 1..n /\ log[log[n]] = log[n]
    /\ \A m, n \in 1..Len(log) : m <= n => log[m] <= log[n]

(* Nothing is of a fence still to come; an engine at the daemon's fence    *)
(* has a connection that is held to it.                                    *)
Dated ==
    /\ shown.fence <= epoch /\ cursor.epoch <= epoch
    /\ stream.fence <= epoch /\ stream.known <= epoch
    /\ stream.fence = epoch => stream.known = epoch
    /\ \A i \in 1..Len(pages) : pages[i].epoch <= epoch
    /\ \A k \in 1..Len(inbox) : inbox[k].epoch <= epoch

(* The entries are in versions the log had by the event `top`.             *)
Agrees(l, entries, top) ==
    \A s \in DOMAIN entries : entries[s] \in 1..top /\ l[entries[s]] = s

(* Event n is in its entry.                                                *)
Has(l, entries, n) == l[n] \in DOMAIN entries /\ n <= entries[l[n]]

(* A frame of the present fence has every event of its entries: a snapshot *)
(* those from its oldest on, a delta those touched after the event it      *)
(* starts from.                                                            *)
FrameOK(l, f) ==
    /\ f.max \in 1..Len(l)
    /\ Agrees(l, f.entries, f.max)
    /\ \A n \in 1..f.max : l[n] \in DOMAIN f.entries => Has(l, f.entries, n)
    /\ f.kind = "snapshot" =>
         \A n \in 1..f.max : l[n] >= f.older => Has(l, f.entries, n)
    /\ f.kind = "delta" =>
         \E a \in 0..(f.max - 1) :
            /\ \A n \in (a + 1)..f.max : l[n] \in DOMAIN f.entries
            /\ \A s \in DOMAIN f.entries : f.entries[s] > a

(* A page of the present fence, complete up to the event it was read after. *)
PageOK(l, p) ==
    /\ p.max <= p.at /\ p.at <= Len(l)
    /\ Agrees(l, p.entries, p.max)
    /\ \A n \in 1..p.at :
         l[n] >= p.older /\ (p.before = 0 \/ l[n] < p.before) => Has(l, p.entries, n)
    /\ p.before = 0 => p.max = p.at
    /\ p.before # 0 /\ p.max # 0 => l[p.max] < p.before

NotHollow(t) == t.entries = NoEntries => t.max = 0 /\ t.older = 0

MessagesOK ==
    /\ \A k \in 1..Len(inbox) :
         inbox[k].entries # NoEntries /\ (inbox[k].epoch = epoch => FrameOK(log, inbox[k]))
    /\ \A i \in 1..Len(pages) :
         NotHollow(pages[i]) /\ (pages[i].epoch = epoch => PageOK(log, pages[i]))
    /\ NotHollow(shown)

(* NothingLost and NothingForeign in terms of events.                      *)
Shows(l, t) ==
    /\ t.max <= Len(l)
    /\ Agrees(l, t.entries, t.max)
    /\ \A n \in 1..t.max : l[n] >= t.older => Has(l, t.entries, n)

ShownOK == ~crossed /\ shown.fence = epoch => Shows(log, shown)

(* Frames are queued in the order of the log, and none is behind the panel. *)
QueueOK ==
    /\ \A j, k \in 1..Len(inbox) :
         j <= k /\ inbox[j].epoch = epoch =>
            inbox[k].epoch = epoch /\ inbox[j].max <= inbox[k].max
    /\ ~crossed /\ shown.fence = epoch =>
         \A k \in 1..Len(inbox) : inbox[k].epoch = epoch /\ shown.max <= inbox[k].max

(* The panel is at event n once the frames in the queue are handled.       *)
Reached(n) ==
    IF inbox = <<>> THEN shown.fence = epoch /\ n <= shown.max
    ELSE inbox[Len(inbox)].epoch = epoch /\ n <= inbox[Len(inbox)].max

(* Unless a page is awaited, which restarts the stream, the stream is not  *)
(* ahead of what the panel has or is about to get.                         *)
StreamOK ==
    ~crossed /\ ~fetching =>
        /\ cursor = CursorOf(shown)
        /\ stream.known = epoch => Reached(stream.after)

IInv == TypeOK /\ LogShape /\ Dated /\ MessagesOK /\ ShownOK /\ QueueOK /\ StreamOK

-----------------------------------------------------------------------------
(* What the daemon sends.                                                  *)

LEMMA LogFacts ==
    ASSUME TypeOK, LogShape
    PROVE  /\ Len(log) \in Nat \ {0} /\ DOMAIN log = 1..Len(log)
           /\ \A n \in 1..Len(log) : log[n] \in Sequences /\ log[n] \in Nat
           /\ Starts(log) = {log[n] : n \in 1..Len(log)}
           /\ Starts(log) \in SUBSET Nat /\ Starts(log) \in SUBSET (1..Len(log))
           /\ Starts(log) # {}
<1>1. Len(log) \in Nat \ {0} /\ DOMAIN log = 1..Len(log)
  BY LenProperties DEF TypeOK, LogShape
<1>2. \A n \in 1..Len(log) : log[n] \in Sequences
  BY <1>1, ElementOfSeq DEF TypeOK
<1>3. Starts(log) = {log[n] : n \in 1..Len(log)}
  BY <1>1 DEF Starts
<1>4. \A n \in 1..Len(log) : log[n] \in Nat /\ log[n] \in 1..Len(log)
  BY <1>1 DEF LogShape
<1>5. 1 \in 1..Len(log)
  BY <1>1
<1>6. QED
  BY <1>1, <1>2, <1>3, <1>4, <1>5

LEMMA VersionIsLast ==
    ASSUME TypeOK, LogShape, NEW s \in Starts(log)
    PROVE  /\ Version(log, s) \in 1..Len(log)
           /\ log[Version(log, s)] = s
           /\ \A n \in 1..Len(log) : log[n] = s => n <= Version(log, s)
<1> DEFINE events == {n \in DOMAIN log : log[n] = s}
<1>1. Len(log) \in Nat /\ DOMAIN log = 1..Len(log)
  BY LogFacts
<1>2. events \in SUBSET Nat /\ events # {} /\ \A n \in events : n <= Len(log)
  BY <1>1 DEF Starts
<1> HIDE DEF events
<1>3. Latest(events) \in events /\ \A n \in events : n <= Latest(events)
  BY <1>1, <1>2, LatestIsGreatest
<1>4. Version(log, s) = Latest(events)
  BY DEF Version, events
<1>5. QED
  BY <1>1, <1>3, <1>4 DEF events

LEMMA ContentsAgree ==
    ASSUME TypeOK, LogShape, NEW S, S \subseteq Starts(log)
    PROVE  /\ DOMAIN Contents(S) = S
           /\ Agrees(log, Contents(S), Len(log))
           /\ Contents(S) \in Entries
           /\ \A n \in 1..Len(log) : log[n] \in S => Has(log, Contents(S), n)
<1>1. \A s \in S : /\ Contents(S)[s] \in 1..Len(log)
                   /\ log[Contents(S)[s]] = s
                   /\ \A n \in 1..Len(log) : log[n] = s => n <= Contents(S)[s]
  BY VersionIsLast DEF Contents
<1>2. DOMAIN Contents(S) = S
  BY DEF Contents
<1>3. S \in SUBSET Sequences
  BY LogFacts
<1>4. \A s \in S : Version(log, s) \in Sequences
  BY BoundsAssumption, VersionIsLast DEF LogShape, Sequences
<1>5. Contents(S) \in [S -> Sequences]
  BY <1>4 DEF Contents
<1>6. QED
  BY <1>1, <1>2, <1>3, <1>5 DEF Agrees, Has, Entries

LEMMA NewestIsUpper ==
    ASSUME TypeOK, LogShape, NEW before \in Nat
    PROVE  /\ Newest(before) \subseteq Below(before) /\ Below(before) \subseteq Starts(log)
           /\ \A s \in Newest(before), t \in Below(before) : s <= t => t \in Newest(before)
           /\ Below(before) # {} => Newest(before) # {}
<1> DEFINE B == Below(before)
           After(s) == {t \in B : t > s}
<1>1. B \subseteq Starts(log) /\ Starts(log) \in SUBSET Nat /\ Starts(log) \subseteq 1..Len(log)
        /\ Len(log) \in Nat
  BY LogFacts DEF Below
<1>2. Newest(before) = {s \in B : Cardinality(After(s)) < PageSize}
  BY DEF Newest
<1>3. IsFiniteSet(B)
  <2>1. IsFiniteSet(1..Len(log)) /\ B \in SUBSET (1..Len(log))
    BY <1>1, FS_Interval
  <2>2. QED
    BY <2>1, FS_Subset
<1>4. ASSUME NEW s \in B PROVE IsFiniteSet(After(s)) /\ Cardinality(After(s)) \in Nat
  BY <1>3, FS_Subset, FS_CardinalityType
<1>5. ASSUME NEW s \in Newest(before), NEW t \in B, s <= t
      PROVE  t \in Newest(before)
  <2>1. After(t) \subseteq After(s)
    BY <1>1, <1>2, <1>5
  <2>2. s \in B
    BY <1>2
  <2>3. Cardinality(After(t)) <= Cardinality(After(s))
    BY <2>1, <2>2, <1>4, FS_Subset
  <2>4. Cardinality(After(s)) < PageSize
    BY <1>2
  <2>5. Cardinality(After(t)) < PageSize
    BY <2>2, <2>3, <2>4, <1>4, BoundsAssumption
  <2>6. QED
    BY <2>5, <1>2
<1>6. ASSUME B # {} PROVE Newest(before) # {}
  <2>1. B \in SUBSET Nat /\ \A n \in B : n <= Len(log)
    BY <1>1
  <2>2. PICK m \in B : \A n \in B : n <= m
    BY <1>1, <1>6, <2>1, GreatestExists
  <2>3. After(m) = {}
    BY <2>1, <2>2
  <2>4. Cardinality(After(m)) = 0
    BY <2>3, FS_EmptySet
  <2>5. m \in Newest(before)
    BY <2>4, <1>2, BoundsAssumption
  <2>6. QED
    BY <2>5
<1>7. QED
  BY <1>1, <1>2, <1>5, <1>6

(* A page leaves out only what is below the sequence it says to ask with.  *)
LEMMA OlderIsRest ==
    ASSUME TypeOK, LogShape, NEW before \in Nat
    PROVE  /\ OlderThan(Newest(before)) \in 0..MaxSequence
           /\ Newest(before) = {} => OlderThan(Newest(before)) = 0
           /\ \A s \in Starts(log) :
                s >= OlderThan(Newest(before)) /\ (before = 0 \/ s < before)
                    => s \in Newest(before)
<1> DEFINE S == Newest(before)
<1>1. S \subseteq Below(before) /\ Below(before) \subseteq Starts(log)
        /\ Starts(log) \in SUBSET Nat /\ Starts(log) \subseteq Sequences
  BY NewestIsUpper, LogFacts
<1>2. CASE S = {}
  <2>1. Below(before) = {}
    BY <1>2, NewestIsUpper
  <2>2. \A s \in Starts(log) : ~(before = 0 \/ s < before)
    BY <2>1 DEF Below
  <2>3. OlderThan(S) = 0
    BY <1>2 DEF OlderThan
  <2>4. QED
    BY <1>2, <2>2, <2>3, BoundsAssumption
<1>3. CASE S # {}
  <2>1. Oldest(S) \in S /\ \A n \in S : Oldest(S) <= n
    BY <1>1, <1>3, OldestIsLeast
  <2>2. ASSUME NEW s \in Starts(log), s >= OlderThan(S), before = 0 \/ s < before
        PROVE  s \in S
    <3>1. s \in Below(before)
      BY <2>2 DEF Below
    <3>2. Oldest(S) <= s
      BY <2>2, <1>1, <1>3, <2>1 DEF OlderThan
    <3>3. QED
      BY <2>1, <3>1, <3>2, NewestIsUpper
  <2>3. OlderThan(S) \in 0..MaxSequence
    <3>1. Oldest(S) \in Sequences
      BY <1>1, <2>1
    <3>2. OlderThan(S) \in {Oldest(S), 0}
      BY DEF OlderThan
    <3>3. QED
      BY <3>1, <3>2, BoundsAssumption DEF Sequences
  <2>4. QED
    BY <1>3, <2>2, <2>3
<1>4. QED
  BY <1>2, <1>3

LEMMA PageIsOK ==
    ASSUME TypeOK, LogShape, NEW before \in 0..MaxSequence
    PROVE  PageOf(before) \in PageSlots /\ NotHollow(PageOf(before)) /\ PageOK(log, PageOf(before))
<1> DEFINE S == Newest(before)
           content == Contents(S)
           p == PageOf(before)
           top == IF before = 0 THEN Len(log)
                  ELSE IF S = {} THEN 0 ELSE Latest({content[s] : s \in S})
<1>0. before \in Nat /\ before \in 0..MaxSequence
  BY BoundsAssumption
<1>1. /\ p = [read |-> TRUE, before |-> before, epoch |-> epoch, entries |-> content,
              max |-> top, older |-> OlderThan(S), at |-> Len(log)]
  BY DEF PageOf
<1>2. S \subseteq Starts(log)
  BY <1>0, NewestIsUpper
<1>3. /\ DOMAIN content = S /\ Agrees(log, content, Len(log)) /\ content \in Entries
      /\ \A n \in 1..Len(log) : log[n] \in S => Has(log, content, n)
  BY <1>2, ContentsAgree
<1>4. /\ Len(log) \in Nat /\ Len(log) \in 1..MaxSequence
      /\ Starts(log) = {log[n] : n \in 1..Len(log)} /\ Starts(log) # {}
  BY LogFacts DEF LogShape
<1>5. /\ OlderThan(S) \in 0..MaxSequence
      /\ S = {} => OlderThan(S) = 0
      /\ \A s \in Starts(log) :
           s >= OlderThan(S) /\ (before = 0 \/ s < before) => s \in S
  BY <1>0, OlderIsRest
<1>6. /\ top \in 0..Len(log)
      /\ \A s \in S : content[s] \in 1..top
      /\ before # 0 /\ top # 0 => log[top] < before
  <2> HIDE DEF content, S
  <2>1. \A s \in S : content[s] \in 1..Len(log) /\ log[content[s]] = s
    BY <1>3 DEF Agrees
  <2>2. CASE before = 0
    BY <2>1, <2>2, <1>4
  <2>3. CASE before # 0 /\ S = {}
    BY <2>3, <1>4
  <2>4. CASE before # 0 /\ S # {}
    <3> DEFINE V == {content[s] : s \in S}
    <3>1. V \in SUBSET Nat /\ V # {} /\ \A n \in V : n <= Len(log)
      BY <2>1, <2>4, <1>4
    <3>2. Latest(V) \in V /\ \A n \in V : n <= Latest(V)
      BY <3>1, <1>4, LatestIsGreatest
    <3>3. top = Latest(V)
      BY <2>4
    <3> HIDE DEF top
    <3>4. PICK s \in S : top = content[s]
      BY <3>2, <3>3
    <3>5. log[top] = s /\ top \in 1..Len(log)
      BY <3>4, <2>1
    <3>6. s < before
      BY <2>4, <1>0, NewestIsUpper DEF S, Below
    <3>7. \A r \in S : content[r] \in 1..top
      BY <3>2, <3>3, <3>5, <2>1, <1>4
    <3>8. QED
      BY <3>5, <3>6, <3>7
  <2>5. QED
    BY <2>2, <2>3, <2>4
<1> HIDE DEF content, S, p, top
<1>7. p \in PageSlots
  <2>1. top \in 0..MaxSequence /\ Len(log) \in 0..MaxSequence /\ epoch \in 0..MaxEpoch
    BY <1>4, <1>6, BoundsAssumption DEF TypeOK
  <2>2. QED
    BY <2>1, <1>0, <1>1, <1>3, <1>5 DEF PageSlots
<1>8. NotHollow(p)
  <2>1. ASSUME content = NoEntries PROVE S = {}
    BY <2>1, <1>3 DEF NoEntries
  <2>2. ASSUME S = {} PROVE before # 0
    BY <2>2, <1>4, <1>5, <1>0, LogFacts
  <2>3. ASSUME S = {} PROVE top = 0
    BY <2>2, <2>3 DEF top
  <2>4. QED
    BY <2>1, <2>3, <1>1, <1>5 DEF NotHollow
<1>9. PageOK(log, p)
  <2>1. top <= Len(log) /\ (before = 0 => top = Len(log))
    BY <1>4, <1>6 DEF top
  <2>2. Agrees(log, content, top)
    BY <1>3, <1>6 DEF Agrees
  <2>3. \A n \in 1..Len(log) :
          log[n] >= OlderThan(S) /\ (before = 0 \/ log[n] < before) => Has(log, content, n)
    BY <1>3, <1>4, <1>5
  <2>4. QED
    BY <2>1, <2>2, <2>3, <1>1, <1>6 DEF PageOK
<1>10. QED
  BY <1>7, <1>8, <1>9 DEF p

LEMMA SnapshotIsOK ==
    ASSUME TypeOK, LogShape
    PROVE  /\ SnapshotFrame \in Frames /\ SnapshotFrame.entries # NoEntries
           /\ FrameOK(log, SnapshotFrame)
           /\ SnapshotFrame.epoch = epoch /\ SnapshotFrame.max = Len(log)
<1> DEFINE S == Newest(0)
           content == Contents(S)
           f == SnapshotFrame
<1>1. f = [kind |-> "snapshot", epoch |-> epoch, entries |-> content,
           max |-> Len(log), older |-> OlderThan(S)]
  BY DEF SnapshotFrame
<1>2. S \subseteq Starts(log) /\ S # {}
  BY NewestIsUpper, LogFacts DEF Below
<1>3. /\ DOMAIN content = S /\ Agrees(log, content, Len(log)) /\ content \in Entries
      /\ \A n \in 1..Len(log) : log[n] \in S => Has(log, content, n)
  BY <1>2, ContentsAgree
<1>4. /\ Len(log) \in 1..MaxSequence /\ Len(log) \in Nat \ {0}
      /\ Starts(log) = {log[n] : n \in 1..Len(log)}
  BY LogFacts DEF LogShape
<1>5. /\ OlderThan(S) \in 0..MaxSequence
      /\ \A s \in Starts(log) : s >= OlderThan(S) => s \in S
  BY OlderIsRest
<1> HIDE DEF content, S, f
<1>6. content # NoEntries
  BY <1>2, <1>3 DEF NoEntries
<1>7. f \in Frames
  BY <1>1, <1>3, <1>4, <1>5 DEF Frames, TypeOK
<1>8. FrameOK(log, f)
  <2>1. Len(log) \in 1..Len(log)
    BY <1>4
  <2>2. \A n \in 1..Len(log) : log[n] >= OlderThan(S) => Has(log, content, n)
    BY <1>3, <1>4, <1>5
  <2>3. QED
    BY <2>1, <2>2, <1>1, <1>3 DEF FrameOK
<1>9. QED
  BY <1>1, <1>6, <1>7, <1>8 DEF f

LEMMA DeltaIsOK ==
    ASSUME TypeOK, LogShape, NEW after \in Nat, after < Len(log)
    PROVE  /\ DeltaFrame(after) \in Frames /\ DeltaFrame(after).entries # NoEntries
           /\ FrameOK(log, DeltaFrame(after))
           /\ DeltaFrame(after).epoch = epoch /\ DeltaFrame(after).max = Len(log)
<1> DEFINE S == {s \in Starts(log) : Version(log, s) > after}
           content == Contents(S)
           f == DeltaFrame(after)
<1>1. f = [kind |-> "delta", epoch |-> epoch, entries |-> content,
           max |-> Len(log), older |-> 0]
  BY DEF DeltaFrame
<1>2. S \subseteq Starts(log)
  OBVIOUS
<1>3. /\ DOMAIN content = S /\ Agrees(log, content, Len(log)) /\ content \in Entries
      /\ \A n \in 1..Len(log) : log[n] \in S => Has(log, content, n)
  BY <1>2, ContentsAgree
<1>4. /\ Len(log) \in 1..MaxSequence /\ Len(log) \in Nat \ {0}
      /\ Starts(log) = {log[n] : n \in 1..Len(log)}
  BY LogFacts DEF LogShape
<1>5. ASSUME NEW n \in (after + 1)..Len(log) PROVE log[n] \in S
  <2>1. n \in 1..Len(log) /\ n > after /\ n \in Nat
    BY <1>4
  <2>2. log[n] \in Starts(log)
    BY <2>1, <1>4
  <2>3. n <= Version(log, log[n]) /\ Version(log, log[n]) \in 1..Len(log)
    BY <2>1, <2>2, VersionIsLast
  <2>4. Version(log, log[n]) > after
    BY <2>1, <2>3, <1>4
  <2>5. QED
    BY <2>2, <2>4
<1>6. \A s \in S : content[s] > after
  BY DEF Contents
<1>7. Len(log) \in (after + 1)..Len(log) /\ after \in 0..(Len(log) - 1)
        /\ Len(log) \in 1..Len(log)
  BY <1>4
<1> HIDE DEF content, S, f
<1>8. content # NoEntries
  BY <1>3, <1>5, <1>7 DEF NoEntries
<1>9. f \in Frames
  BY <1>1, <1>3, <1>4, BoundsAssumption DEF Frames, TypeOK
<1>10. FrameOK(log, f)
  <2>1. /\ \A n \in (after + 1)..Len(log) : log[n] \in DOMAIN content
        /\ \A s \in DOMAIN content : content[s] > after
    BY <1>3, <1>5, <1>6
  <2>2. QED
    BY <2>1, <1>1, <1>3, <1>7 DEF FrameOK
<1>11. QED
  BY <1>1, <1>8, <1>9, <1>10 DEF f

-----------------------------------------------------------------------------
(* The daemon's steps.                                                     *)

(* What a message or the panel says of a log stays true as the log grows.  *)
LEMMA Growth ==
    ASSUME NEW l \in Seq(Sequences), NEW m \in Seq(Sequences), Len(l) <= Len(m),
           \A n \in 1..Len(l) : m[n] = l[n], NEW x
    PROVE  /\ x \in Frames /\ FrameOK(l, x) => FrameOK(m, x)
           /\ x \in PageSlots /\ PageOK(l, x) => PageOK(m, x)
           /\ x \in Transcripts /\ Shows(l, x) => Shows(m, x)
<1>1. Len(l) \in Nat /\ Len(m) \in Nat
  BY LenProperties
<1>2. ASSUME NEW entries, NEW top \in Nat, top <= Len(l), Agrees(l, entries, top)
      PROVE  Agrees(m, entries, top)
  BY <1>1, <1>2 DEF Agrees
<1>3. ASSUME NEW entries, NEW n \in 1..Len(l) PROVE Has(l, entries, n) <=> Has(m, entries, n)
  BY DEF Has
<1>4. ASSUME x \in Frames, FrameOK(l, x) PROVE FrameOK(m, x)
  <2>1. x.max \in Nat /\ x.max \in 1..Len(l) /\ x.max \in 1..Len(m)
    BY <1>1, <1>4, BoundsAssumption DEF Frames, FrameOK
  <2>2. Agrees(m, x.entries, x.max)
    BY <1>1, <1>2, <1>4, <2>1 DEF FrameOK
  <2>3. \A n \in 1..x.max : n \in 1..Len(l) /\ m[n] = l[n]
    BY <1>1, <2>1
  <2>4. x.kind = "snapshot" => \A n \in 1..x.max : m[n] >= x.older => Has(m, x.entries, n)
    BY <1>3, <1>4, <2>3 DEF FrameOK
  <2>5. \A n \in 1..x.max : m[n] \in DOMAIN x.entries => Has(m, x.entries, n)
    BY <1>3, <1>4, <2>3 DEF FrameOK
  <2>6. ASSUME x.kind = "delta"
        PROVE  \E a \in 0..(x.max - 1) :
                  /\ \A n \in (a + 1)..x.max : m[n] \in DOMAIN x.entries
                  /\ \A s \in DOMAIN x.entries : x.entries[s] > a
    <3>1. PICK a \in 0..(x.max - 1) :
             /\ \A n \in (a + 1)..x.max : l[n] \in DOMAIN x.entries
             /\ \A s \in DOMAIN x.entries : x.entries[s] > a
      BY <1>4, <2>6 DEF FrameOK
    <3>2. \A n \in (a + 1)..x.max : n \in 1..x.max
      BY <2>1
    <3>3. QED
      BY <2>3, <3>1, <3>2
  <2>7. QED
    BY <2>1, <2>2, <2>4, <2>5, <2>6 DEF FrameOK
<1>5. ASSUME x \in PageSlots, PageOK(l, x) PROVE PageOK(m, x)
  <2>1. /\ x.max \in Nat /\ x.at \in Nat /\ x.max <= x.at /\ x.at <= Len(l)
        /\ x.max <= Len(l) /\ x.at <= Len(m)
    BY <1>1, <1>5, BoundsAssumption DEF PageSlots, PageOK
  <2>2. Agrees(m, x.entries, x.max)
    BY <1>2, <1>5, <2>1 DEF PageOK
  <2>3. \A n \in 1..x.at : n \in 1..Len(l) /\ m[n] = l[n]
    BY <1>1, <2>1
  <2>4. \A n \in 1..x.at :
          m[n] >= x.older /\ (x.before = 0 \/ m[n] < x.before) => Has(m, x.entries, n)
    BY <1>3, <1>5, <2>3 DEF PageOK
  <2>5. x.max # 0 => m[x.max] = l[x.max]
    BY <1>1, <2>1
  <2>6. QED
    BY <1>5, <2>1, <2>2, <2>4, <2>5 DEF PageOK
<1>6. ASSUME x \in Transcripts, Shows(l, x) PROVE Shows(m, x)
  <2>1. x.max \in Nat /\ x.max <= Len(l) /\ x.max <= Len(m)
    BY <1>1, <1>6, BoundsAssumption DEF Transcripts, Shows
  <2>2. Agrees(m, x.entries, x.max)
    BY <1>2, <1>6, <2>1 DEF Shows
  <2>3. \A n \in 1..x.max : n \in 1..Len(l) /\ m[n] = l[n]
    BY <1>1, <2>1
  <2>4. QED
    BY <1>3, <1>6, <2>1, <2>2, <2>3 DEF Shows
<1>7. QED
  BY <1>4, <1>5, <1>6

LEMMA MessageTypes ==
    ASSUME TypeOK
    PROVE  /\ Len(inbox) \in Nat /\ DOMAIN inbox = 1..Len(inbox)
           /\ Len(pages) \in Nat /\ DOMAIN pages = 1..Len(pages)
           /\ \A k \in 1..Len(inbox) : inbox[k] \in Frames
           /\ \A i \in 1..Len(pages) : pages[i] \in PageSlots
  BY LenProperties, ElementOfSeq DEF TypeOK

LEMMA AppendEventKeeps ==
    ASSUME IInv, NEW s \in Sequences, AppendEvent(s)
    PROVE  IInv'
<1>1. /\ UNCHANGED <<epoch, shown, fetching, cursor, stream, pages, inbox, crossed>>
      /\ log' = Append(log, s)
  BY DEF AppendEvent
<1>2. /\ log \in Seq(Sequences) /\ Len(log) \in Nat \ {0} /\ TypeOK /\ LogShape
      /\ \A n \in 1..Len(log) : log[n] \in Nat
  BY LogFacts DEF IInv, TypeOK
<1>3. /\ log' \in Seq(Sequences) /\ Len(log') = Len(log) + 1
      /\ \A n \in 1..Len(log) : log'[n] = log[n]
      /\ log'[Len(log) + 1] = s
  BY <1>1, <1>2, AppendProperties
<1>4. LogShape'
  <2> DEFINE n == Len(log) + 1
  <2>1. n \in 1..MaxSequence
    BY <1>2, BoundsAssumption DEF AppendEvent
  <2>2. log[n - 1] \in 1..(n - 1) /\ log[log[n - 1]] = log[n - 1]
          /\ \A k \in 1..(n - 1) : log[k] <= log[n - 1] /\ log[k] \in 1..k
    BY <1>2 DEF LogShape
  <2>3. s = log[n - 1] \/ s = n
    BY DEF AppendEvent
  <2>4. s \in 1..n /\ \A k \in 1..(n - 1) : log[k] <= s
    BY <1>2, <2>2, <2>3
  <2>5. log'[s] = s
    BY <1>2, <1>3, <2>2, <2>3
  <2>6. \A k \in 1..n : log'[k] \in 1..k /\ log'[log'[k]] = log'[k]
    <3>1. ASSUME NEW k \in 1..(n - 1) PROVE log'[k] \in 1..k /\ log'[log'[k]] = log'[k]
      <4>1. log[k] \in 1..k /\ log[k] \in 1..Len(log) /\ log[log[k]] = log[k]
        BY <1>2 DEF LogShape
      <4>2. QED
        BY <4>1, <1>2, <1>3
    <3>2. QED
      BY <3>1, <2>4, <2>5, <1>2, <1>3
  <2>7. \A j, k \in 1..n : j <= k => log'[j] <= log'[k]
    <3>1. \A j, k \in 1..(n - 1) : j <= k => log'[j] <= log'[k]
      BY <1>2, <1>3 DEF LogShape
    <3>2. \A j \in 1..(n - 1) : log'[j] <= s
      BY <1>2, <1>3, <2>4
    <3>3. s <= s
      BY <2>4, <1>2
    <3>4. QED
      BY <3>1, <3>2, <3>3, <1>2, <1>3
  <2>8. QED
    BY <2>1, <2>6, <2>7, <1>3 DEF LogShape
<1>5. Len(log) <= Len(log')
  BY <1>2, <1>3
<1>6. ASSUME NEW x
      PROVE  /\ x \in Frames /\ FrameOK(log, x) => FrameOK(log', x)
             /\ x \in PageSlots /\ PageOK(log, x) => PageOK(log', x)
             /\ x \in Transcripts /\ Shows(log, x) => Shows(log', x)
  BY <1>2, <1>3, <1>5, Growth
<1>7. MessagesOK'
  <2>1. \A k \in 1..Len(inbox) :
           inbox[k].entries # NoEntries /\ (inbox[k].epoch = epoch => FrameOK(log', inbox[k]))
    BY <1>2, <1>6, MessageTypes DEF IInv, MessagesOK
  <2>2. \A i \in 1..Len(pages) :
           NotHollow(pages[i]) /\ (pages[i].epoch = epoch => PageOK(log', pages[i]))
    BY <1>2, <1>6, MessageTypes DEF IInv, MessagesOK
  <2>3. QED
    BY <1>1, <2>1, <2>2 DEF IInv, MessagesOK
<1>8. ShownOK'
  BY <1>1, <1>2, <1>6 DEF IInv, ShownOK, TypeOK
<1>9. TypeOK'
  BY <1>1, <1>2, <1>3 DEF TypeOK
<1>10. Dated' /\ QueueOK' /\ StreamOK'
  BY <1>1 DEF IInv, Dated, QueueOK, StreamOK, Reached
<1>11. QED
  BY <1>4, <1>7, <1>8, <1>9, <1>10 DEF IInv

(* A rewrite leaves nothing of the present fence.                          *)
LEMMA RewriteKeeps ==
    ASSUME IInv, Rewrite
    PROVE  IInv'
<1>1. /\ UNCHANGED <<shown, fetching, cursor, stream, pages, inbox, crossed>>
      /\ epoch' = epoch + 1 /\ log' = <<1>> /\ epoch < MaxEpoch
  BY DEF Rewrite
<1>2. TypeOK /\ epoch \in Nat /\ MaxEpoch \in Nat
  BY BoundsAssumption DEF IInv, TypeOK
<1>3. TypeOK'
  <2>1. log' \in Seq(Sequences)
    BY <1>1, BoundsAssumption DEF Sequences
  <2>2. epoch' \in 1..MaxEpoch
    BY <1>1, <1>2
  <2>3. QED
    BY <1>1, <1>2, <2>1, <2>2 DEF TypeOK
<1>4. LogShape'
  BY <1>1, BoundsAssumption DEF LogShape
<1>5. /\ \A k \in 1..Len(inbox) : inbox[k].epoch <= epoch /\ inbox[k].epoch \in Nat
      /\ \A i \in 1..Len(pages) : pages[i].epoch <= epoch /\ pages[i].epoch \in Nat
  BY <1>2, MessageTypes, BoundsAssumption DEF IInv, Dated, Frames, PageSlots
<1>6. /\ shown.fence \in Nat /\ shown.fence <= epoch
      /\ cursor.epoch \in Nat /\ cursor.epoch <= epoch
      /\ stream.fence \in Nat /\ stream.fence <= epoch
      /\ stream.known \in Nat /\ stream.known <= epoch
  BY <1>2, BoundsAssumption DEF IInv, Dated, TypeOK, Transcripts, Cursors
<1>7. /\ \A k \in 1..Len(inbox) : inbox[k].epoch # epoch' /\ inbox[k].epoch <= epoch'
      /\ \A i \in 1..Len(pages) : pages[i].epoch # epoch' /\ pages[i].epoch <= epoch'
      /\ shown.fence # epoch' /\ shown.fence <= epoch' /\ cursor.epoch <= epoch'
      /\ stream.fence # epoch' /\ stream.fence <= epoch'
      /\ stream.known # epoch' /\ stream.known <= epoch'
  BY <1>1, <1>2, <1>5, <1>6
<1>8. Dated'
  BY <1>1, <1>7 DEF Dated
<1>9. MessagesOK'
  BY <1>1, <1>7 DEF IInv, MessagesOK
<1>10. ShownOK' /\ QueueOK' /\ StreamOK'
  BY <1>1, <1>7 DEF IInv, ShownOK, QueueOK, StreamOK
<1>11. QED
  BY <1>3, <1>4, <1>8, <1>9, <1>10 DEF IInv

LEMMA ReadPageKeeps ==
    ASSUME IInv, NEW i \in DOMAIN pages, ReadPage(i)
    PROVE  IInv'
<1> DEFINE p == PageOf(pages[i].before)
<1>1. /\ UNCHANGED <<epoch, log, shown, fetching, cursor, stream, inbox, crossed>>
      /\ pages' = [pages EXCEPT ![i] = p]
  BY DEF ReadPage
<1>2. TypeOK /\ LogShape /\ i \in 1..Len(pages) /\ pages[i] \in PageSlots
        /\ pages \in Seq(PageSlots)
  BY MessageTypes DEF IInv, TypeOK
<1>3. p \in PageSlots /\ NotHollow(p) /\ PageOK(log, p) /\ p.epoch = epoch
  BY <1>2, PageIsOK DEF PageSlots, PageOf
<1> HIDE DEF p
<1>4. /\ pages' \in Seq(PageSlots) /\ Len(pages') = Len(pages)
      /\ \A j \in 1..Len(pages) : pages'[j] = IF j = i THEN p ELSE pages[j]
  BY <1>1, <1>2, <1>3, ExceptSeq
<1>5. TypeOK'
  BY <1>1, <1>2, <1>4 DEF TypeOK
<1>6. Dated'
  BY <1>1, <1>2, <1>3, <1>4 DEF IInv, Dated, TypeOK
<1>7. MessagesOK'
  BY <1>1, <1>3, <1>4 DEF IInv, MessagesOK
<1>8. LogShape' /\ ShownOK' /\ QueueOK' /\ StreamOK'
  BY <1>1 DEF IInv, LogShape, ShownOK, QueueOK, StreamOK, Reached
<1>9. QED
  BY <1>5, <1>6, <1>7, <1>8 DEF IInv

LEMMA SendFrameKeeps ==
    ASSUME IInv, SendFrame
    PROVE  IInv'
<1>1. /\ UNCHANGED <<epoch, log, shown, fetching, cursor, pages, crossed>>
      /\ stream' = [stream EXCEPT !.after = Len(log), !.known = epoch]
  BY DEF SendFrame
<1>2. /\ TypeOK /\ LogShape /\ Len(log) \in Nat \ {0} /\ Len(log) \in 0..MaxSequence
      /\ epoch \in 0..MaxEpoch /\ epoch \in Nat
  BY LogFacts, BoundsAssumption DEF IInv, TypeOK, LogShape
<1>3. PICK f : /\ inbox' = Append(inbox, f)
               /\ f \in Frames /\ f.entries # NoEntries /\ FrameOK(log, f)
               /\ f.epoch = epoch /\ f.max = Len(log)
  <2>1. CASE stream.known # epoch /\ inbox' = Append(inbox, SnapshotFrame)
    BY <1>2, <2>1, SnapshotIsOK
  <2>2. CASE stream.known = epoch /\ stream.after < Len(log)
               /\ inbox' = Append(inbox, DeltaFrame(stream.after))
    <3>1. stream.after \in Nat
      BY <1>2, BoundsAssumption DEF TypeOK
    <3>2. QED
      BY <1>2, <2>2, <3>1, DeltaIsOK
  <2>3. QED
    BY <2>1, <2>2 DEF SendFrame
<1>4. /\ inbox \in Seq(Frames) /\ Len(inbox) \in Nat /\ inbox' \in Seq(Frames)
      /\ Len(inbox') = Len(inbox) + 1 /\ inbox'[Len(inbox) + 1] = f
      /\ \A k \in 1..Len(inbox) : inbox'[k] = inbox[k]
  BY <1>2, <1>3, AppendProperties, LenProperties DEF TypeOK
<1>5. \A k \in 1..Len(inbox') : k \in 1..Len(inbox) \/ (k = Len(inbox) + 1 /\ inbox'[k] = f)
  BY <1>4
<1>6. /\ stream'.after = Len(log) /\ stream'.known = epoch
      /\ stream'.fence = stream.fence /\ stream'.source = stream.source
      /\ stream' \in [fence : 0..MaxEpoch, after : 0..MaxSequence, source : Cursors,
                      known : 0..MaxEpoch]
  BY <1>1, <1>2 DEF TypeOK
<1>7. TypeOK'
  BY <1>1, <1>2, <1>4, <1>6 DEF TypeOK
<1>8. Dated'
  <2>1. \A k \in 1..Len(inbox') : inbox'[k].epoch <= epoch
    BY <1>2, <1>3, <1>4, <1>5 DEF IInv, Dated
  <2>2. QED
    BY <1>1, <1>2, <1>6, <2>1 DEF IInv, Dated
<1>9. MessagesOK'
  <2>1. \A k \in 1..Len(inbox') :
           inbox'[k].entries # NoEntries /\ (inbox'[k].epoch = epoch => FrameOK(log, inbox'[k]))
    BY <1>3, <1>4, <1>5 DEF IInv, MessagesOK
  <2>2. QED
    BY <1>1, <2>1 DEF IInv, MessagesOK
<1>10. QueueOK'
  <2>1. \A k \in 1..Len(inbox) : inbox[k].epoch = epoch => inbox[k].max <= Len(log)
    BY DEF IInv, MessagesOK, FrameOK
  <2>2. ASSUME NEW j \in 1..Len(inbox'), NEW k \in 1..Len(inbox'), j <= k,
               inbox'[j].epoch = epoch
        PROVE  inbox'[k].epoch = epoch /\ inbox'[j].max <= inbox'[k].max
    <3>1. CASE k \in 1..Len(inbox)
      <4>1. j \in 1..Len(inbox)
        BY <1>4, <2>2, <3>1
      <4>2. QED
        BY <1>4, <2>2, <3>1, <4>1 DEF IInv, QueueOK
    <3>2. CASE k = Len(inbox) + 1 /\ inbox'[k] = f
      BY <1>2, <1>3, <1>4, <1>5, <2>1, <2>2, <3>2
    <3>3. QED
      BY <1>5, <3>1, <3>2
  <2>3. ASSUME ~crossed, shown.fence = epoch, NEW k \in 1..Len(inbox')
        PROVE  inbox'[k].epoch = epoch /\ shown.max <= inbox'[k].max
    <3>1. shown.max <= Len(log)
      BY <2>3 DEF IInv, ShownOK, Shows
    <3>2. k \in 1..Len(inbox) => inbox[k].epoch = epoch /\ shown.max <= inbox[k].max
      BY <2>3 DEF IInv, QueueOK
    <3>3. QED
      BY <1>3, <1>4, <1>5, <3>1, <3>2
  <2>4. QED
    BY <1>1, <2>2, <2>3 DEF QueueOK
<1>11. StreamOK'
  <2>1. inbox' # <<>> /\ Len(inbox') = Len(inbox) + 1
    BY <1>3, <1>4
  <2>2. Reached(Len(log))'
    BY <1>1, <1>2, <1>3, <1>4, <2>1 DEF Reached
  <2>3. QED
    BY <1>1, <1>2, <1>3, <1>4, <1>6, <2>1 DEF IInv, StreamOK, Reached
<1>12. LogShape' /\ ShownOK'
  BY <1>1 DEF IInv, LogShape, ShownOK
<1>13. QED
  BY <1>7, <1>8, <1>9, <1>10, <1>11, <1>12 DEF IInv

LEMMA ReconnectKeeps ==
    ASSUME IInv, Reconnect
    PROVE  IInv'
<1>1. UNCHANGED <<epoch, log, shown, fetching, cursor, pages, inbox, crossed>>
  BY DEF Reconnect
<1>2. TypeOK
  BY DEF IInv
<1>3. CASE stream' = ConnectAt(cursor)
  <2>1. /\ stream'.fence = cursor.epoch /\ stream'.known = cursor.epoch
        /\ stream'.after = cursor.after
        /\ stream' \in [fence : 0..MaxEpoch, after : 0..MaxSequence, source : Cursors,
                        known : 0..MaxEpoch]
    BY <1>2, <1>3 DEF ConnectAt, TypeOK, Cursors
  <2>2. TypeOK'
    BY <1>1, <1>2, <2>1 DEF TypeOK
  <2>3. Dated'
    BY <1>1, <2>1 DEF IInv, Dated
  <2>4. StreamOK'
    <3> SUFFICES ASSUME ~crossed, ~fetching
                 PROVE  cursor = CursorOf(shown) /\ (cursor.epoch = epoch => Reached(cursor.after))
      BY <1>1, <2>1 DEF StreamOK, Reached
    <3>1. cursor = CursorOf(shown) /\ cursor.epoch = shown.fence /\ cursor.after = shown.max
      BY DEF IInv, StreamOK, CursorOf
    <3>2. ASSUME shown.fence = epoch, inbox # <<>>
          PROVE  inbox[Len(inbox)].epoch = epoch /\ shown.max <= inbox[Len(inbox)].max
      <4>1. Len(inbox) \in 1..Len(inbox)
        BY <1>2, <3>2, MessageTypes, EmptySeq DEF TypeOK
      <4>2. QED
        BY <3>2, <4>1 DEF IInv, QueueOK
    <3>3. shown.max <= shown.max
      BY <1>2, BoundsAssumption DEF TypeOK, Transcripts
    <3>4. QED
      BY <3>1, <3>2, <3>3 DEF Reached
  <2>5. QED
    BY <1>1, <2>2, <2>3, <2>4 DEF IInv, LogShape, MessagesOK, ShownOK, QueueOK
<1>4. CASE stream' = [stream EXCEPT !.known = stream.fence]
  <2>1. /\ stream'.known = stream.fence /\ stream'.fence = stream.fence
        /\ stream'.after = stream.after
        /\ stream' \in [fence : 0..MaxEpoch, after : 0..MaxSequence, source : Cursors,
                        known : 0..MaxEpoch]
    BY <1>2, <1>4 DEF TypeOK
  <2>2. TypeOK'
    BY <1>1, <1>2, <2>1 DEF TypeOK
  <2>3. Dated'
    BY <1>1, <2>1 DEF IInv, Dated
  <2>4. StreamOK'
    BY <1>1, <2>1 DEF IInv, Dated, StreamOK, Reached
  <2>5. QED
    BY <1>1, <2>2, <2>3, <2>4 DEF IInv, LogShape, MessagesOK, ShownOK, QueueOK
<1>5. QED
  BY <1>3, <1>4 DEF Reconnect

-----------------------------------------------------------------------------
(* Pages.                                                                  *)

LEMMA NoEntriesType == NoEntries \in Entries
<1>1. {} \in SUBSET Sequences /\ NoEntries \in [{} -> Sequences]
  BY DEF NoEntries
<1>2. QED
  BY <1>1 DEF Entries

LEMMA MergedEntries ==
    ASSUME NEW e \in Entries, NEW f \in Entries
    PROVE  /\ Merged(e, f) \in Entries
           /\ DOMAIN Merged(e, f) = DOMAIN e \cup DOMAIN f
           /\ \A s \in DOMAIN e : Merged(e, f)[s] = e[s]
           /\ \A s \in DOMAIN f \ DOMAIN e : Merged(e, f)[s] = f[s]
<1>1. PICK S \in SUBSET Sequences : e \in [S -> Sequences]
  BY DEF Entries
<1>2. PICK T \in SUBSET Sequences : f \in [T -> Sequences]
  BY DEF Entries
<1>3. Merged(e, f) \in [S \cup T -> Sequences]
  BY <1>1, <1>2 DEF Merged
<1>4. S \cup T \in SUBSET Sequences
  OBVIOUS
<1>5. QED
  BY <1>1, <1>2, <1>3, <1>4 DEF Merged, Entries

(* A page that is asked for says nothing yet.                              *)
LEMMA AskedKeeps ==
    ASSUME TypeOK, Dated, MessagesOK, NEW before \in 0..MaxSequence,
           pages' = Append(pages, Asked(before))
    PROVE  /\ pages' \in Seq(PageSlots)
           /\ \A i \in 1..Len(pages') :
                /\ pages'[i].epoch <= epoch /\ NotHollow(pages'[i])
                /\ pages'[i].epoch = epoch => PageOK(log, pages'[i])
<1> DEFINE p == Asked(before)
<1>1. /\ p \in PageSlots /\ p.epoch = 0 /\ p.max = 0 /\ p.older = 0
  BY NoEntriesType, BoundsAssumption DEF Asked, PageSlots
<1> HIDE DEF p
<1>2. /\ pages \in Seq(PageSlots) /\ pages' \in Seq(PageSlots) /\ Len(pages) \in Nat
      /\ Len(pages') = Len(pages) + 1 /\ pages'[Len(pages) + 1] = p
      /\ \A i \in 1..Len(pages) : pages'[i] = pages[i]
  BY <1>1, AppendProperties, LenProperties DEF TypeOK, p
<1>3. epoch \in Nat \ {0}
  BY DEF TypeOK
<1>4. ASSUME NEW i \in 1..Len(pages')
      PROVE  /\ pages'[i].epoch <= epoch /\ NotHollow(pages'[i])
             /\ pages'[i].epoch = epoch => PageOK(log, pages'[i])
  <2>1. CASE i \in 1..Len(pages)
    BY <1>2, <2>1 DEF Dated, MessagesOK
  <2>2. CASE i = Len(pages) + 1
    BY <1>1, <1>2, <1>3, <2>2 DEF NotHollow
  <2>3. QED
    BY <1>2, <2>1, <2>2
<1>5. QED
  BY <1>2, <1>4

LEMMA RemovedKeeps ==
    ASSUME TypeOK, Dated, MessagesOK, NEW i \in DOMAIN pages, pages' = RemoveAt(pages, i)
    PROVE  /\ pages' \in Seq(PageSlots)
           /\ \A j \in 1..Len(pages') :
                /\ pages'[j].epoch <= epoch /\ NotHollow(pages'[j])
                /\ pages'[j].epoch = epoch => PageOK(log, pages'[j])
<1>1. /\ pages' \in Seq(PageSlots)
      /\ \A j \in 1..Len(pages') : \E k \in 1..Len(pages) : pages'[j] = pages[k]
  <2>1. pages \in Seq(PageSlots)
    BY DEF TypeOK
  <2>2. /\ RemoveAt(pages, i) \in Seq(PageSlots)
        /\ \A k \in 1..Len(RemoveAt(pages, i)) :
              \E j \in 1..Len(pages) : RemoveAt(pages, i)[k] = pages[j]
    BY <2>1, Removed
  <2>3. QED
    BY <2>2
<1>2. QED
  BY <1>1 DEF Dated, MessagesOK

LEMMA PageFailedKeeps ==
    ASSUME IInv, NEW i \in DOMAIN pages, PageFailed(i)
    PROVE  IInv'
<1>1. /\ UNCHANGED <<epoch, log, shown, fetching, cursor, stream, inbox, crossed>>
      /\ pages' = RemoveAt(pages, i)
  BY DEF PageFailed, daemon
<1>2. /\ pages' \in Seq(PageSlots)
      /\ \A j \in 1..Len(pages') :
            /\ pages'[j].epoch <= epoch /\ NotHollow(pages'[j])
            /\ pages'[j].epoch = epoch => PageOK(log, pages'[j])
  BY <1>1, RemovedKeeps DEF IInv
<1>3. TypeOK' /\ Dated' /\ MessagesOK'
  BY <1>1, <1>2 DEF IInv, TypeOK, Dated, MessagesOK
<1>4. QED
  BY <1>1, <1>3 DEF IInv, LogShape, ShownOK, QueueOK, StreamOK, Reached

LEMMA FetchOlderKeeps ==
    ASSUME IInv, FetchOlder
    PROVE  IInv'
<1>1. /\ UNCHANGED <<epoch, log, shown, cursor, stream, inbox, crossed>>
      /\ fetching' = TRUE /\ pages' = Append(pages, Asked(shown.older))
  BY DEF FetchOlder, daemon
<1>2. shown.older \in 0..MaxSequence
  BY DEF IInv, TypeOK, Transcripts
<1>3. /\ pages' \in Seq(PageSlots)
      /\ \A j \in 1..Len(pages') :
            /\ pages'[j].epoch <= epoch /\ NotHollow(pages'[j])
            /\ pages'[j].epoch = epoch => PageOK(log, pages'[j])
  BY <1>1, <1>2, AskedKeeps DEF IInv
<1>4. TypeOK' /\ Dated' /\ MessagesOK'
  BY <1>1, <1>3 DEF IInv, TypeOK, Dated, MessagesOK
<1>5. QED
  BY <1>1, <1>4 DEF IInv, LogShape, ShownOK, QueueOK, StreamOK

LEMMA ReopenKeeps ==
    ASSUME IInv, Reopen
    PROVE  IInv'
<1>1. /\ UNCHANGED <<epoch, log, cursor, inbox, crossed>>
      /\ shown' = EmptyTranscript /\ fetching' = TRUE
      /\ stream' = ConnectAt(cursor) /\ pages' = Append(pages, Asked(0))
  BY DEF Reopen, daemon
<1>2. TypeOK /\ 0 \in 0..MaxSequence /\ epoch \in Nat \ {0}
  BY BoundsAssumption DEF IInv, TypeOK
<1>3. /\ pages' \in Seq(PageSlots)
      /\ \A j \in 1..Len(pages') :
            /\ pages'[j].epoch <= epoch /\ NotHollow(pages'[j])
            /\ pages'[j].epoch = epoch => PageOK(log, pages'[j])
  BY <1>1, <1>2, AskedKeeps DEF IInv
<1>4. /\ shown' \in Transcripts /\ shown'.fence = 0 /\ NotHollow(shown')
  BY <1>1, NoEntriesType, BoundsAssumption DEF EmptyTranscript, Transcripts, NotHollow
<1>5. /\ stream'.fence = cursor.epoch /\ stream'.known = cursor.epoch
      /\ stream' \in [fence : 0..MaxEpoch, after : 0..MaxSequence, source : Cursors,
                      known : 0..MaxEpoch]
  BY <1>1, <1>2 DEF ConnectAt, TypeOK, Cursors
<1>6. TypeOK'
  BY <1>1, <1>2, <1>3, <1>4, <1>5 DEF TypeOK
<1>7. Dated'
  BY <1>1, <1>2, <1>3, <1>4, <1>5 DEF IInv, Dated
<1>8. MessagesOK'
  BY <1>1, <1>3, <1>4 DEF IInv, MessagesOK
<1>9. ShownOK' /\ QueueOK' /\ StreamOK'
  BY <1>1, <1>2, <1>4 DEF IInv, ShownOK, QueueOK, StreamOK
<1>10. QED
  BY <1>1, <1>6, <1>7, <1>8, <1>9 DEF IInv, LogShape

(* A page that does not cross the stream leaves no hole and no old version. *)
LEMMA PageShows ==
    ASSUME TypeOK, LogShape, NotHollow(shown), ShownOK, ~crossed,
           NEW p \in PageSlots, PageOK(log, p), p.epoch = epoch, ~Crossing(shown, p)
    PROVE  Shows(log, PrependPage(shown, p))
<1> DEFINE t == shown
           u == PrependPage(shown, p)
<1>1. /\ t.max \in Nat /\ t.older \in Nat /\ t.entries \in Entries
      /\ p.max \in Nat /\ p.older \in Nat /\ p.entries \in Entries
      /\ p.at \in Nat /\ p.before \in Nat /\ Len(log) \in Nat
      /\ p.max <= p.at /\ p.at <= Len(log)
  BY LogFacts, BoundsAssumption DEF TypeOK, Transcripts, PageSlots, PageOK
<1>2. Shows(log, t)
  <2>1. CASE t.entries = NoEntries
    <3>1. t.max = 0
      BY <2>1 DEF NotHollow
    <3>2. DOMAIN t.entries = {}
      BY <2>1 DEF NoEntries
    <3>3. QED
      BY <3>1, <3>2, <1>1 DEF Shows, Agrees
  <2>2. CASE t.entries # NoEntries
    BY <2>2 DEF ShownOK, Crossing, MixesFences
  <2>3. QED
    BY <2>1, <2>2
<1>3. /\ u.entries = Merged(t.entries, p.entries) /\ u.max = Greater(t.max, p.max)
      /\ u.older = p.older
  BY DEF PrependPage
<1> HIDE DEF t, u
<1>4. /\ DOMAIN u.entries = DOMAIN t.entries \cup DOMAIN p.entries
      /\ \A s \in DOMAIN t.entries : u.entries[s] = t.entries[s]
      /\ \A s \in DOMAIN p.entries \ DOMAIN t.entries : u.entries[s] = p.entries[s]
  <2> DEFINE m == Merged(t.entries, p.entries)
  <2>1. /\ DOMAIN m = DOMAIN t.entries \cup DOMAIN p.entries
        /\ \A s \in DOMAIN t.entries : m[s] = t.entries[s]
        /\ \A s \in DOMAIN p.entries \ DOMAIN t.entries : m[s] = p.entries[s]
    BY <1>1, MergedEntries, Zenon
  <2>2. QED
    BY <1>3, <2>1
<1>5. /\ u.max \in Nat /\ t.max <= u.max /\ p.max <= u.max
      /\ u.max = t.max \/ u.max = p.max
  BY <1>1, <1>3 DEF Greater
<1>6. /\ \A s \in DOMAIN t.entries : t.entries[s] \in 1..t.max /\ log[t.entries[s]] = s
      /\ \A s \in DOMAIN p.entries : p.entries[s] \in 1..p.max /\ log[p.entries[s]] = s
  BY <1>2 DEF Shows, PageOK, Agrees
<1>7. \A s \in DOMAIN p.entries : s \in DOMAIN t.entries => p.entries[s] <= t.entries[s]
  BY <1>1, <1>6 DEF Crossing, KeepsStaleEntry, t
<1>8. \A n \in 1..Len(log) : log[n] \in Nat
  BY LogFacts
<1>9. u.max <= Len(log)
  BY <1>1, <1>2, <1>5 DEF Shows
<1>10. Agrees(log, u.entries, u.max)
  <2>1. \A s \in DOMAIN t.entries : u.entries[s] \in 1..u.max /\ log[u.entries[s]] = s
    BY <1>1, <1>4, <1>5, <1>6
  <2>2. \A s \in DOMAIN p.entries \ DOMAIN t.entries :
           u.entries[s] \in 1..u.max /\ log[u.entries[s]] = s
    BY <1>1, <1>4, <1>5, <1>6
  <2>3. QED
    BY <1>4, <2>1, <2>2 DEF Agrees
<1>11. ASSUME NEW n \in 1..Len(log), Has(log, t.entries, n) PROVE Has(log, u.entries, n)
  BY <1>4, <1>11 DEF Has
<1>12. ASSUME NEW n \in 1..Len(log), Has(log, p.entries, n) PROVE Has(log, u.entries, n)
  <2>1. log[n] \in DOMAIN p.entries /\ n <= p.entries[log[n]]
    BY <1>12 DEF Has
  <2>2. CASE log[n] \in DOMAIN t.entries
    <3>1. p.entries[log[n]] <= t.entries[log[n]]
      BY <1>7, <2>1, <2>2
    <3>2. p.entries[log[n]] \in Nat /\ t.entries[log[n]] \in Nat /\ n \in Nat
      BY <1>1, <1>6, <2>1, <2>2
    <3>3. n <= t.entries[log[n]]
      BY <2>1, <3>1, <3>2
    <3>4. QED
      BY <1>4, <2>2, <3>3 DEF Has
  <2>3. CASE log[n] \notin DOMAIN t.entries
    BY <1>4, <2>1, <2>3 DEF Has
  <2>4. QED
    BY <2>2, <2>3
<1>13. ASSUME NEW n \in 1..u.max, log[n] >= p.older PROVE Has(log, u.entries, n)
  <2>1. n \in 1..Len(log) /\ n \in Nat /\ log[n] \in Nat
    BY <1>1, <1>5, <1>8, <1>9
  <2>2. CASE p.at < t.max
    <3>1. t.older <= p.older
      BY <1>1, <2>2 DEF Crossing, BringsPassedEntry, t
    <3>2. n \in 1..t.max /\ log[n] >= t.older
      BY <1>1, <1>5, <1>13, <2>1, <2>2, <3>1
    <3>3. QED
      BY <1>2, <1>11, <2>1, <3>2 DEF Shows
  <2>3. CASE t.max <= p.at
    <3>1. n \in 1..p.at
      BY <1>1, <1>5, <2>3
    <3>2. CASE p.before = 0 \/ log[n] < p.before
      <4>1. Has(log, p.entries, n)
        BY <1>13, <3>1, <3>2 DEF PageOK
      <4>2. QED
        BY <1>12, <2>1, <4>1
    <3>3. CASE p.before # 0 /\ log[n] >= p.before
      <4>1. p.before = t.older
        BY <3>3 DEF Crossing, LeavesHole, t
      <4>2. CASE n <= t.max
        BY <1>1, <1>2, <1>11, <2>1, <3>3, <4>1, <4>2 DEF Shows
      <4>3. CASE n > t.max
        <5>1. n <= p.max /\ p.max # 0 /\ p.max \in 1..Len(log)
          BY <1>1, <1>5, <2>1, <4>3
        <5>2. log[n] <= log[p.max]
          BY <2>1, <5>1 DEF LogShape
        <5>3. log[p.max] < p.before
          BY <3>3, <5>1 DEF PageOK
        <5>4. QED
          BY <1>1, <1>8, <2>1, <3>3, <5>1, <5>2, <5>3
      <4>4. QED
        BY <1>1, <2>1, <4>2, <4>3
    <3>4. QED
      BY <1>1, <2>1, <3>2, <3>3
  <2>4. QED
    BY <1>1, <2>2, <2>3
<1>14. QED
  BY <1>3, <1>9, <1>10, <1>13 DEF Shows, u

LEMMA HollowEntries ==
    ASSUME NEW e \in Entries
    PROVE  e = NoEntries <=> DOMAIN e = {}
<1>1. PICK S \in SUBSET Sequences : e \in [S -> Sequences]
  BY DEF Entries
<1>2. QED
  BY <1>1 DEF NoEntries

LEMMA PageArrivedKeeps ==
    ASSUME IInv, NEW i \in DOMAIN pages, PageArrived(i)
    PROVE  IInv'
<1> DEFINE p == pages[i]
           u == PrependPage(shown, p)
<1>1. /\ UNCHANGED <<epoch, log, inbox>>
      /\ shown' = u /\ fetching' = FALSE
      /\ cursor' = CursorOf(u) /\ stream' = ConnectAt(CursorOf(u))
      /\ pages' = RemoveAt(pages, i) /\ crossed' = (crossed \/ Crossing(shown, p))
  BY DEF PageArrived, daemon
<1>2. /\ TypeOK /\ LogShape /\ epoch \in Nat /\ i \in 1..Len(pages) /\ p \in PageSlots
      /\ shown \in Transcripts
  BY MessageTypes DEF IInv, TypeOK
<1>3. /\ NotHollow(p) /\ NotHollow(shown) /\ p.epoch <= epoch /\ shown.fence <= epoch
      /\ p.epoch = epoch => PageOK(log, p)
  BY <1>2 DEF IInv, MessagesOK, Dated
<1> HIDE DEF p
<1>4. /\ u.fence = (IF shown.entries = NoEntries THEN p.epoch ELSE shown.fence)
      /\ u.entries = Merged(shown.entries, p.entries)
      /\ u.max = Greater(shown.max, p.max) /\ u.older = p.older
  BY DEF PrependPage
<1>5. /\ shown.entries \in Entries /\ shown.max \in 0..MaxSequence
      /\ shown.fence \in 0..MaxEpoch /\ p.entries \in Entries
      /\ p.max \in 0..MaxSequence /\ p.older \in 0..MaxSequence /\ p.epoch \in 0..MaxEpoch
  BY <1>2 DEF Transcripts, PageSlots
<1>6. /\ u.entries \in Entries
      /\ DOMAIN u.entries = DOMAIN shown.entries \cup DOMAIN p.entries
  <2> DEFINE m == Merged(shown.entries, p.entries)
  <2>1. m \in Entries /\ DOMAIN m = DOMAIN shown.entries \cup DOMAIN p.entries
    BY <1>5, MergedEntries, Zenon
  <2>2. QED
    BY <1>4, <2>1
<1>7. u.max \in 0..MaxSequence
  BY <1>4, <1>5 DEF Greater
<1>8. u \in Transcripts /\ u.fence <= epoch
  <2>1. u = [fence |-> u.fence, entries |-> u.entries, max |-> u.max, older |-> u.older]
    BY DEF PrependPage
  <2>2. u.fence \in 0..MaxEpoch /\ u.fence <= epoch /\ u.older \in 0..MaxSequence
    BY <1>3, <1>4, <1>5
  <2>3. QED
    BY <2>1, <2>2, <1>6, <1>7 DEF Transcripts
<1>9. NotHollow(u)
  <2> SUFFICES ASSUME u.entries = NoEntries PROVE u.max = 0 /\ u.older = 0
    BY DEF NotHollow
  <2>1. DOMAIN shown.entries = {} /\ DOMAIN p.entries = {}
    BY <1>6, HollowEntries
  <2>2. shown.entries = NoEntries /\ p.entries = NoEntries
    BY <1>5, <2>1, HollowEntries
  <2>3. QED
    BY <1>3, <1>4, <2>2 DEF NotHollow, Greater
<1> HIDE DEF u
<1>10. /\ CursorOf(u) \in Cursors /\ CursorOf(u).epoch = u.fence /\ CursorOf(u).after = u.max
  BY <1>8 DEF CursorOf, Cursors, Transcripts
<1>11. /\ stream'.fence = u.fence /\ stream'.known = u.fence /\ stream'.after = u.max
       /\ stream' \in [fence : 0..MaxEpoch, after : 0..MaxSequence, source : Cursors,
                       known : 0..MaxEpoch]
  BY <1>1, <1>10 DEF ConnectAt, Cursors
<1>12. /\ pages' \in Seq(PageSlots)
       /\ \A j \in 1..Len(pages') :
             /\ pages'[j].epoch <= epoch /\ NotHollow(pages'[j])
             /\ pages'[j].epoch = epoch => PageOK(log, pages'[j])
  BY <1>1, RemovedKeeps DEF IInv
<1>13. TypeOK'
  <2>1. crossed' \in BOOLEAN
    BY <1>1, <1>2 DEF TypeOK
  <2>2. QED
    BY <1>1, <1>2, <1>8, <1>10, <1>11, <1>12, <2>1 DEF TypeOK
<1>14. Dated'
  BY <1>1, <1>8, <1>10, <1>11, <1>12 DEF IInv, Dated
<1>15. MessagesOK'
  BY <1>1, <1>9, <1>12 DEF IInv, MessagesOK
<1>16. ASSUME ~crossed', u.fence = epoch
       PROVE  ~crossed /\ ~Crossing(shown, p) /\ p.epoch = epoch
  <2>1. ~crossed /\ ~Crossing(shown, p)
    BY <1>1, <1>16
  <2>2. QED
    BY <1>4, <1>16, <2>1 DEF Crossing, MixesFences
<1>17. ShownOK'
  <2> SUFFICES ASSUME ~crossed', u.fence = epoch PROVE Shows(log, u)
    BY <1>1 DEF ShownOK
  <2>1. QED
    BY <1>2, <1>3, <1>16, PageShows DEF IInv, u
<1>18. ASSUME ~crossed', u.fence = epoch, NEW k \in 1..Len(inbox)
       PROVE  inbox[k].epoch = epoch /\ u.max <= inbox[k].max
  <2>1. k \in DOMAIN inbox /\ inbox[k].max \in Nat
    BY <1>2, MessageTypes, BoundsAssumption DEF Frames
  <2>2. inbox[k].epoch = p.epoch /\ ~(inbox[k].max < u.max)
    BY <1>4, <1>16, <1>18, <2>1 DEF Crossing, OvertakesFrames
  <2>3. QED
    BY <1>7, <1>16, <1>18, <2>1, <2>2, BoundsAssumption
<1>19. QueueOK'
  BY <1>1, <1>18 DEF IInv, QueueOK
<1>20. StreamOK'
  <2>1. ASSUME ~crossed', u.fence = epoch, inbox # <<>>
        PROVE  inbox[Len(inbox)].epoch = epoch /\ u.max <= inbox[Len(inbox)].max
    <3>1. Len(inbox) \in 1..Len(inbox)
      BY <1>2, <2>1, MessageTypes, EmptySeq DEF TypeOK
    <3>2. QED
      BY <1>18, <2>1, <3>1
  <2>2. u.max <= u.max
    BY <1>7
  <2>3. QED
    BY <1>1, <1>11, <2>1, <2>2 DEF StreamOK, Reached
<1>21. QED
  BY <1>1, <1>13, <1>14, <1>15, <1>17, <1>19, <1>20 DEF IInv, LogShape

-----------------------------------------------------------------------------
(* Frames.                                                                 *)

LEMMA Received ==
    ASSUME IInv, Receive(Head(inbox))
    PROVE  /\ Head(inbox) \in Frames /\ Head(inbox).entries # NoEntries
           /\ Head(inbox).epoch <= epoch
           /\ Head(inbox).epoch = epoch => FrameOK(log, Head(inbox))
           /\ ~crossed /\ shown.fence = epoch =>
                Head(inbox).epoch = epoch /\ shown.max <= Head(inbox).max
           /\ inbox' \in Seq(Frames)
           /\ \A k \in 1..Len(inbox') :
                /\ inbox'[k].entries # NoEntries /\ inbox'[k].epoch <= epoch
                /\ inbox'[k].epoch = epoch => FrameOK(log, inbox'[k])
                /\ Head(inbox).epoch = epoch =>
                     inbox'[k].epoch = epoch /\ Head(inbox).max <= inbox'[k].max
                /\ ~crossed /\ shown.fence = epoch =>
                     inbox'[k].epoch = epoch /\ shown.max <= inbox'[k].max
           /\ \A j, k \in 1..Len(inbox') :
                j <= k /\ inbox'[j].epoch = epoch =>
                   inbox'[k].epoch = epoch /\ inbox'[j].max <= inbox'[k].max
           /\ inbox[Len(inbox)] = IF inbox' = <<>> THEN Head(inbox) ELSE inbox'[Len(inbox')]
<1>1. TypeOK /\ Dated /\ MessagesOK /\ QueueOK /\ inbox \in Seq(Frames) /\ inbox # <<>>
        /\ inbox' = Tail(inbox) /\ Len(inbox) \in Nat
  BY MessageTypes DEF IInv, Receive, TypeOK
<1>2. /\ Head(inbox) = inbox[1] /\ Len(inbox) # 0 /\ 1 \in 1..Len(inbox)
      /\ inbox' \in Seq(Frames) /\ Len(inbox') = Len(inbox) - 1
      /\ \A k \in 1..Len(inbox') : inbox'[k] = inbox[k + 1]
  <2>1. Len(inbox) # 0
    BY <1>1, EmptySeq
  <2>2. QED
    BY <1>1, <2>1, HeadTailProperties
<1>3. \A k \in 1..Len(inbox') : k + 1 \in 1..Len(inbox) /\ 1 <= k + 1
  BY <1>1, <1>2
<1>4. /\ Head(inbox) \in Frames /\ Head(inbox).entries # NoEntries
      /\ Head(inbox).epoch <= epoch
      /\ Head(inbox).epoch = epoch => FrameOK(log, Head(inbox))
      /\ ~crossed /\ shown.fence = epoch =>
           Head(inbox).epoch = epoch /\ shown.max <= Head(inbox).max
  BY <1>1, <1>2, MessageTypes DEF Dated, MessagesOK, QueueOK
<1>5. ASSUME NEW k \in 1..Len(inbox')
      PROVE  /\ inbox'[k].entries # NoEntries /\ inbox'[k].epoch <= epoch
             /\ inbox'[k].epoch = epoch => FrameOK(log, inbox'[k])
             /\ Head(inbox).epoch = epoch =>
                  inbox'[k].epoch = epoch /\ Head(inbox).max <= inbox'[k].max
             /\ ~crossed /\ shown.fence = epoch =>
                  inbox'[k].epoch = epoch /\ shown.max <= inbox'[k].max
  <2>1. inbox'[k] = inbox[k + 1] /\ k + 1 \in 1..Len(inbox) /\ 1 <= k + 1
    BY <1>2, <1>3
  <2>2. QED
    BY <1>1, <1>2, <2>1 DEF Dated, MessagesOK, QueueOK
<1>6. ASSUME NEW j \in 1..Len(inbox'), NEW k \in 1..Len(inbox'), j <= k,
             inbox'[j].epoch = epoch
      PROVE  inbox'[k].epoch = epoch /\ inbox'[j].max <= inbox'[k].max
  <2>1. /\ inbox'[j] = inbox[j + 1] /\ j + 1 \in 1..Len(inbox)
        /\ inbox'[k] = inbox[k + 1] /\ k + 1 \in 1..Len(inbox) /\ j + 1 <= k + 1
    BY <1>2, <1>3, <1>6
  <2>2. QED
    BY <1>1, <1>6, <2>1 DEF QueueOK
<1>7. inbox[Len(inbox)] = IF inbox' = <<>> THEN Head(inbox) ELSE inbox'[Len(inbox')]
  <2>1. CASE inbox' = <<>>
    BY <1>1, <1>2, <2>1
  <2>2. CASE inbox' # <<>>
    <3>1. Len(inbox') # 0 /\ Len(inbox') \in Nat
      BY <1>2, <2>2, EmptySeq, LenProperties
    <3>2. Len(inbox') \in 1..Len(inbox') /\ Len(inbox') + 1 = Len(inbox)
      BY <1>1, <1>2, <3>1
    <3>3. QED
      BY <1>2, <2>2, <3>2
  <2>3. QED
    BY <2>1, <2>2
<1>8. QED
  BY <1>2, <1>4, <1>5, <1>6, <1>7

LEMMA CursorType ==
    ASSUME NEW t \in Transcripts
    PROVE  CursorOf(t) \in Cursors /\ CursorOf(t).epoch = t.fence /\ CursorOf(t).after = t.max
  BY DEF CursorOf, Cursors, Transcripts

(* What any frame leaves in order that replaces or extends the panel.      *)
LEMMA HandledKeeps ==
    ASSUME IInv, Receive(Head(inbox)), NEW u \in Transcripts, u.fence <= epoch, NotHollow(u),
           UNCHANGED <<epoch, log, fetching, stream, pages>>,
           shown' = u, cursor' = CursorOf(u), crossed' \in BOOLEAN
    PROVE  TypeOK' /\ LogShape' /\ Dated' /\ MessagesOK'
<1>1. /\ inbox' \in Seq(Frames)
      /\ \A k \in 1..Len(inbox') :
           /\ inbox'[k].entries # NoEntries /\ inbox'[k].epoch <= epoch
           /\ inbox'[k].epoch = epoch => FrameOK(log, inbox'[k])
  BY Received
<1>2. CursorOf(u) \in Cursors /\ CursorOf(u).epoch = u.fence
  BY CursorType
<1>3. TypeOK'
  BY <1>1, <1>2 DEF IInv, TypeOK
<1>4. Dated'
  BY <1>1, <1>2 DEF IInv, Dated
<1>5. MessagesOK'
  BY <1>1 DEF IInv, MessagesOK
<1>6. QED
  BY <1>3, <1>4, <1>5 DEF IInv, LogShape

LEMMA SnapshotType ==
    ASSUME IInv, Receive(Head(inbox))
    PROVE  /\ ApplySnapshot(Head(inbox)) \in Transcripts
           /\ ApplySnapshot(Head(inbox)).fence <= epoch
           /\ NotHollow(ApplySnapshot(Head(inbox)))
<1> DEFINE f == Head(inbox)
<1>1. f \in Frames /\ f.epoch <= epoch /\ f.entries # NoEntries
  BY Received
<1> HIDE DEF f
<1>2. /\ ApplySnapshot(f) \in Transcripts /\ ApplySnapshot(f).fence <= epoch
      /\ NotHollow(ApplySnapshot(f))
  BY <1>1, BoundsAssumption DEF ApplySnapshot, Transcripts, Frames, NotHollow
<1>3. QED
  BY <1>2 DEF f

LEMMA ReceiveSnapshotKeeps ==
    ASSUME IInv, ReceiveSnapshot
    PROVE  IInv'
<1> DEFINE f == Head(inbox)
           u == ApplySnapshot(f)
<1>1. /\ UNCHANGED <<epoch, log, fetching, stream, pages, crossed>>
      /\ Receive(f) /\ f.kind = "snapshot" /\ shown' = u /\ cursor' = CursorOf(u)
  BY DEF ReceiveSnapshot, daemon
<1>2. /\ f \in Frames /\ f.epoch <= epoch
      /\ f.epoch = epoch => FrameOK(log, f)
      /\ \A k \in 1..Len(inbox') :
           f.epoch = epoch => inbox'[k].epoch = epoch /\ f.max <= inbox'[k].max
      /\ \A j, k \in 1..Len(inbox') :
           j <= k /\ inbox'[j].epoch = epoch =>
              inbox'[k].epoch = epoch /\ inbox'[j].max <= inbox'[k].max
      /\ inbox[Len(inbox)] = IF inbox' = <<>> THEN f ELSE inbox'[Len(inbox')]
  BY <1>1, Received
<1>3. u \in Transcripts /\ u.fence <= epoch /\ NotHollow(u)
  BY <1>1, SnapshotType
<1>4. u.fence = f.epoch /\ u.entries = f.entries /\ u.max = f.max /\ u.older = f.older
  BY DEF ApplySnapshot
<1>5. TypeOK' /\ LogShape' /\ Dated' /\ MessagesOK'
  <2>1. crossed' \in BOOLEAN
    BY <1>1 DEF IInv, TypeOK
  <2>2. QED
    BY <1>1, <1>3, <2>1, HandledKeeps
<1>6. inbox # <<>>
  BY <1>1 DEF Receive
<1> HIDE DEF f, u
<1>7. ShownOK'
  <2>1. ASSUME f.epoch = epoch PROVE Shows(log, u)
    <3>1. FrameOK(log, f) /\ f.max \in Nat /\ Len(log) \in Nat
      BY <1>2, <2>1, LogFacts, BoundsAssumption DEF IInv, Frames
    <3>2. QED
      BY <1>1, <1>4, <3>1 DEF FrameOK, Shows
  <2>2. QED
    BY <1>1, <1>4, <2>1 DEF ShownOK
<1>8. QueueOK'
  BY <1>1, <1>2, <1>4 DEF QueueOK
<1>9. StreamOK'
  BY <1>1, <1>2, <1>4, <1>6 DEF IInv, StreamOK, Reached
<1>10. QED
  BY <1>5, <1>7, <1>8, <1>9 DEF IInv

LEMMA ReceiveMismatchKeeps ==
    ASSUME IInv, ReceiveMismatch
    PROVE  IInv'
<1> DEFINE f == Head(inbox)
           u == ApplySnapshot(f)
<1>1. /\ UNCHANGED <<epoch, log, fetching, stream, pages>> /\ crossed' = TRUE
      /\ Receive(f) /\ shown' = u /\ cursor' = CursorOf(u)
  BY DEF ReceiveMismatch, daemon
<1>2. \A j, k \in 1..Len(inbox') :
         j <= k /\ inbox'[j].epoch = epoch =>
            inbox'[k].epoch = epoch /\ inbox'[j].max <= inbox'[k].max
  BY <1>1, Received
<1>3. u \in Transcripts /\ u.fence <= epoch /\ NotHollow(u)
  BY <1>1, SnapshotType
<1>4. TypeOK' /\ LogShape' /\ Dated' /\ MessagesOK'
  BY <1>1, <1>3, HandledKeeps
<1> HIDE DEF f, u
<1>5. ShownOK' /\ QueueOK' /\ StreamOK'
  BY <1>1, <1>2 DEF ShownOK, QueueOK, StreamOK
<1>6. QED
  BY <1>4, <1>5 DEF IInv

(* A delta none of whose starts is unknown continues the panel, from       *)
(* wherever the stream had sent it: its least entry reaches back to the    *)
(* event after the cursor.                                                 *)
LEMMA DeltaShows ==
    ASSUME TypeOK, LogShape, Shows(log, shown),
           NEW d \in Frames, d.kind = "delta", FrameOK(log, d), shown.max <= d.max,
           UnknownStarts(shown, d) = {}
    PROVE  Shows(log, ApplyDelta(shown, d))
<1> DEFINE t == shown
           u == ApplyDelta(shown, d)
           e == d.entries
<1>1. /\ t.max \in Nat /\ t.older \in Nat /\ t.entries \in Entries /\ e \in Entries
      /\ d.max \in Nat /\ Len(log) \in Nat /\ d.max <= Len(log) /\ t.max <= d.max
  BY LogFacts, BoundsAssumption DEF TypeOK, Transcripts, Frames, FrameOK
<1>2. /\ u.entries = Merged(e, t.entries) /\ u.max = d.max /\ u.older = t.older
  BY <1>1 DEF ApplyDelta, Greater, TypeOK, Transcripts
<1>3. /\ DOMAIN u.entries = DOMAIN e \cup DOMAIN t.entries
      /\ \A s \in DOMAIN e : u.entries[s] = e[s]
      /\ \A s \in DOMAIN t.entries \ DOMAIN e : u.entries[s] = t.entries[s]
  <2> DEFINE m == Merged(e, t.entries)
  <2>1. /\ DOMAIN m = DOMAIN e \cup DOMAIN t.entries
        /\ \A s \in DOMAIN e : m[s] = e[s]
        /\ \A s \in DOMAIN t.entries \ DOMAIN e : m[s] = t.entries[s]
    BY <1>1, MergedEntries, Zenon
  <2>2. QED
    BY <1>2, <2>1
<1>4. PICK a \in 0..(d.max - 1) :
         /\ \A n \in (a + 1)..d.max : log[n] \in DOMAIN e
         /\ \A s \in DOMAIN e : e[s] > a
  BY DEF FrameOK
<1>5. /\ a \in Nat /\ a + 1 \in 1..d.max /\ a + 1 \in (a + 1)..d.max
      /\ a + 1 \in 1..Len(log)
  BY <1>1, <1>4
<1>6. /\ \A s \in DOMAIN e : e[s] \in 1..d.max /\ log[e[s]] = s
      /\ \A s \in DOMAIN t.entries : t.entries[s] \in 1..t.max /\ log[t.entries[s]] = s
  BY DEF FrameOK, Shows, Agrees
<1>7. \A n \in 1..Len(log) : log[n] \in 1..n /\ log[n] \in Nat /\ log[log[n]] = log[n]
  BY LogFacts DEF LogShape
<1> DEFINE s0 == log[a + 1]
<1>8. s0 \in DOMAIN e /\ s0 \in Nat /\ s0 \in 1..Len(log) /\ log[s0] = s0
  BY <1>1, <1>4, <1>5, <1>7
<1> HIDE DEF t, u, e
<1>9. \A s \in DOMAIN e : s0 <= s /\ s \in Nat
  <2> SUFFICES ASSUME NEW s \in DOMAIN e PROVE s0 <= s /\ s \in Nat
    OBVIOUS
  <2>1. e[s] \in 1..Len(log) /\ a + 1 <= e[s] /\ log[e[s]] = s
    BY <1>1, <1>4, <1>5, <1>6
  <2>2. QED
    BY <1>5, <1>7, <2>1 DEF LogShape
<1> HIDE DEF s0
<1>10. Frontier(t, d, s0) = t.max
  <2>1. {r \in DOMAIN d.entries : r < s0} = {}
    BY <1>8, <1>9 DEF e
  <2>2. Frontier(t, d, s0) = Latest({t.max})
    BY <2>1 DEF Frontier
  <2>3. {t.max} \in SUBSET Nat /\ {t.max} # {} /\ \A n \in {t.max} : n <= t.max
    BY <1>1
  <2>4. Latest({t.max}) \in {t.max}
    BY <1>1, <2>3, LatestIsGreatest
  <2>5. QED
    BY <2>2, <2>4
<1>11. s0 <= t.max + 1
  <2>1. CASE s0 \in DOMAIN t.entries
    <3>1. t.entries[s0] \in 1..t.max /\ log[t.entries[s0]] = s0
      BY <1>6, <2>1
    <3>2. t.entries[s0] \in 1..Len(log) /\ t.entries[s0] <= t.max
      BY <1>1, <3>1
    <3>3. s0 \in 1..t.entries[s0]
      BY <1>7, <3>1, <3>2
    <3>4. QED
      BY <1>1, <1>8, <3>1, <3>3
  <2>2. CASE s0 \notin DOMAIN t.entries
    <3>1. s0 \in Frontier(t, d, s0)..(Frontier(t, d, s0) + 1)
      BY <1>8, <2>2 DEF UnknownStarts, t, e
    <3>2. QED
      BY <1>1, <1>8, <1>10, <3>1
  <2>3. QED
    BY <2>1, <2>2
<1>12. Agrees(log, u.entries, u.max)
  <2>1. \A s \in DOMAIN e : u.entries[s] \in 1..u.max /\ log[u.entries[s]] = s
    BY <1>2, <1>3, <1>6
  <2>2. \A s \in DOMAIN t.entries \ DOMAIN e :
           u.entries[s] \in 1..u.max /\ log[u.entries[s]] = s
    BY <1>1, <1>2, <1>3, <1>6
  <2>3. QED
    BY <1>3, <2>1, <2>2 DEF Agrees
<1>13. ASSUME NEW n \in 1..d.max, log[n] >= t.older PROVE Has(log, u.entries, n)
  <2>1. n \in 1..Len(log) /\ n \in Nat /\ log[n] \in Nat
    BY <1>1, <1>7
  <2>2. CASE log[n] \in DOMAIN e
    <3>1. Has(log, e, n)
      BY <2>2 DEF FrameOK, e
    <3>2. QED
      BY <1>3, <2>2, <3>1 DEF Has
  <2>3. CASE log[n] \notin DOMAIN e
    <3>1. n <= a
      <4>1. n \notin (a + 1)..d.max
        BY <1>4, <2>3 DEF e
      <4>2. QED
        BY <1>1, <1>5, <2>1, <4>1
    <3>2. CASE n <= t.max
      <4>1. Has(log, t.entries, n)
        BY <1>1, <1>13, <2>1, <3>2 DEF Shows, t
      <4>2. QED
        BY <1>3, <2>3, <4>1 DEF Has
    <3>3. CASE n > t.max
      <4>1. s0 <= n
        BY <1>1, <1>8, <1>11, <2>1, <3>3
      <4>2. log[s0] <= log[n]
        BY <1>8, <2>1, <4>1 DEF LogShape
      <4>3. log[n] <= log[a + 1]
        <5>1. n <= a + 1
          BY <1>5, <2>1, <3>1
        <5>2. QED
          BY <1>5, <2>1, <5>1 DEF LogShape
      <4>4. log[n] = s0
        BY <1>8, <2>1, <4>2, <4>3 DEF s0
      <4>5. QED
        BY <1>8, <2>3, <4>4
    <3>4. QED
      BY <1>1, <2>1, <3>2, <3>3
  <2>4. QED
    BY <2>2, <2>3
<1>14. QED
  BY <1>1, <1>2, <1>12, <1>13 DEF Shows, u

LEMMA ReceiveDeltaKeeps ==
    ASSUME IInv, ReceiveDelta
    PROVE  IInv'
<1> DEFINE f == Head(inbox)
           u == ApplyDelta(shown, f)
<1>1. /\ UNCHANGED <<epoch, log, fetching, stream, pages, crossed>>
      /\ Receive(f) /\ f.kind = "delta" /\ f.epoch = shown.fence
      /\ UnknownStarts(shown, f) = {} /\ shown' = u /\ cursor' = CursorOf(u)
  BY DEF ReceiveDelta, daemon
<1>2. /\ f \in Frames /\ f.epoch <= epoch /\ f.entries # NoEntries
      /\ f.epoch = epoch => FrameOK(log, f)
      /\ ~crossed /\ shown.fence = epoch => shown.max <= f.max
      /\ \A k \in 1..Len(inbox') :
           f.epoch = epoch => inbox'[k].epoch = epoch /\ f.max <= inbox'[k].max
      /\ \A j, k \in 1..Len(inbox') :
           j <= k /\ inbox'[j].epoch = epoch =>
              inbox'[k].epoch = epoch /\ inbox'[j].max <= inbox'[k].max
      /\ inbox[Len(inbox)] = IF inbox' = <<>> THEN f ELSE inbox'[Len(inbox')]
  BY <1>1, Received
<1>3. inbox # <<>> /\ TypeOK /\ LogShape
  BY <1>1 DEF IInv, Receive
<1> HIDE DEF f
<1>4. /\ shown \in Transcripts /\ shown.entries \in Entries /\ f.entries \in Entries
      /\ shown.max \in 0..MaxSequence /\ f.max \in 0..MaxSequence
      /\ shown.older \in 0..MaxSequence /\ shown.fence \in 0..MaxEpoch
  BY <1>2, <1>3, BoundsAssumption DEF TypeOK, Transcripts, Frames
<1>5. /\ u = [fence |-> shown.fence, entries |-> Merged(f.entries, shown.entries),
              max |-> Greater(shown.max, f.max), older |-> shown.older]
  <2>1. shown = [fence |-> shown.fence, entries |-> shown.entries, max |-> shown.max,
                 older |-> shown.older]
    BY <1>4 DEF Transcripts
  <2> DEFINE m == Merged(f.entries, shown.entries)
             top == Greater(shown.max, f.max)
  <2>2. u = [shown EXCEPT !.entries = m, !.max = top]
    BY DEF ApplyDelta
  <2> HIDE DEF m, top, u
  <2>3. u = [fence |-> shown.fence, entries |-> m, max |-> top, older |-> shown.older]
    BY <2>1, <2>2
  <2>4. QED
    BY <2>3 DEF m, top
<1>6. /\ Merged(f.entries, shown.entries) \in Entries
      /\ DOMAIN Merged(f.entries, shown.entries) = DOMAIN f.entries \cup DOMAIN shown.entries
  BY <1>4, MergedEntries, Zenon
<1>7. Greater(shown.max, f.max) \in 0..MaxSequence
  BY <1>4 DEF Greater
<1>8. u \in Transcripts /\ u.fence = shown.fence /\ u.fence <= epoch
        /\ u.entries = Merged(f.entries, shown.entries)
        /\ u.max = Greater(shown.max, f.max)
  BY <1>1, <1>2, <1>4, <1>5, <1>6, <1>7 DEF Transcripts
<1>9. NotHollow(u)
  <2>1. DOMAIN f.entries # {}
    BY <1>2, <1>4, HollowEntries
  <2>2. u.entries # NoEntries
    BY <1>6, <1>8, <2>1 DEF NoEntries
  <2>3. QED
    BY <2>2 DEF NotHollow
<1>10. TypeOK' /\ LogShape' /\ Dated' /\ MessagesOK'
  <2>1. crossed' \in BOOLEAN
    BY <1>1, <1>3 DEF TypeOK
  <2>2. QED
    BY <1>1, <1>8, <1>9, <2>1, HandledKeeps DEF f
<1> HIDE DEF u
<1>11. ASSUME ~crossed, shown.fence = epoch PROVE u.max = f.max
  BY <1>2, <1>4, <1>8, <1>11 DEF Greater
<1>12. ShownOK'
  <2> SUFFICES ASSUME ~crossed, shown.fence = epoch PROVE Shows(log, u)
    BY <1>1, <1>8 DEF ShownOK
  <2>1. Shows(log, shown) /\ FrameOK(log, f)
    BY <1>1, <1>2 DEF IInv, ShownOK
  <2>2. QED
    BY <1>1, <1>2, <1>3, <2>1, DeltaShows DEF u
<1>13. QueueOK'
  <2>1. ASSUME ~crossed, shown.fence = epoch, NEW k \in 1..Len(inbox')
        PROVE  inbox'[k].epoch = epoch /\ u.max <= inbox'[k].max
    BY <1>1, <1>2, <1>11, <2>1
  <2>2. QED
    BY <1>1, <1>2, <1>8, <2>1 DEF QueueOK
<1>14. StreamOK'
  <2>1. ASSUME ~crossed, ~fetching, stream.known = epoch, inbox' = <<>>
        PROVE  u.fence = epoch /\ stream.after <= u.max
    <3>1. f.epoch = epoch /\ stream.after <= f.max
      BY <1>2, <1>3, <2>1 DEF IInv, StreamOK, Reached
    <3>2. QED
      BY <1>1, <1>8, <1>11, <2>1, <3>1
  <2>2. ASSUME ~crossed, ~fetching, stream.known = epoch, inbox' # <<>>
        PROVE  inbox'[Len(inbox')].epoch = epoch /\ stream.after <= inbox'[Len(inbox')].max
    BY <1>2, <1>3, <2>2 DEF IInv, StreamOK, Reached
  <2>3. QED
    BY <1>1, <2>1, <2>2 DEF StreamOK, Reached
<1>15. QED
  BY <1>10, <1>12, <1>13, <1>14 DEF IInv

LEMMA ReceiveGapKeeps ==
    ASSUME IInv, ReceiveGap
    PROVE  IInv'
<1>1. /\ UNCHANGED <<epoch, log, shown, stream, crossed>>
      /\ Receive(Head(inbox)) /\ cursor' = CursorOf(shown) /\ fetching' = TRUE
      /\ \/ UNCHANGED pages
         \/ pages' = Append(pages, Asked(0))
  BY DEF ReceiveGap, daemon, IInv, TypeOK
<1>2. /\ inbox' \in Seq(Frames)
      /\ \A k \in 1..Len(inbox') :
           /\ inbox'[k].entries # NoEntries /\ inbox'[k].epoch <= epoch
           /\ inbox'[k].epoch = epoch => FrameOK(log, inbox'[k])
           /\ ~crossed /\ shown.fence = epoch =>
                inbox'[k].epoch = epoch /\ shown.max <= inbox'[k].max
      /\ \A j, k \in 1..Len(inbox') :
           j <= k /\ inbox'[j].epoch = epoch =>
              inbox'[k].epoch = epoch /\ inbox'[j].max <= inbox'[k].max
  BY <1>1, Received
<1>3. TypeOK /\ Dated /\ MessagesOK /\ shown \in Transcripts
  BY DEF IInv, TypeOK
<1>4. CursorOf(shown) \in Cursors /\ CursorOf(shown).epoch = shown.fence
  BY <1>3, CursorType
<1>5. /\ pages' \in Seq(PageSlots)
      /\ \A j \in 1..Len(pages') :
            /\ pages'[j].epoch <= epoch /\ NotHollow(pages'[j])
            /\ pages'[j].epoch = epoch => PageOK(log, pages'[j])
  <2>1. CASE UNCHANGED pages
    BY <1>3, <2>1 DEF TypeOK, Dated, MessagesOK
  <2>2. CASE pages' = Append(pages, Asked(0))
    <3>1. 0 \in 0..MaxSequence
      BY BoundsAssumption
    <3>2. QED
      BY <1>3, <2>2, <3>1, AskedKeeps
  <2>3. QED
    BY <1>1, <2>1, <2>2
<1>6. TypeOK' /\ Dated' /\ MessagesOK'
  BY <1>1, <1>2, <1>3, <1>4, <1>5 DEF TypeOK, Dated, MessagesOK
<1>7. QueueOK' /\ StreamOK'
  BY <1>1, <1>2 DEF QueueOK, StreamOK
<1>8. QED
  BY <1>1, <1>6, <1>7 DEF IInv, LogShape, ShownOK

LEMMA InitKeeps == Init => IInv
<1> SUFFICES ASSUME Init PROVE IInv
  OBVIOUS
<1>1. /\ 1 \in Sequences /\ 1 \in 1..MaxSequence /\ 0 \in 0..MaxSequence
      /\ 1 \in 1..MaxEpoch /\ 0 \in 0..MaxEpoch
  BY BoundsAssumption DEF Sequences
<1>2. EmptyTranscript \in Transcripts /\ EmptyTranscript.fence = 0 /\ NotHollow(EmptyTranscript)
  BY <1>1, NoEntriesType DEF EmptyTranscript, Transcripts, NotHollow
<1>3. CursorOf(EmptyTranscript) \in Cursors /\ CursorOf(EmptyTranscript).epoch = 0
  BY <1>2, CursorType
<1>4. Asked(0) \in PageSlots /\ Asked(0).epoch = 0 /\ NotHollow(Asked(0))
  BY <1>1, NoEntriesType DEF Asked, PageSlots, NotHollow
<1>5. /\ stream \in [fence : 0..MaxEpoch, after : 0..MaxSequence, source : Cursors,
                     known : 0..MaxEpoch]
      /\ stream.fence = 0 /\ stream.known = 0
  BY <1>3 DEF Init, ConnectAt, Cursors
<1>6. TypeOK
  <2>1. <<1>> \in Seq(Sequences) /\ <<>> \in Seq(Frames)
    BY <1>1
  <2>2. <<Asked(0)>> \in Seq(PageSlots)
    BY <1>4
  <2>3. QED
    BY <1>1, <1>2, <1>3, <1>5, <2>1, <2>2 DEF Init, TypeOK
<1>7. LogShape
  BY <1>1 DEF Init, LogShape
<1>8. Dated /\ MessagesOK
  BY <1>2, <1>3, <1>4, <1>5 DEF Init, Dated, MessagesOK
<1>9. ShownOK /\ QueueOK /\ StreamOK
  BY <1>2 DEF Init, ShownOK, QueueOK, StreamOK
<1>10. QED
  BY <1>6, <1>7, <1>8, <1>9 DEF IInv

LEMMA StepKeeps == IInv /\ [Next]_vars => IInv'
<1> SUFFICES ASSUME IInv, [Next]_vars PROVE IInv'
  OBVIOUS
<1>1. CASE UNCHANGED vars
  BY <1>1 DEF vars, IInv, TypeOK, LogShape, Dated, MessagesOK, ShownOK, QueueOK, StreamOK,
              Reached
<1>2. CASE Daemon
  BY <1>2, AppendEventKeeps, RewriteKeeps, ReadPageKeeps, SendFrameKeeps, ReconnectKeeps,
     Zenon DEF Daemon
<1>3. CASE Client
  BY <1>3, PageArrivedKeeps, PageFailedKeeps, FetchOlderKeeps, ReopenKeeps,
     ReceiveSnapshotKeeps, ReceiveDeltaKeeps, ReceiveMismatchKeeps, ReceiveGapKeeps,
     Zenon DEF Client
<1>4. QED
  BY <1>1, <1>2, <1>3 DEF Next

-----------------------------------------------------------------------------
(* The theorems.                                                           *)

LEMMA ShownIsUpToCursor ==
    ASSUME TypeOK, LogShape, Shows(log, shown)
    PROVE  UpToCursor(shown)
<1> DEFINE passed == SubSeq(log, 1, shown.max)
<1>1. /\ shown.max \in Nat /\ shown.max <= Len(log) /\ Len(log) \in Nat
      /\ log \in Seq(Sequences) /\ shown.older \in Nat
  BY LogFacts, BoundsAssumption DEF TypeOK, Transcripts, Shows
<1>2. passed \in Seq(Sequences) /\ Len(passed) = shown.max
        /\ \A n \in 1..shown.max : passed[n] = log[n]
  <2>1. \A n \in 1..shown.max : n \in 1..Len(log)
    BY <1>1
  <2>2. 1 \in 1..(Len(log) + 1) /\ shown.max \in 0..Len(log)
    BY <1>1
  <2>3. QED
    BY <1>1, <2>2, SubSeqProperties
<1>3. DOMAIN passed = 1..shown.max
  BY <1>2, LenProperties
<1> HIDE DEF passed
<1>4. ASSUME NEW s \in Starts(passed), s >= shown.older
      PROVE  s \in DOMAIN shown.entries /\ shown.entries[s] >= Version(passed, s)
  <2> DEFINE events == {n \in DOMAIN passed : passed[n] = s}
  <2>1. events \in SUBSET Nat /\ events # {} /\ \A n \in events : n <= shown.max
    BY <1>1, <1>3 DEF Starts
  <2> HIDE DEF events
  <2>2. Latest(events) \in events
    BY <1>1, <2>1, LatestIsGreatest
  <2>3. Version(passed, s) = Latest(events)
    BY DEF Version, events
  <2>4. /\ Latest(events) \in 1..shown.max
        /\ log[Latest(events)] = s
    BY <1>2, <1>3, <2>2 DEF events
  <2>5. Has(log, shown.entries, Latest(events))
    BY <1>4, <2>4 DEF Shows
  <2>6. s \in DOMAIN shown.entries /\ Latest(events) <= shown.entries[s]
    BY <2>4, <2>5 DEF Has
  <2>7. shown.entries[s] \in Nat /\ Latest(events) \in Nat
    BY <1>1, <2>4, <2>6 DEF Shows, Agrees
  <2>8. QED
    BY <2>3, <2>6, <2>7
<1>5. QED
  BY <1>1, <1>4 DEF UpToCursor, passed

LEMMA InvariantHolds == Spec => []IInv
  BY InitKeeps, StepKeeps, PTL DEF Spec

(* Every message, the panel and the cursors stay well formed, for any      *)
(* numbers of events, rewrites, pages and frames.                          *)
THEOREM TypeCorrect == Spec => []TypeOK
<1>1. IInv => TypeOK
  BY DEF IInv
<1>2. QED
  BY <1>1, InvariantHolds, PTL

(* As long as no page crosses the stream, the panel has all that its       *)
(* cursor has passed by from its oldest entry on: a hole in the stream is  *)
(* noticed by the starts of the next delta (TranscriptState::apply_delta). *)
THEOREM LosesNothing == Spec => []NothingLost
<1>1. IInv => NothingLost
  BY ShownIsUpToCursor DEF IInv, ShownOK, NothingLost
<1>2. QED
  BY <1>1, InvariantHolds, PTL

(* As long as no page crosses the stream, the panel shows no entry and no  *)
(* version of one that is not in the daemon's transcript.                  *)
THEOREM ShowsNothingForeign == Spec => []NothingForeign
<1>1. IInv => NothingForeign
  <2> SUFFICES ASSUME IInv, ~crossed, shown.fence = epoch
               PROVE  /\ shown.max <= Len(log)
                      /\ \A s \in DOMAIN shown.entries :
                           shown.entries[s] \in DOMAIN log /\ log[shown.entries[s]] = s
    BY DEF NothingForeign
  <2>1. Shows(log, shown) /\ DOMAIN log = 1..Len(log) /\ Len(log) \in Nat
          /\ shown.max \in Nat
    BY LogFacts, BoundsAssumption DEF IInv, ShownOK, TypeOK, Transcripts
  <2>2. QED
    BY <2>1 DEF Shows, Agrees
<1>2. QED
  BY <1>1, InvariantHolds, PTL

(* Under one fence the panel only moves on: neither its cursor nor the     *)
(* version of an entry goes back, and no entry is dropped that the next    *)
(* older page would not bring again, whatever arrives, unless a page       *)
(* crosses the stream (apply_snapshot, apply_delta and prepend_page of     *)
(* transcript.rs).                                                         *)
THEOREM MovesOn == Spec => NeverGoesBack
<1> DEFINE Later(u) ==
        /\ shown.max <= u.max
        /\ \A s \in DOMAIN shown.entries :
             IF s \in DOMAIN u.entries THEN shown.entries[s] <= u.entries[s]
                                       ELSE s < u.older
<1>1. IInv /\ [Next]_vars => (~crossed' /\ shown.fence = epoch /\ shown'.fence = epoch
                                => Later(shown'))
  <2> SUFFICES ASSUME IInv, [Next]_vars, ~crossed', shown.fence = epoch, shown'.fence = epoch
               PROVE  Later(shown')
    OBVIOUS
  <2> DEFINE f == Head(inbox)
             e == f.entries
  <2>1. /\ TypeOK /\ LogShape /\ epoch \in 1..MaxEpoch /\ Len(log) \in Nat
        /\ shown \in Transcripts /\ shown.entries \in Entries
        /\ shown.max \in Nat /\ shown.older \in Nat
    BY LogFacts, BoundsAssumption DEF IInv, TypeOK, Transcripts
  <2>2. ~crossed => Shows(log, shown)
    BY DEF IInv, ShownOK
  <2>3. CASE UNCHANGED shown /\ ~crossed
    <3>1. \A s \in DOMAIN shown.entries : shown.entries[s] \in 1..shown.max
      BY <2>2, <2>3 DEF Shows, Agrees
    <3>2. QED
      BY <2>1, <2>3, <3>1
  <2>4. ASSUME ~crossed, Receive(f)
        PROVE  /\ f \in Frames /\ FrameOK(log, f) /\ shown.max <= f.max
               /\ e \in Entries /\ f.max \in Nat
               /\ \A s \in DOMAIN shown.entries :
                    /\ s \in DOMAIN e => shown.entries[s] <= e[s]
                    /\ shown.entries[s] \in 1..f.max /\ log[shown.entries[s]] = s
    <3>1. f \in Frames /\ FrameOK(log, f) /\ shown.max <= f.max
      BY <2>4, Received
    <3>2. e \in Entries /\ f.max \in Nat
      BY <3>1, BoundsAssumption DEF Frames
    <3>3. \A s \in DOMAIN shown.entries :
             shown.entries[s] \in 1..shown.max /\ log[shown.entries[s]] = s
      BY <2>2, <2>4 DEF Shows, Agrees
    <3>4. \A s \in DOMAIN shown.entries :
             shown.entries[s] \in 1..f.max /\ log[shown.entries[s]] = s
      BY <2>1, <3>1, <3>2, <3>3
    <3>5. \A s \in DOMAIN shown.entries : s \in DOMAIN e => shown.entries[s] <= e[s]
      BY <3>1, <3>4 DEF FrameOK, Has
    <3>6. QED
      BY <3>1, <3>2, <3>4, <3>5
  <2> HIDE DEF f, e
  <2>5. CASE ReceiveSnapshot
    <3>1. ~crossed /\ Receive(f) /\ f.kind = "snapshot" /\ shown' = ApplySnapshot(f)
      BY <2>5 DEF ReceiveSnapshot, f
    <3>2. shown'.max = f.max /\ shown'.entries = e /\ shown'.older = f.older
      BY <3>1 DEF ApplySnapshot, e
    <3>3. f.older \in Nat
      BY <2>4, <3>1, BoundsAssumption DEF Frames
    <3>4. ASSUME NEW s \in DOMAIN shown.entries, s \notin DOMAIN e PROVE s < f.older
      <4>1. shown.entries[s] \in 1..f.max /\ log[shown.entries[s]] = s
        BY <2>4, <3>1
      <4>2. ~(s >= f.older)
        BY <2>4, <3>1, <3>4, <4>1 DEF FrameOK, Has, e
      <4>3. s \in Nat
        BY <2>1, <2>4, <3>1, <4>1, LogFacts DEF FrameOK
      <4>4. QED
        BY <3>3, <4>2, <4>3
    <3>5. QED
      BY <2>4, <3>1, <3>2, <3>4
  <2>6. CASE ReceiveDelta
    <3>1. ~crossed /\ Receive(f) /\ shown' = ApplyDelta(shown, f)
      BY <2>6 DEF ReceiveDelta, f
    <3> DEFINE m == Merged(e, shown.entries)
    <3>2. /\ DOMAIN m = DOMAIN e \cup DOMAIN shown.entries
          /\ \A s \in DOMAIN e : m[s] = e[s]
          /\ \A s \in DOMAIN shown.entries \ DOMAIN e : m[s] = shown.entries[s]
      BY <2>1, <2>4, <3>1, MergedEntries, Zenon
    <3>3. shown'.entries = m /\ shown'.max = Greater(shown.max, f.max)
      BY <2>1, <3>1 DEF ApplyDelta, Transcripts, e
    <3> HIDE DEF m
    <3>4. shown.max <= shown'.max
      BY <2>1, <2>4, <3>1, <3>3 DEF Greater
    <3>5. ASSUME NEW s \in DOMAIN shown.entries
          PROVE  s \in DOMAIN m /\ shown.entries[s] <= m[s]
      <4>1. shown.entries[s] \in Nat
        BY <2>4, <3>1
      <4>2. QED
        BY <2>4, <3>1, <3>2, <4>1
    <3>6. QED
      BY <3>3, <3>4, <3>5
  <2>7. ASSUME NEW i \in DOMAIN pages, PageArrived(i) PROVE Later(shown')
    <3> DEFINE p == pages[i]
               m == Merged(shown.entries, p.entries)
    <3>1. ~crossed /\ shown' = PrependPage(shown, p)
      BY <2>7 DEF PageArrived
    <3>2. p \in PageSlots
      BY <2>1, MessageTypes, ElementOfSeq, LenProperties DEF TypeOK
    <3>3. p.entries \in Entries /\ p.max \in Nat
      BY <3>2, BoundsAssumption DEF PageSlots
    <3>4. /\ DOMAIN m = DOMAIN shown.entries \cup DOMAIN p.entries
          /\ \A s \in DOMAIN shown.entries : m[s] = shown.entries[s]
      BY <2>1, <3>3, MergedEntries, Zenon
    <3>5. shown'.entries = m /\ shown'.max = Greater(shown.max, p.max)
      BY <3>1 DEF PrependPage
    <3>6. \A s \in DOMAIN shown.entries : shown.entries[s] \in 1..shown.max
      BY <2>2, <3>1 DEF Shows, Agrees
    <3> HIDE DEF m, p
    <3>7. shown.max <= shown'.max
      BY <2>1, <3>3, <3>5 DEF Greater
    <3>8. QED
      BY <2>1, <3>4, <3>5, <3>6, <3>7
  <2>8. CASE Reopen
    BY <2>1, <2>8 DEF Reopen, EmptyTranscript
  <2>9. CASE ReceiveMismatch
    BY <2>9 DEF ReceiveMismatch
  <2>10. CASE Daemon
    BY <2>3, <2>10 DEF Daemon, AppendEvent, Rewrite, ReadPage, SendFrame, Reconnect
  <2>11. CASE ReceiveGap \/ FetchOlder \/ (\E i \in DOMAIN pages : PageFailed(i))
    BY <2>3, <2>11 DEF ReceiveGap, FetchOlder, PageFailed
  <2>12. CASE UNCHANGED vars
    BY <2>3, <2>12 DEF vars
  <2> HIDE DEF Later
  <2>13. QED
    BY <2>5, <2>6, <2>7, <2>8, <2>9, <2>10, <2>11, <2>12, Zenon DEF Next, Client
<1>2. IInv /\ [Next]_vars
        => [~crossed' /\ shown.fence = epoch /\ shown'.fence = epoch
            => /\ shown.max <= shown'.max
               /\ \A s \in DOMAIN shown.entries :
                    IF s \in DOMAIN shown'.entries THEN shown.entries[s] <= shown'.entries[s]
                                                   ELSE s < shown'.older]_vars
  BY <1>1, Zenon
<1> HIDE DEF Later
<1>3. QED
  BY <1>2, InvariantHolds, PTL DEF Spec, NeverGoesBack

(* When all was sent and handled and no page is awaited, the cursor is at  *)
(* the end of the daemon's transcript: no restart of the stream leaves it  *)
(* behind for good (api::page_into_detail, EventStream::open).             *)
THEOREM SettlesCurrent == Spec => []SettledIsCurrent
<1>1. IInv => SettledIsCurrent
  <2> SUFFICES ASSUME IInv, ~crossed, Settled, ~fetching
               PROVE  shown.fence = epoch /\ shown.max = Len(log)
    BY DEF SettledIsCurrent
  <2>1. shown.fence = epoch /\ Len(log) <= shown.max
    BY DEF IInv, StreamOK, Reached, Settled
  <2>2. shown.max <= Len(log) /\ shown.max \in Nat /\ Len(log) \in Nat
    BY <2>1, LogFacts, BoundsAssumption DEF IInv, ShownOK, Shows, TypeOK, Transcripts
  <2>3. QED
    BY <2>1, <2>2
<1>2. QED
  BY <1>1, InvariantHolds, PTL

-----------------------------------------------------------------------------
(* The list of the attention panel.                                        *)

(* The recursion of Listed: f[n] is what the first n places of the order   *)
(* have of the set.                                                        *)
UpTo(f, set, m) ==
    f = [n \in 0..m |-> IF n = 0 THEN <<>>
                        ELSE IF Order[n] \in set THEN Append(f[n - 1], Order[n])
                        ELSE f[n - 1]]

LEMMA UpToExists ==
    ASSUME NEW set, NEW m \in Nat
    PROVE  \E f : UpTo(f, set, m)
<1> DEFINE Without == {k \in Nat : ~\E f : UpTo(f, set, k)}
<1>1. SUFFICES ASSUME Without # {} PROVE FALSE
  OBVIOUS
<1>2. PICK k \in Without : \A n \in Without : k <= n
  <2>1. Without \in SUBSET Nat
    OBVIOUS
  <2> HIDE DEF Without
  <2>2. QED
    BY <1>1, <2>1, LeastExists
<1>3. k \in Nat /\ ~\E f : UpTo(f, set, k)
  OBVIOUS
<1>4. k # 0
  <2>1. UpTo([n \in 0..0 |-> <<>>], set, 0)
    BY DEF UpTo
  <2>2. QED
    BY <2>1, <1>3
<1>5. k - 1 \in Nat /\ ~(k <= k - 1)
  BY <1>3, <1>4
<1>6. PICK g : UpTo(g, set, k - 1)
  BY <1>2, <1>5
<1> DEFINE last == IF Order[k] \in set THEN Append(g[k - 1], Order[k]) ELSE g[k - 1]
           f == [n \in 0..k |-> IF n = k THEN last ELSE g[n]]
<1>7. \A n \in 0..k : f[n] = IF n = 0 THEN <<>>
                             ELSE IF Order[n] \in set THEN Append(f[n - 1], Order[n])
                             ELSE f[n - 1]
  <2> SUFFICES ASSUME NEW n \in 0..k
               PROVE  f[n] = IF n = 0 THEN <<>>
                             ELSE IF Order[n] \in set THEN Append(f[n - 1], Order[n])
                             ELSE f[n - 1]
    OBVIOUS
  <2>1. CASE n = k
    <3>1. k \in 0..k /\ k - 1 \in 0..k /\ k - 1 # k
      BY <1>3, <1>5
    <3>2. f[k] = last /\ f[k - 1] = g[k - 1]
      BY <3>1
    <3>3. QED
      BY <2>1, <3>2, <1>4
  <2>2. CASE n # k
    <3>1. n \in 0..(k - 1)
      BY <1>3, <2>2
    <3>2. g[n] = IF n = 0 THEN <<>>
                 ELSE IF Order[n] \in set THEN Append(g[n - 1], Order[n])
                 ELSE g[n - 1]
      BY <3>1, <1>6 DEF UpTo
    <3>3. f[n] = g[n]
      BY <2>2
    <3>4. n # 0 => n - 1 \in 0..k /\ n - 1 # k
      BY <3>1, <1>3
    <3>5. n # 0 => f[n - 1] = g[n - 1]
      BY <3>4
    <3> HIDE DEF f
    <3>6. QED
      BY <3>2, <3>3, <3>5
  <2>3. QED
    BY <2>1, <2>2
<1>8. UpTo(f, set, k)
  <2>1. f = [n \in 0..k |-> f[n]]
    OBVIOUS
  <2> HIDE DEF f
  <2>2. QED
    BY <1>7, <2>1 DEF UpTo
<1>9. QED
  BY <1>8, <1>3

(* The list has only items of the set, and no more than the order.         *)
LEMMA ListedIs ==
    ASSUME NEW set
    PROVE  /\ Listed(set) \in Seq(Items) /\ Len(Listed(set)) <= Len(Order)
           /\ \A n \in DOMAIN Listed(set) : Listed(set)[n] \in set
<1> DEFINE m == Len(Order)
           f == CHOOSE f : UpTo(f, set, m)
           Fits(l, n) == /\ l \in Seq(Items) /\ Len(l) <= n
                         /\ \A i \in 1..Len(l) : l[i] \in set
           Unfit == {n \in 0..m : ~Fits(f[n], n)}
<1>1. m \in Nat /\ Order \in Seq(Items)
  BY ConstantsAssumption
<1>2. UpTo(f, set, m)
  BY <1>1, UpToExists
<1>3. Listed(set) = f[m]
  BY DEF Listed, UpTo
<1> HIDE DEF f
<1>4. \A n \in 0..m : f[n] = IF n = 0 THEN <<>>
                             ELSE IF Order[n] \in set THEN Append(f[n - 1], Order[n])
                             ELSE f[n - 1]
  BY <1>2 DEF UpTo
<1>5. Unfit = {}
  <2> SUFFICES ASSUME Unfit # {} PROVE FALSE
    OBVIOUS
  <2>1. PICK k \in Unfit : \A n \in Unfit : k <= n
    <3>1. Unfit \in SUBSET Nat
      BY <1>1
    <3> HIDE DEF Unfit
    <3>2. QED
      BY <3>1, LeastExists
  <2>2. k \in 0..m /\ ~Fits(f[k], k)
    OBVIOUS
  <2>3. k # 0
    <3>1. f[0] = <<>>
      BY <1>1, <1>4
    <3>2. Fits(<<>>, 0)
      OBVIOUS
    <3>3. QED
      BY <3>1, <3>2, <2>2
  <2>4. k - 1 \in 0..m /\ ~(k <= k - 1)
    BY <1>1, <2>2, <2>3
  <2>5. Fits(f[k - 1], k - 1)
    BY <2>1, <2>4
  <2>6. CASE Order[k] \in set
    <3>1. f[k] = Append(f[k - 1], Order[k])
      BY <1>4, <2>2, <2>3, <2>6
    <3>2. Order[k] \in Items
      BY <1>1, <2>2, <2>3
    <3>3. /\ Append(f[k - 1], Order[k]) \in Seq(Items)
          /\ Len(Append(f[k - 1], Order[k])) = Len(f[k - 1]) + 1
          /\ \A i \in 1..Len(f[k - 1]) : Append(f[k - 1], Order[k])[i] = f[k - 1][i]
          /\ Append(f[k - 1], Order[k])[Len(f[k - 1]) + 1] = Order[k]
      BY <2>5, <3>2
    <3>4. \A i \in 1..(Len(f[k - 1]) + 1) : i = Len(f[k - 1]) + 1 \/ i \in 1..Len(f[k - 1])
      BY <2>5
    <3>5. Len(f[k - 1]) + 1 <= k
      BY <2>5, <2>2
    <3>6. Fits(f[k], k)
      BY <3>1, <3>3, <3>4, <3>5, <2>5, <2>6
    <3>7. QED
      BY <3>6, <2>2
  <2>7. CASE Order[k] \notin set
    <3>1. f[k] = f[k - 1]
      BY <1>4, <2>2, <2>3, <2>7
    <3>2. QED
      BY <3>1, <2>2, <2>5
  <2>8. QED
    BY <2>6, <2>7
<1>6. Fits(f[m], m)
  BY <1>5, <1>1
<1>7. QED
  BY <1>3, <1>6

-----------------------------------------------------------------------------
(* The types of the attention panel.                                       *)

ReadOK(a) == a.read \in Reads /\ a.seen \in [Scope(a.read) -> Statuses]

SourcesOK(p, c, t) == p \in SUBSET Perms /\ c \in SUBSET Clars /\ t \in SUBSET Tasks

ListOK(l, n) == /\ l \in Seq(Items) /\ Len(l) <= Len(Order)
                /\ n \in 0..Len(Order) \cup {1}

LEMMA ScopeIs ==
    ASSUME NEW r \in Reads
    PROVE  /\ Scope(r) \subseteq Items
           /\ r.kind = "overview" => Scope(r) = Tasks
           /\ r.kind = "clars" => Scope(r) = {c \in Clars : SessionOf[c] = r.session}
           /\ r.kind = "older" => Scope(r) = {}
           /\ r.kind \in {"visible", "newest"}
                => Scope(r) = {p \in Perms : SessionOf[p] = r.session}
<1>1. r.kind \in {"overview", "clars", "visible", "newest", "older"}
  BY DEF Reads
<1>2. QED
  BY <1>1 DEF Scope, Items

LEMMA SeenIs ==
    ASSUME AttentionTypeOK, NEW r \in Reads
    PROVE  ReadOK(Seen(r))
<1>1. Seen(r).read = r
  BY DEF Seen
<1>2. Seen(r).seen = [i \in Scope(r) |->
          IF status[i] = "open" \/ r.kind = "newest" THEN status[i] ELSE "none"]
  BY DEF Seen
<1>3. \A i \in Scope(r) : status[i] \in Statuses
  BY ScopeIs DEF AttentionTypeOK
<1>4. QED
  BY <1>1, <1>2, <1>3 DEF ReadOK, Statuses

LEMMA ReadIs ==
    /\ Read("overview", NoId) \in Reads
    /\ \A s \in Sessions : /\ Read("clars", s) \in Reads /\ Read("visible", s) \in Reads
                           /\ Read("newest", s) \in Reads /\ Read("older", s) \in Reads
BY DEF Read, Reads

LEMMA RefreshedAreReads ==
    ASSUME AttentionTypeOK
    PROVE  \A a \in Refreshed : ReadOK(a)
BY SeenIs, ReadIs DEF Refreshed

LEMMA SyncedIs ==
    ASSUME NEW known, DOMAIN known = Perms, NEW listed \in SUBSET Perms, NEW s
    PROVE  Synced(known, listed, s) \in SUBSET Perms
BY DEF Synced, OfSession, Open

(* What a read tells is open belongs to the source it is a read of.        *)
LEMMA OpenIs ==
    ASSUME NEW a, ReadOK(a)
    PROVE  /\ a.read.kind = "overview" => Open(a.seen) \in SUBSET Tasks
           /\ a.read.kind = "clars" => Open(a.seen) \in SUBSET Clars
           /\ a.read.kind \in {"visible", "newest", "older"} => Open(a.seen) \in SUBSET Perms
<1>1. DOMAIN a.seen = Scope(a.read) /\ a.read \in Reads
  BY DEF ReadOK
<1>2. QED
  BY <1>1, ScopeIs DEF Open

LEMMA RebuildIs ==
    ASSUME NEW p, NEW c, NEW t, SourcesOK(p, c, t), AttentionTypeOK, Rebuild(p, c, t)
    PROVE  /\ ListOK(items', selected')
           /\ \A n \in DOMAIN items' : items'[n] \in p \cup c \cup t
<1>1. /\ items' \in Seq(Items) /\ Len(items') <= Len(Order)
      /\ \A n \in DOMAIN items' : items'[n] \in p \cup c \cup t
  BY ListedIs DEF Rebuild
<1>2. Len(items') \in Nat /\ Len(Order) \in Nat
  BY <1>1, ConstantsAssumption
<1>3. selected \in 0..Len(Order) \cup {1}
  BY DEF AttentionTypeOK
<1>4. selected' \in 0..Len(Order) \cup {1}
  <2>1. selected' = IF items' = <<>> THEN 0
                    ELSE IF selected = 0 THEN 1
                    ELSE IF selected > Len(items') THEN Len(items') ELSE selected
    BY DEF Rebuild
  <2>2. QED
    BY <1>1, <1>2, <1>3, <2>1
<1>5. QED
  BY <1>1, <1>4 DEF ListOK

LEMMA PostedIs ==
    ASSUME NEW w \in SUBSET Posts, AttentionTypeOK, PostOrRefuse(w)
    PROVE  posts' \in SUBSET Posts
BY DEF AttentionTypeOK, PostOrRefuse

LEMMA WriteIs ==
    ASSUME NEW i \in Items, NEW d \in Decisions, NEW asked \in Items
    PROVE  {Write(i, d, asked)} \in SUBSET Posts
BY DEF Write, Posts

LEMMA VerbIs ==
    ASSUME AttentionTypeOK, NEW row, NEW d \in Decisions, NEW asked \in Items
    PROVE  Verb(row, d, asked) \in SUBSET Posts
<1>1. \A i \in DOMAIN items : items[i] \in Items
  BY DEF AttentionTypeOK
<1>2. \A i \in DOMAIN items : Write(items[i], d, asked) \in Posts
  BY <1>1, WriteIs
<1>3. QED
  BY <1>2 DEF Verb

LEMMA OneIsConfirmed ==
    /\ {} \in SUBSET Confirms /\ Cardinality({}) <= 1
    /\ \A c \in Confirms : {c} \in SUBSET Confirms /\ Cardinality({c}) <= 1
<1>1. Cardinality({}) = 0
  BY FS_EmptySet
<1>2. ASSUME NEW c \in Confirms PROVE Cardinality({c}) <= 1
  <2>1. Cardinality({c}) = 1
    BY FS_Singleton
  <2>2. QED
    BY <2>1
<1>3. \A c \in Confirms : {c} \in SUBSET Confirms
  OBVIOUS
<1>4. QED
  BY <1>1, <1>2, <1>3

(* Type correctness in parts, by what a step may change.                   *)
ListsOK == SourcesOK(perms, clars, tasks) /\ ListOK(items, selected)
ConfirmOK == confirm \in SUBSET Confirms /\ Cardinality(confirm) <= 1
ReadsOK == \A a \in reads : ReadOK(a)
SessionOK == /\ detail \in Sessions \cup {NoId}
             /\ panel \in [Perms -> Statuses]
             /\ moves \in 0..MaxMoves
OverlayOK == overlay \in Clars \cup {NoId}

LEMMA Parts ==
    AttentionTypeOK <=> /\ status \in [Items -> Statuses] /\ SessionOK /\ ListsOK
                        /\ ConfirmOK /\ OverlayOK /\ ReadsOK /\ posts \in SUBSET Posts
BY DEF AttentionTypeOK, SessionOK, ListsOK, ConfirmOK, OverlayOK, ReadsOK, ReadOK, SourcesOK,
       ListOK

LEMMA PartsPrimed ==
    AttentionTypeOK' <=> /\ status' \in [Items -> Statuses] /\ SessionOK' /\ ListsOK'
                         /\ ConfirmOK' /\ OverlayOK' /\ ReadsOK' /\ posts' \in SUBSET Posts
BY DEF AttentionTypeOK, SessionOK, ListsOK, ConfirmOK, OverlayOK, ReadsOK, ReadOK, SourcesOK,
       ListOK

(* The daemon's steps, and reads that fail.                                *)
LEMMA DaemonKeepsTypes ==
    ASSUME AttentionTypeOK,
           \/ \E i \in Items : Ask(i) \/ Close(i)
           \/ \E a \in reads : Serve(a) \/ ReadFails(a)
    PROVE  AttentionTypeOK'
<1> USE Parts, PartsPrimed
<1>1. CASE \E i \in Items : Ask(i) \/ Close(i)
  <2>1. status' \in [Items -> Statuses]
    BY <1>1 DEF Ask, Close, Statuses
  <2>2. UNCHANGED <<detail, panel, lists, confirm, overlay, reads, posts, moves>>
    BY <1>1 DEF Ask, Close
  <2>3. QED
    BY <2>1, <2>2 DEF lists, SessionOK, ListsOK, ConfirmOK, OverlayOK, ReadsOK
<1>2. ASSUME NEW a \in reads, Serve(a) PROVE AttentionTypeOK'
  <2>1. ReadOK(Seen(a.read))
    BY SeenIs DEF ReadsOK, ReadOK
  <2>2. ReadsOK'
    BY <1>2, <2>1 DEF Serve, ReadsOK
  <2>3. UNCHANGED <<status, detail, panel, lists, confirm, overlay, posts, moves>>
    BY <1>2 DEF Serve
  <2>4. QED
    BY <2>2, <2>3 DEF lists, SessionOK, ListsOK, ConfirmOK, OverlayOK
<1>3. ASSUME NEW a \in reads, ReadFails(a) PROVE AttentionTypeOK'
  <2>1. ReadsOK'
    BY <1>3 DEF ReadFails, ReadsOK
  <2>2. UNCHANGED <<status, detail, panel, perms, clars, tasks, confirm, overlay, posts>>
    BY <1>3 DEF ReadFails
  <2>3. moves' \in 0..MaxMoves
    BY <1>3, ConstantsAssumption DEF ReadFails, SessionOK
  <2>4. ListOK(items', selected')
    <3>1. CASE Rebuild(perms, clars, tasks)
      BY <3>1, RebuildIs DEF ListsOK
    <3>2. CASE UNCHANGED <<items, selected>>
      BY <3>2 DEF ListsOK
    <3>3. QED
      BY <1>3, <3>1, <3>2 DEF ReadFails
  <2>5. QED
    BY <2>1, <2>2, <2>3, <2>4 DEF SessionOK, ListsOK, ConfirmOK, OverlayOK
<1>4. QED
  BY <1>1, <1>2, <1>3

(* Reads and deltas that arrive.                                           *)
LEMMA ArrivalsKeepTypes ==
    ASSUME AttentionTypeOK,
           \/ \E a \in reads : Arrives(a)
           \/ \E p \in Perms : Delta(p)
           \/ Poll
    PROVE  AttentionTypeOK'
<1> USE Parts, PartsPrimed
<1>1. SourcesOK(perms, clars, tasks)
  BY DEF ListsOK
<1>2. \A p, c, t : SourcesOK(p, c, t) /\ Rebuild(p, c, t) => ListOK(items', selected')
  BY RebuildIs
<1>3. \A a \in Refreshed : ReadOK(a)
  BY RefreshedAreReads
<1>4. ASSUME NEW a \in reads, ApplyTranscript(a), a.read.kind \in {"visible", "newest", "older"}
      PROVE  ListsOK'
  <2>1. Open(a.seen) \in SUBSET Perms
    BY <1>4, OpenIs DEF ReadsOK
  <2>2. SourcesOK(perms', clars, tasks)
    BY <1>1, <1>4, <2>1 DEF SourcesOK, ApplyTranscript
  <2>3. QED
    BY <1>2, <1>4, <2>2 DEF ApplyTranscript, ListsOK
<1>5. ASSUME NEW a \in reads, VisibleArrives(a) PROVE AttentionTypeOK'
  <2>1. ListsOK'
    BY <1>4, <1>5 DEF VisibleArrives
  <2>2. ReadsOK'
    BY <1>5 DEF VisibleArrives, ReadsOK
  <2>3. QED
    BY <1>5, <2>1, <2>2 DEF VisibleArrives, SessionOK, ConfirmOK, OverlayOK
<1>6. ASSUME NEW a \in reads, PageArrives(a) PROVE AttentionTypeOK'
  <2>1. ListsOK'
    BY <1>4, <1>6 DEF PageArrives
  <2>2. ReadsOK'
    BY <1>6 DEF PageArrives, ReadsOK
  <2>3. panel' \in [Perms -> Statuses]
    <3>1. \A p \in DOMAIN a.seen : a.seen[p] \in Statuses
      BY DEF ReadsOK, ReadOK
    <3>2. panel \in [Perms -> Statuses]
      BY DEF SessionOK
    <3>3. panel' = IF detail # a.read.session THEN panel
                   ELSE [p \in Perms |-> IF p \in DOMAIN a.seen /\ panel[p] = "none"
                                         THEN a.seen[p] ELSE panel[p]]
      BY <1>6 DEF PageArrives
    <3>4. QED
      BY <3>1, <3>2, <3>3
  <2>4. QED
    BY <1>6, <2>1, <2>2, <2>3 DEF PageArrives, SessionOK, ConfirmOK, OverlayOK
<1>7. ASSUME NEW a \in reads, ClarsArrive(a) PROVE AttentionTypeOK'
  <2>1. SourcesOK(perms, clars', tasks)
    <3>1. Open(a.seen) \in SUBSET Clars
      BY <1>7, OpenIs DEF ReadsOK, ClarsArrive
    <3>2. QED
      BY <1>1, <1>7, <3>1 DEF SourcesOK, ClarsArrive
  <2>2. ListsOK'
    BY <1>2, <1>7, <2>1 DEF ListsOK, ClarsArrive
  <2>3. ReadsOK'
    BY <1>7 DEF ClarsArrive, ReadsOK
  <2>4. QED
    BY <1>7, <2>2, <2>3 DEF ClarsArrive, SessionOK, ConfirmOK, OverlayOK
<1>8. ASSUME NEW a \in reads, OverviewArrives(a) PROVE AttentionTypeOK'
  <2>1. SourcesOK(perms, clars, tasks')
    <3>1. Open(a.seen) \in SUBSET Tasks
      BY <1>8, OpenIs DEF ReadsOK, OverviewArrives
    <3>2. QED
      BY <1>1, <1>8, <3>1 DEF SourcesOK, OverviewArrives
  <2>2. ListsOK'
    BY <1>2, <1>8, <2>1 DEF ListsOK, OverviewArrives
  <2>3. ReadsOK'
    BY <1>8 DEF OverviewArrives, ReadsOK
  <2>4. QED
    BY <1>8, <2>2, <2>3 DEF OverviewArrives, SessionOK, ConfirmOK, OverlayOK
<1>9. ASSUME NEW p \in Perms, Delta(p) PROVE AttentionTypeOK'
  <2>1. panel' \in [Perms -> Statuses]
    BY <1>9 DEF Delta, SessionOK, Items
  <2>2. SourcesOK(perms', clars, tasks)
    <3>1. Synced(panel', perms, detail) \in SUBSET Perms
      BY <2>1, <1>1, SyncedIs DEF SourcesOK
    <3>2. QED
      BY <1>1, <1>9, <3>1 DEF SourcesOK, Delta
  <2>3. ListsOK'
    BY <1>2, <1>9, <2>2 DEF ListsOK, Delta
  <2>4. ReadsOK'
    BY <1>3, <1>9 DEF Delta, ReadsOK
  <2>5. QED
    BY <1>9, <2>1, <2>3, <2>4 DEF Delta, SessionOK, ConfirmOK, OverlayOK
<1>10. CASE Poll
  <2>1. SourcesOK(perms', clars, tasks)
    <3>1. Synced(panel, perms, detail) \in SUBSET Perms
      BY <1>1, SyncedIs DEF SourcesOK, SessionOK
    <3>2. QED
      BY <1>1, <1>10, <3>1 DEF SourcesOK, Poll, RefreshOnly
  <2>2. ListsOK' /\ ReadsOK'
    BY <1>3, <1>10, <2>1 DEF Poll, RefreshOnly, ListsOK, ReadsOK
  <2>3. QED
    BY <1>10, <2>2 DEF Poll, SessionOK, ConfirmOK, OverlayOK
<1>11. QED
  BY <1>5, <1>6, <1>7, <1>8, <1>9, <1>10 DEF Arrives

(* Keys, of the list and of the cards.                                     *)
LEMMA KeysKeepTypes ==
    ASSUME AttentionTypeOK,
           \/ MoveDown \/ MoveUp \/ Decision \/ Persistent \/ CancelConfirm
           \/ \E c \in confirm : Confirm(c) \/ ConfirmInline(c)
           \/ \E p \in Perms : InlineDecision(p) \/ InlinePersistent(p)
    PROVE  AttentionTypeOK'
<1> USE Parts, PartsPrimed
<1> USE DEF lists
<1>1. /\ items \in Seq(Items) /\ Len(items) \in Nat /\ Len(items) <= Len(Order)
      /\ Len(Order) \in Nat /\ selected \in 0..Len(Order) \cup {1}
      /\ DOMAIN items = 1..Len(items)
  BY ConstantsAssumption DEF ListsOK, ListOK
<1>2. \A c \in confirm : c.index \in 0..Len(Order) /\ c.asked \in Perms
  BY DEF ConfirmOK, Confirms
<1>3. selected \in DOMAIN items => items[selected] \in Items
  BY <1>1
<1>4. Perms \subseteq Items /\ Always \subseteq Perms
  BY ConstantsAssumption DEF Items
<1>5. CASE MoveDown
  <2>1. selected' \in 0..Len(Order) \cup {1}
    BY <1>1, <1>5 DEF MoveDown
  <2>2. QED
    BY <1>5, <2>1 DEF MoveDown, SessionOK, ListsOK, ListOK, ConfirmOK, OverlayOK, ReadsOK
<1>6. CASE MoveUp
  <2>1. selected' \in 0..Len(Order) \cup {1}
    BY <1>1, <1>6 DEF MoveUp
  <2>2. QED
    BY <1>6, <2>1 DEF MoveUp, SessionOK, ListsOK, ListOK, ConfirmOK, OverlayOK, ReadsOK
<1>7. CASE Decision
  <2>1. Verb(selected, "once", items[selected]) \in SUBSET Posts
    BY <1>3, <1>7, VerbIs DEF Decision, Decisions
  <2>2. posts' \in SUBSET Posts
    BY <1>7, <2>1, PostedIs DEF Decision
  <2>3. QED
    BY <1>7, <2>2 DEF Decision, SessionOK, ListsOK, ConfirmOK, OverlayOK, ReadsOK
<1>8. CASE Persistent
  <2>1. [index |-> selected, asked |-> items[selected]] \in Confirms
    BY <1>1, <1>4, <1>8 DEF Persistent, Confirms
  <2>2. ConfirmOK'
    BY <1>8, <2>1, OneIsConfirmed DEF Persistent, ConfirmOK
  <2>3. QED
    BY <1>8, <2>2 DEF Persistent, SessionOK, ListsOK, OverlayOK, ReadsOK
<1>9. CASE CancelConfirm
  <2>1. ConfirmOK'
    BY <1>9, OneIsConfirmed DEF CancelConfirm, ConfirmOK
  <2>2. QED
    BY <1>9, <2>1 DEF CancelConfirm, SessionOK, ListsOK, OverlayOK, ReadsOK
<1>10. ASSUME NEW c \in confirm, Confirm(c) PROVE AttentionTypeOK'
  <2>1. Verb(c.index, "always", c.asked) \in SUBSET Posts
    BY <1>2, <1>4, VerbIs DEF Decisions
  <2>2. posts' \in SUBSET Posts
    BY <1>10, <2>1, PostedIs DEF Confirm
  <2>3. ConfirmOK'
    BY <1>10, OneIsConfirmed DEF Confirm, ConfirmOK
  <2>4. ListsOK'
    BY <1>2, <1>10 DEF Confirm, ListsOK, ListOK
  <2>5. QED
    BY <1>10, <2>2, <2>3, <2>4 DEF Confirm, SessionOK, OverlayOK, ReadsOK
<1>11. ASSUME NEW c \in confirm, ConfirmInline(c) PROVE AttentionTypeOK'
  <2>1. {Write(c.asked, "always", c.asked)} \in SUBSET Posts
    BY <1>2, <1>4, WriteIs DEF Decisions
  <2>2. posts' \in SUBSET Posts
    BY <1>11, <2>1, PostedIs DEF ConfirmInline
  <2>3. ConfirmOK'
    BY <1>11, OneIsConfirmed DEF ConfirmInline, ConfirmOK
  <2>4. QED
    BY <1>11, <2>2, <2>3 DEF ConfirmInline, SessionOK, ListsOK, OverlayOK, ReadsOK
<1>12. ASSUME NEW p \in Perms, InlineDecision(p) PROVE AttentionTypeOK'
  <2>1. {Write(p, "once", p)} \in SUBSET Posts
    BY <1>4, WriteIs DEF Decisions
  <2>2. posts' \in SUBSET Posts
    BY <1>12, <2>1, PostedIs DEF InlineDecision
  <2>3. QED
    BY <1>12, <2>2 DEF InlineDecision, SessionOK, ListsOK, ConfirmOK, OverlayOK, ReadsOK
<1>13. ASSUME NEW p \in Perms, InlinePersistent(p) PROVE AttentionTypeOK'
  <2>1. [index |-> 0, asked |-> p] \in Confirms
    BY <1>1 DEF Confirms
  <2>2. ConfirmOK'
    BY <1>13, <2>1, OneIsConfirmed DEF InlinePersistent, ConfirmOK
  <2>3. QED
    BY <1>13, <2>2 DEF InlinePersistent, SessionOK, ListsOK, OverlayOK, ReadsOK
<1>14. QED
  BY <1>5, <1>6, <1>7, <1>8, <1>9, <1>10, <1>11, <1>12, <1>13

(* Panels, the overlay of a clarification, and the answers to writes.      *)
LEMMA PanelsKeepTypes ==
    ASSUME AttentionTypeOK,
           \/ \E s \in Sessions : OpenSession(s)
           \/ OpenClarify \/ OpenRun \/ ScrollUp \/ Answer \/ LeaveOverlay
           \/ \E w \in posts : NotFound(w) \/ Answered(w)
    PROVE  AttentionTypeOK'
<1> USE Parts, PartsPrimed
<1> USE DEF lists
<1>1. SourcesOK(perms, clars, tasks)
  BY DEF ListsOK
<1>2. \A a \in Refreshed : ReadOK(a)
  BY RefreshedAreReads
<1>3. [p \in Perms |-> "none"] \in [Perms -> Statuses]
  BY DEF Statuses
<1>4. ASSUME NEW s \in Sessions, Show(s) PROVE SessionOK' /\ ReadsOK'
  <2>1. ReadOK(Seen(Read("newest", s))) /\ ReadOK(Seen(Read("clars", s)))
    BY ReadIs, SeenIs
  <2>2. moves' \in 0..MaxMoves
    BY <1>4, ConstantsAssumption DEF Show, SessionOK
  <2>3. QED
    BY <1>3, <1>4, <2>1, <2>2 DEF Show, SessionOK, ReadsOK
<1>5. ASSUME NEW s \in Sessions, OpenSession(s) PROVE AttentionTypeOK'
  BY <1>4, <1>5 DEF OpenSession, ListsOK, ConfirmOK, OverlayOK
<1>6. CASE OpenClarify
  <2>1. SessionOf[items[selected]] \in Sessions
    BY <1>6, ConstantsAssumption DEF OpenClarify
  <2>2. SessionOK' /\ ReadsOK'
    BY <1>4, <1>6, <2>1 DEF OpenClarify
  <2>3. QED
    BY <1>6, <2>2 DEF OpenClarify, ListsOK, ConfirmOK, OverlayOK
<1>7. CASE OpenRun
  BY <1>3, <1>7 DEF OpenRun, SessionOK, ListsOK, ConfirmOK, OverlayOK, ReadsOK
<1>8. CASE ScrollUp
  <2>1. ReadOK(Seen(Read("older", detail)))
    BY <1>8, ReadIs, SeenIs DEF ScrollUp, SessionOK
  <2>2. moves' \in 0..MaxMoves
    BY <1>8, ConstantsAssumption DEF ScrollUp, SessionOK
  <2>3. QED
    BY <1>8, <2>1, <2>2 DEF ScrollUp, SessionOK, ListsOK, ConfirmOK, OverlayOK, ReadsOK
<1>9. CASE Answer
  <2>1. {Write(overlay, "once", overlay)} \in SUBSET Posts
    BY <1>9, WriteIs DEF Answer, OverlayOK, Items, Decisions
  <2>2. posts' \in SUBSET Posts
    BY <1>9, <2>1, PostedIs DEF Answer
  <2>3. QED
    BY <1>9, <2>2 DEF Answer, SessionOK, ListsOK, ConfirmOK, OverlayOK, ReadsOK
<1>10. CASE LeaveOverlay
  BY <1>10 DEF LeaveOverlay, SessionOK, ListsOK, ConfirmOK, OverlayOK, ReadsOK
<1>11. ASSUME NEW w \in posts, NotFound(w) PROVE AttentionTypeOK'
  <2>1. SourcesOK(perms \ {w.item}, clars, tasks)
    BY <1>1 DEF SourcesOK
  <2>2. ListOK(items', selected')
    BY <1>11, <2>1, RebuildIs DEF NotFound
  <2>3. Synced(panel, perms \ {w.item}, detail) \in SUBSET Perms
    BY <2>1, SyncedIs DEF SourcesOK, SessionOK
  <2>4. ListsOK' /\ ReadsOK'
    BY <1>1, <1>2, <1>11, <2>2, <2>3 DEF NotFound, ListsOK, SourcesOK, ReadsOK
  <2>5. posts' \in SUBSET Posts
    BY <1>11 DEF NotFound
  <2>6. QED
    BY <1>11, <2>4, <2>5 DEF NotFound, SessionOK, ConfirmOK, OverlayOK
<1>12. ASSUME NEW w \in posts, Answered(w) PROVE AttentionTypeOK'
  <2>1. status' \in [Items -> Statuses]
    BY <1>12 DEF Answered, Statuses
  <2>2. Synced(panel, perms, detail) \in SUBSET Perms
    BY <1>1, SyncedIs DEF SourcesOK, SessionOK
  <2>3. ListsOK' /\ ReadsOK'
    BY <1>1, <1>2, <1>12, <2>2 DEF Answered, RefreshOnly, ListsOK, SourcesOK, ReadsOK
  <2>4. posts' \in SUBSET Posts
    BY <1>12 DEF Answered
  <2>5. QED
    BY <1>12, <2>1, <2>3, <2>4 DEF Answered, SessionOK, ConfirmOK, OverlayOK
<1>13. QED
  BY <1>5, <1>6, <1>7, <1>8, <1>9, <1>10, <1>11, <1>12

(* The list, its sources and what is on its way stay well formed; the      *)
(* selection points at most at the last row there can be, or at the first  *)
(* of none (attention::key on k).                                          *)
THEOREM ListTypeCorrect == AttentionSpec => []AttentionTypeOK
<1>1. AttentionInit => AttentionTypeOK
  <2> SUFFICES ASSUME AttentionInit PROVE AttentionTypeOK
    OBVIOUS
  <2>1. status \in [Items -> Statuses] /\ SessionOK /\ OverlayOK /\ posts \in SUBSET Posts
    BY ConstantsAssumption DEF AttentionInit, SessionOK, OverlayOK, Statuses
  <2>2. ListsOK
    <3>1. Len(Order) \in Nat /\ Len(items) = 0 /\ items \in Seq(Items)
      BY ConstantsAssumption DEF AttentionInit
    <3>2. QED
      BY <3>1 DEF AttentionInit, ListsOK, SourcesOK, ListOK
  <2>3. ConfirmOK
    BY OneIsConfirmed DEF AttentionInit, ConfirmOK
  <2>4. ReadsOK
    <3>1. Read("overview", NoId) \in Reads
      BY ReadIs
    <3>2. \A i \in Scope(Read("overview", NoId)) : status[i] \in Statuses
      BY <2>1, <3>1, ScopeIs
    <3>3. ReadOK(Seen(Read("overview", NoId)))
      BY <3>1, <3>2 DEF ReadOK, Seen, Statuses
    <3>4. QED
      BY <3>3 DEF AttentionInit, ReadsOK
  <2>5. QED
    BY <2>1, <2>2, <2>3, <2>4, Parts
<1>2. AttentionTypeOK /\ [AttentionNext]_attentionVars => AttentionTypeOK'
  <2> SUFFICES ASSUME AttentionTypeOK, [AttentionNext]_attentionVars PROVE AttentionTypeOK'
    OBVIOUS
  <2>1. CASE UNCHANGED attentionVars
    BY <2>1 DEF AttentionTypeOK, attentionVars, lists
  <2>2. CASE AttentionNext
    BY <2>2, DaemonKeepsTypes, ArrivalsKeepTypes, KeysKeepTypes, PanelsKeepTypes, Zenon
       DEF AttentionNext
  <2>3. QED
    BY <2>1, <2>2
<1>3. QED
  BY <1>1, <1>2, PTL DEF AttentionSpec

(* When the transcript on screen learns that a permission was decided, in  *)
(* a delta or on a page, the list loses it in the same step.               *)
THEOREM DecidedIsOffTheList == AttentionSpec => DecidedLeavesList
<1>1. ASSUME AttentionTypeOK, [AttentionNext]_attentionVars, NEW p \in Perms,
             panel[p] # "closed", panel'[p] = "closed"
      PROVE  \A n \in DOMAIN items' : items'[n] # p
  <2>1. p \notin clars /\ p \notin tasks /\ SourcesOK(perms, clars, tasks) /\ p \in Items
    BY <1>1, ConstantsAssumption DEF AttentionTypeOK, SourcesOK, Items
  <2>2. panel \in [Perms -> Statuses] /\ detail \in Sessions \cup {NoId}
    BY <1>1 DEF AttentionTypeOK
  <2>3. ASSUME NEW q \in Perms, Delta(q) PROVE \A n \in DOMAIN items' : items'[n] # p
    <3>1. p = q
      BY <1>1, <2>2, <2>3 DEF Delta
    <3>2. detail # NoId /\ SessionOf[p] = detail
      BY <2>3, <3>1, ConstantsAssumption DEF Delta
    <3>3. p \notin Synced(panel', perms, detail)
      BY <1>1, <3>2 DEF Synced, OfSession, Open
    <3>4. SourcesOK(perms', clars, tasks) /\ p \notin perms'
      <4>1. panel' \in [Perms -> Statuses]
        BY <1>1, <2>2, <2>3 DEF Delta, AttentionTypeOK, Items
      <4>2. Synced(panel', perms, detail) \in SUBSET Perms
        BY <2>1, <4>1, SyncedIs DEF SourcesOK
      <4>3. QED
        BY <2>1, <2>3, <3>3, <4>2 DEF Delta, SourcesOK
    <3>5. \A n \in DOMAIN items' : items'[n] \in perms' \cup clars \cup tasks
      BY <1>1, <2>3, <3>4, RebuildIs DEF Delta
    <3>6. QED
      BY <2>1, <3>4, <3>5
  <2>4. ASSUME NEW a \in reads, PageArrives(a) PROVE \A n \in DOMAIN items' : items'[n] # p
    <3>1. /\ detail = a.read.session /\ p \in DOMAIN a.seen /\ a.seen[p] = "closed"
      BY <1>1, <2>2, <2>4 DEF PageArrives
    <3>2. ReadOK(a)
      BY <1>1 DEF AttentionTypeOK, ReadOK
    <3>3. SessionOf[p] = a.read.session
      BY <2>4, <3>1, <3>2, ScopeIs DEF PageArrives, ReadOK
    <3>4. Open(a.seen) \in SUBSET Perms
      BY <2>4, <3>2, OpenIs DEF PageArrives
    <3>5. SourcesOK(perms', clars, tasks) /\ p \notin perms'
      BY <2>1, <2>4, <3>1, <3>3, <3>4
         DEF PageArrives, ApplyTranscript, SourcesOK, OfSession, Open
    <3>6. \A n \in DOMAIN items' : items'[n] \in perms' \cup clars \cup tasks
      BY <1>1, <2>4, <3>5, RebuildIs DEF PageArrives, ApplyTranscript
    <3>7. QED
      BY <2>1, <3>5, <3>6
  <2>5. (\E q \in Perms : Delta(q)) \/ (\E a \in reads : PageArrives(a))
           \/ UNCHANGED panel \/ panel' = [q \in Perms |-> "none"]
    BY <1>1 DEF AttentionNext, attentionVars, lists, Ask, Close, Serve, ReadFails, Arrives,
                VisibleArrives, ClarsArrive, OverviewArrives, Poll, MoveDown, MoveUp, Decision,
                Persistent, Confirm, InlineDecision, InlinePersistent, ConfirmInline,
                CancelConfirm, OpenSession, OpenClarify, Show, OpenRun, ScrollUp, Answer,
                LeaveOverlay, NotFound, Answered
  <2>6. QED
    BY <1>1, <2>3, <2>4, <2>5
<1>2. AttentionTypeOK /\ [AttentionNext]_attentionVars
        => [\A p \in Perms :
              panel[p] # "closed" /\ panel'[p] = "closed"
                => \A n \in DOMAIN items' : items'[n] # p]_attentionVars
  BY <1>1
<1>3. QED
  BY <1>2, ListTypeCorrect, PTL DEF AttentionSpec, DecidedLeavesList

-----------------------------------------------------------------------------
(* Attention.                                                              *)

(* A confirmation is asked only for permissions that offer it.             *)
AskedOffered == \A c \in confirm : c.asked \in Always

Offered == AskedOffered /\ PersistentOffered

LEMMA VerbOffered ==
    ASSUME NEW row, NEW decision \in Decisions, NEW asked,
           NEW w \in Verb(row, decision, asked), w.decision = "always"
    PROVE  w.item \in Always
<1>1. PICK i \in DOMAIN items :
         /\ w = Write(items[i], decision, asked)
         /\ \/ items[i] \in Perms /\ (decision = "always" => items[i] \in Always)
            \/ items[i] \in Tasks /\ decision = "once"
  BY DEF Verb
<1>2. w.item = items[i] /\ w.decision = decision
  BY <1>1 DEF Write
<1>3. QED
  BY <1>1, <1>2

(* A persistent decision reaches only permissions that offer one, also     *)
(* when the list changed before it was confirmed: attention::verb looks    *)
(* at the row again.                                                       *)
THEOREM PersistentIsOffered == AttentionSpec => []PersistentOffered
<1>1. AttentionInit => Offered
  BY DEF AttentionInit, Offered, AskedOffered, PersistentOffered
<1>2. Offered /\ [AttentionNext]_attentionVars => Offered'
  <2> SUFFICES ASSUME Offered, [AttentionNext]_attentionVars PROVE Offered'
    OBVIOUS
  <2> USE DEF Offered, AskedOffered, PersistentOffered
  <2>1. ASSUME NEW writes, PostOrRefuse(writes),
               \A w \in writes : w.decision = "always" => w.item \in Always
        PROVE  PersistentOffered'
    BY <2>1 DEF PostOrRefuse
  <2>2. ASSUME NEW i, NEW asked, PostOrRefuse({Write(i, "once", asked)})
        PROVE  PersistentOffered'
    BY <2>1, <2>2 DEF Write
  <2>3. CASE Decision
    <3>1. PersistentOffered'
      BY <2>1, <2>3, VerbOffered DEF Decision, Decisions
    <3>2. QED
      BY <2>3, <3>1 DEF Decision
  <2>4. ASSUME NEW c \in confirm, Confirm(c) PROVE Offered'
    <3>1. PersistentOffered'
      BY <2>1, <2>4, VerbOffered DEF Confirm, Decisions
    <3>2. QED
      BY <2>4, <3>1 DEF Confirm
  <2>5. ASSUME NEW c \in confirm, ConfirmInline(c) PROVE Offered'
    <3>1. PersistentOffered'
      BY <2>1, <2>5 DEF ConfirmInline, Write
    <3>2. QED
      BY <2>5, <3>1 DEF ConfirmInline
  <2>6. CASE Persistent
    BY <2>6 DEF Persistent
  <2>7. ASSUME NEW p \in Perms, InlinePersistent(p) PROVE Offered'
    BY <2>7 DEF InlinePersistent
  <2>8. ASSUME NEW p \in Perms, InlineDecision(p) PROVE Offered'
    BY <2>2, <2>8 DEF InlineDecision
  <2>9. CASE Answer
    BY <2>2, <2>9 DEF Answer
  <2>10. CASE CancelConfirm
    BY <2>10 DEF CancelConfirm
  <2>11. ASSUME NEW w \in posts, NotFound(w) \/ Answered(w) PROVE Offered'
    BY <2>11 DEF NotFound, Answered
  <2>12. CASE UNCHANGED <<confirm, posts>>
    BY <2>12
  <2>13. UNCHANGED <<confirm, posts>>
           \/ Decision \/ (\E c \in confirm : Confirm(c) \/ ConfirmInline(c)) \/ Persistent
           \/ (\E p \in Perms : InlinePersistent(p) \/ InlineDecision(p))
           \/ Answer \/ CancelConfirm \/ (\E w \in posts : NotFound(w) \/ Answered(w))
    BY DEF AttentionNext, attentionVars, Ask, Close, Serve, ReadFails, Arrives, VisibleArrives, PageArrives,
           ClarsArrive, OverviewArrives, Delta, Poll, MoveDown, MoveUp, OpenSession,
           OpenClarify, OpenRun, ScrollUp, LeaveOverlay
  <2>14. QED
    BY Zenon, <2>3, <2>4, <2>5, <2>6, <2>7, <2>8, <2>9, <2>10, <2>11, <2>12, <2>13
<1>3. Offered => PersistentOffered
  BY DEF Offered
<1>4. QED
  BY <1>1, <1>2, <1>3, PTL DEF AttentionSpec
=============================================================================
