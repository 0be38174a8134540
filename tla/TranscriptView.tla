--------------------------- MODULE TranscriptView ---------------------------
(***************************************************************************)
(* The transcript of the session on screen as rows: adjacent tool updates  *)
(* and telemetry of one kind are drawn as one row, D shows the entries one *)
(* by one, and the selection, the search and the verbs of a permission     *)
(* card are kept in step with the rows while entries arrive                *)
(* (batuta-tui/src/transcript.rs, app/update/stream.rs, keys.rs, search.rs *)
(* and attention.rs, render_cache.rs).                                     *)
(*                                                                         *)
(* Entries arrive in order here; TranscriptSync has what happens when they *)
(* do not.  An entry is known by the number it starts at, and has its kind *)
(* and the number of its last event.  Footer, markers, texts and the mode  *)
(* of reasoning are left out, and so are the keys while the composer, an   *)
(* overlay or a confirmation has them (KeyRouting).                        *)
(***************************************************************************)
EXTENDS Integers, Sequences, FiniteSets, FiniteSetsExt

CONSTANTS
    Kinds,            \* kinds of entries
    Operational,      \* those that are grouped
    Expandable,       \* those with a part that can be unfolded
    Found,            \* those whose text has the word that is searched for
    PageSize,         \* entries of a page
    Height,           \* rows PgUp and PgDn move by
    MaxSequence,      \* bound: events of the session
    MaxSnapshots,     \* bound: snapshots
    MaxUnfolded       \* bound: entries unfolded at once

ASSUME KindsAssumption ==
    /\ Operational \subseteq Kinds /\ Found \subseteq Kinds
    /\ Expandable \subseteq Kinds /\ "card" \in Expandable \ Operational
ASSUME ViewAssumption ==
    /\ {PageSize, Height, MaxSequence, MaxSnapshots, MaxUnfolded} \subseteq Nat \ {0}
    /\ PageSize < MaxSequence

VARIABLES
    full,             \* daemon: the transcript
    low,              \* the client has the entries that start here or later
    raw,              \* raw_debug
    selection,        \* index of the selected row, from 0 on
    source,           \* selected_source_start_sequence, 0 for none
    follow, expanded,
    fetching,         \* "no", "newest" for the page of a session just opened, "older"
    search,           \* the search, or NoSearch
    cache,            \* keys of render_cache by entry
    astray,           \* history: a verb was posted for a card that was not selected
    snapshots         \* history, for the bound

view == <<selection, source, follow>>
viewVars == <<full, low, raw, view, expanded, fetching, search, cache, astray, snapshots>>

NoSearch == [query |-> "off", focused |-> FALSE, matches |-> <<>>, current |-> 0]
NewSearch == [NoSearch EXCEPT !.query = "empty", !.focused = TRUE]
Queries == {"empty", "word", "label"}

(* The first page or snapshot has come.                                    *)
Filled == low <= MaxSequence

Top == Max({0} \cup {full[s].seq : s \in DOMAIN full})
Entries == [s \in {t \in DOMAIN full : t >= low} |-> full[s]]

-----------------------------------------------------------------------------
(* Rows.                                                                   *)

(* The members of S in order, each where its rank puts it.                 *)
Sorted(S) ==
    [i \in 1..Cardinality(S) |-> CHOOSE s \in S : Cardinality({t \in S : t < s}) = i - 1]

(* The rows of entries e, each the set of the entries in it.               *)
Rows(e, r) ==
    LET starts == Sorted(DOMAIN e)
        Joined(i) == /\ ~r /\ i > 1
                     /\ e[starts[i]].kind \in Operational
                     /\ e[starts[i]].kind = e[starts[i - 1]].kind
        heads == Sorted({i \in DOMAIN starts : ~Joined(i)}) \o <<Len(starts) + 1>>
    IN  [k \in 1..(Len(heads) - 1) |-> {starts[i] : i \in heads[k]..(heads[k + 1] - 1)}]

RowAt(rows, index) == IF index < Len(rows) THEN rows[index + 1] ELSE {}
LastIndex(rows) == IF rows = <<>> THEN 0 ELSE Len(rows) - 1

(* A group is also found by its label.                                     *)
Matching(e, r, query) ==
    LET rows == Rows(e, r)
        Hit(row) == \/ query = "word" /\ \E s \in row : e[s].kind \in Found
                    \/ query = "label" /\ Cardinality(row) > 1
    IN  Sorted({i \in 0..(Len(rows) - 1) : Hit(rows[i + 1])})

Recomputed(s, e, r) ==
    LET matches == Matching(e, r, s.query)
    IN  IF s = NoSearch THEN s
        ELSE [s EXCEPT !.matches = matches,
                       !.current = IF matches = <<>> THEN 0 ELSE Min({@, Len(matches) - 1})]

(* The entry the selection stands for: the remembered one as long as it is *)
(* in the selected row, else the first of the row; 0 for none.             *)
Anchor(rows) ==
    LET row == RowAt(rows, selection)
    IN  IF source \in row THEN source ELSE IF row = {} THEN 0 ELSE Min(row)

Distance(s, t) == IF s < t THEN t - s ELSE s - t
Nearest(row, s) == Min({t \in row : \A u \in row : Distance(t, s) <= Distance(u, s)})

(* What is drawn of every entry, once the cache was rebuilt.               *)
Keys(e, r, x) == [s \in DOMAIN e |-> [seq |-> e[s].seq, raw |-> r, expanded |-> s \in x]]

-----------------------------------------------------------------------------
ViewInit ==
    /\ full \in {[s \in 1..n |-> [kind |-> k[s], seq |-> s]] :
                    n \in {PageSize + 1}, k \in [1..(PageSize + 1) -> Kinds]}
    /\ low = MaxSequence + 1
    /\ raw = FALSE /\ selection = 0 /\ source = 0 /\ follow = TRUE
    /\ expanded = {} /\ fetching = "newest"
    /\ search = NoSearch /\ cache = <<>> /\ astray = FALSE /\ snapshots = 0

-----------------------------------------------------------------------------
(* What arrives.                                                           *)

(* After every message that touched them, search and cache are brought up  *)
(* to date with the rows.                                                  *)
Redrawn ==
    /\ search' = Recomputed(search, Entries', raw')
    /\ cache' = Keys(Entries', raw', expanded')

(* A page goes in front, unless it is the newest one and a snapshot has    *)
(* brought it already; only the first one moves the selection.             *)
PageArrives ==
    LET older == {s \in DOMAIN full : s < low}
        page == {s \in older : Cardinality({t \in older : t > s}) < PageSize}
    IN  /\ fetching # "no"
        /\ low' = IF fetching = "older" \/ ~Filled THEN Min({low} \cup page) ELSE low
        /\ fetching' = "no"
        /\ UNCHANGED <<full, raw, source, follow, expanded, astray, snapshots>>
        /\ selection' = IF Entries = <<>> THEN LastIndex(Rows(Entries', raw)) ELSE selection
        /\ Redrawn

(* Mutant: the matches of the search are left as they are.                 *)
DeltaKeepsMatches(s, kind) ==
    /\ Filled /\ Top < MaxSequence
    /\ \/ s \in DOMAIN Entries
          /\ (full[s].kind = kind \/ (full[s].kind = "tool" /\ kind = "done"))
       \/ s \notin DOMAIN full /\ s \in {Top, Top + 1}
    /\ full' = [t \in DOMAIN full \cup {s} |->
                    IF t = s THEN [kind |-> kind, seq |-> Top + 1] ELSE full[t]]
    /\ UNCHANGED <<low, raw, source, follow, expanded, fetching, search, astray, snapshots>>
    /\ selection' = IF follow THEN LastIndex(Rows(Entries', raw)) ELSE selection
    /\ cache' = Keys(Entries', raw, expanded)

(* An entry the client has goes on, or a new one begins where the last     *)
(* event was or behind it.  Off the tail the selection keeps its index.    *)
DeltaArrives(s, kind) ==
    /\ Filled /\ Top < MaxSequence
    /\ \/ s \in DOMAIN Entries
          /\ (full[s].kind = kind \/ (full[s].kind = "tool" /\ kind = "done"))
       \/ s \notin DOMAIN full /\ s \in {Top, Top + 1}
    /\ full' = [t \in DOMAIN full \cup {s} |->
                    IF t = s THEN [kind |-> kind, seq |-> Top + 1] ELSE full[t]]
    /\ UNCHANGED <<low, raw, source, follow, expanded, fetching, astray, snapshots>>
    /\ selection' = IF follow THEN LastIndex(Rows(Entries', raw)) ELSE selection
    /\ Redrawn

(* The row an entry is in or, if it is gone, the row nearest to it.        *)
RowOf(rows, s) ==
    LET Far(k) == Distance(Nearest(rows[k], s), s)
    IN  Min({k \in DOMAIN rows : \A j \in DOMAIN rows : Far(k) <= Far(j)})

(* A snapshot replaces the entries: the newest page of a stream that       *)
(* starts again, or what a rewrite has left of the transcript.             *)
SnapshotArrives(kept) ==
    LET anchor == Anchor(Rows(Entries, raw)) IN
    /\ snapshots < MaxSnapshots
    /\ snapshots' = snapshots + 1
    /\ full' = [s \in kept |-> full[s]]
    /\ low' = IF kept = {} THEN 1
              ELSE Min({s \in kept : Cardinality({t \in kept : t > s}) < PageSize})
    /\ UNCHANGED <<raw, follow, expanded, fetching, astray>>
    /\ LET rows == Rows(Entries', raw) IN
       IF follow
       THEN selection' = LastIndex(rows) /\ UNCHANGED source
       ELSE IF anchor = 0
       THEN UNCHANGED <<selection, source>>
       ELSE IF rows = <<>>
       THEN selection' = 0 /\ source' = 0
       ELSE LET k == RowOf(rows, anchor) IN
            selection' = k - 1 /\ source' = Nearest(rows[k], anchor)
    /\ Redrawn

-----------------------------------------------------------------------------
(* The keys of the panel.                                                  *)

ListKey == search.query = "off" \/ ~search.focused

(* Above the first row an older page is asked for.                         *)
MoveUp(amount) ==
    /\ ListKey
    /\ IF selection > 0
       THEN /\ selection' = Max({0, selection - amount}) /\ follow' = FALSE
            /\ UNCHANGED fetching
       ELSE /\ fetching = "no" /\ \E s \in DOMAIN full : s < low
            /\ fetching' = "older"
            /\ UNCHANGED <<selection, follow>>
    /\ UNCHANGED <<full, low, raw, source, expanded, search, cache, astray, snapshots>>

MoveDown ==
    LET last == LastIndex(Rows(Entries, raw)) IN
    /\ ListKey /\ Entries # <<>>
    /\ selection' = Min({selection + 1, last})
    /\ follow' = (selection' = last)
    /\ UNCHANGED <<full, low, raw, source, expanded, fetching, search, cache, astray, snapshots>>

PageDown ==
    /\ ListKey
    /\ selection' = Min({selection + Height, LastIndex(Rows(Entries, raw))})
    /\ UNCHANGED <<full, low, raw, source, follow, expanded, fetching, search, cache,
                   astray, snapshots>>

Jump(bottom) ==
    /\ ListKey
    /\ selection' = IF bottom THEN LastIndex(Rows(Entries, raw)) ELSE 0
    /\ follow' = bottom
    /\ UNCHANGED <<full, low, raw, source, expanded, fetching, search, cache, astray, snapshots>>

(* Mutant: the entry is not remembered.                                    *)
ToggleDebugForgets ==
    LET anchor == Anchor(Rows(Entries, raw))
        rows == Rows(Entries, ~raw)
    IN  /\ ListKey
        /\ raw' = ~raw
        /\ UNCHANGED <<full, low, source, follow, expanded, fetching, astray, snapshots>>
        /\ selection' = IF anchor # 0 THEN RowOf(rows, anchor) - 1
                        ELSE Min({selection, LastIndex(rows)})
        /\ Redrawn

(* D: entries one by one, or grouped again.                                *)
ToggleDebug ==
    LET anchor == Anchor(Rows(Entries, raw))
        rows == Rows(Entries, ~raw)
    IN  /\ ListKey
        /\ raw' = ~raw
        /\ UNCHANGED <<full, low, follow, expanded, fetching, astray, snapshots>>
        /\ source' = anchor
        /\ selection' = IF anchor # 0 THEN RowOf(rows, anchor) - 1
                        ELSE Min({selection, LastIndex(rows)})
        /\ Redrawn

(* Enter on an entry with a part that unfolds; on another it goes to the   *)
(* composer.                                                               *)
Unfold ==
    LET row == RowAt(Rows(Entries, raw), selection) IN
    /\ ListKey /\ row # {} /\ full[Min(row)].kind \in Expandable
    /\ expanded' = IF Min(row) \in expanded THEN expanded \ {Min(row)}
                   ELSE expanded \cup {Min(row)}
    /\ Cardinality(expanded') <= MaxUnfolded
    /\ UNCHANGED <<full, low, raw, view, fetching, search, astray, snapshots>>
    /\ cache' = Keys(Entries', raw', expanded')

(* a, x, A and X take the entry with the number of the selected row.       *)
Decide ==
    LET starts == Sorted(DOMAIN Entries) IN
    /\ ListKey
    /\ selection < Len(starts)
    /\ full[starts[selection + 1]].kind = "card"
    /\ astray' = (astray \/ starts[selection + 1] \notin RowAt(Rows(Entries, raw), selection))
    /\ UNCHANGED <<full, low, raw, view, expanded, fetching, search, cache, snapshots>>

OpenSearch ==
    /\ ListKey
    /\ search' = NewSearch
    /\ UNCHANGED <<full, low, raw, view, expanded, fetching, cache, astray, snapshots>>

Type(query) ==
    /\ search # NoSearch /\ search.focused /\ query # search.query
    /\ search' = Recomputed([search EXCEPT !.query = query], Entries, raw)
    /\ UNCHANGED <<full, low, raw, view, expanded, fetching, cache, astray, snapshots>>

(* Enter goes to the first match from the selection on.                    *)
ConfirmSearch ==
    LET matches == search.matches
        onwards == {k \in DOMAIN matches : matches[k] >= selection}
        k == IF onwards = {} THEN 1 ELSE Min(onwards)
    IN  /\ search # NoSearch /\ search.focused
        /\ IF matches = <<>>
           THEN /\ search' = [search EXCEPT !.focused = FALSE]
                /\ UNCHANGED <<selection, follow>>
           ELSE /\ search' = [search EXCEPT !.focused = FALSE, !.current = k - 1]
                /\ selection' = matches[k] /\ follow' = FALSE
        /\ UNCHANGED <<full, low, raw, source, expanded, fetching, cache, astray, snapshots>>

(* n and N.                                                                *)
CycleSearch(forward) ==
    LET len == Len(search.matches)
        next == (search.current + (IF forward THEN 1 ELSE len - 1)) % len
    IN  /\ search # NoSearch /\ ~search.focused /\ search.matches # <<>>
        /\ search' = [search EXCEPT !.current = next]
        /\ selection' = search.matches[next + 1] /\ follow' = FALSE
        /\ UNCHANGED <<full, low, raw, source, expanded, fetching, cache, astray, snapshots>>

LeaveSearch ==
    /\ search # NoSearch
    /\ search' = NoSearch
    /\ UNCHANGED <<full, low, raw, view, expanded, fetching, cache, astray, snapshots>>

ViewNext ==
    \/ PageArrives
    \/ \E s \in 1..MaxSequence, kind \in Kinds : DeltaArrives(s, kind)
    \/ \E kept \in SUBSET DOMAIN full : SnapshotArrives(kept)
    \/ \E amount \in {1, Height} : MoveUp(amount)
    \/ MoveDown
    \/ PageDown
    \/ \E bottom \in BOOLEAN : Jump(bottom)
    \/ ToggleDebug
    \/ Unfold
    \/ Decide
    \/ OpenSearch
    \/ \E query \in Queries : Type(query)
    \/ ConfirmSearch
    \/ \E forward \in BOOLEAN : CycleSearch(forward)
    \/ LeaveSearch

ViewSpec == ViewInit /\ [][ViewNext]_viewVars

-----------------------------------------------------------------------------
Selected == RowAt(Rows(Entries, raw), selection)

(* The entry the user stands on stays the one, whether the rows are        *)
(* grouped otherwise or a snapshot replaces the entries under a reader who *)
(* does not follow the tail (keys.rs:437, stream.rs:224).                  *)
AnchorKept ==
    [][/\ raw' # raw \/ (snapshots' # snapshots /\ ~follow)
       /\ Selected # {}
       /\ Anchor(Rows(Entries, raw)) \in DOMAIN Entries'
       => Anchor(Rows(Entries, raw))' = Anchor(Rows(Entries, raw))]_viewVars

(* After whatever has arrived, was grouped or unfolded, n, N and Enter go  *)
(* to rows that match (search.rs:5), and every entry has its text in the   *)
(* cache as it is to be drawn now; one without would not be drawn at all   *)
(* (render_cache.rs:13, views/transcript.rs:71).                           *)
RowsAreCurrent ==
    /\ search # NoSearch =>
        /\ search.matches = Matching(Entries, raw, search.query)
        /\ search.current <= LastIndex(search.matches)
    /\ cache = Keys(Entries, raw, expanded)

(* A verb decides a card that is selected (README.md:173).                 *)
DecidesSelected == ~astray

=============================================================================
