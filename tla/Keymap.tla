------------------------------- MODULE Keymap -------------------------------
(***************************************************************************)
(* The keymap a [keys] table of the configuration file makes of the        *)
(* default one, and what it warns of (batuta-tui/src/keymap.rs and         *)
(* resolve_keymap in batuta/src/config.rs).                                *)
(*                                                                         *)
(* A combination of keys is a value: how it is written and displayed is    *)
(* left out, and so is the order of those of one action, which only the    *)
(* help shows.  The table is read in the order of the names of its keys.   *)
(***************************************************************************)
EXTENDS Integers, FiniteSets

CONSTANTS
    GlobalActions, ListActions,
    NoAction,
    Combos,           \* combinations of keys
    Defaults,         \* those of every action in the default keymap
    Rank,             \* place of an action's name in the order of names
    PanelCombos,      \* those of the rows of BINDINGS for Attention, the session
                      \* detail and the run detail
    OtherCombos,      \* those of its other rows no table can change, and Ctrl+C
    Separator,        \* the combination written as what separates those of a row
    Hardwired,        \* those key() looks at before the keymap
    MaxEntries,       \* bound: entries of the table
    MaxCombos         \* bound: combinations of an entry

Actions == GlobalActions \cup ListActions
Groups == {"Global", "Lists"}
Group(a) == IF a \in GlobalActions THEN "Global" ELSE "Lists"

DefaultGlobal == UNION {Defaults[a] : a \in GlobalActions}

ASSUME KeymapAssumption ==
    /\ GlobalActions \cap ListActions = {}
    /\ NoAction \notin Actions
    /\ Defaults \in [Actions -> (SUBSET Combos) \ {{}}]
    /\ \A a, b \in Actions :
          a # b /\ Group(a) = Group(b) => Defaults[a] \cap Defaults[b] = {}
    /\ Rank \in [Actions -> Nat]
    /\ \A a, b \in Actions : Rank[a] = Rank[b] => a = b
    /\ PanelCombos \cup OtherCombos \subseteq Combos
    /\ PanelCombos \cap DefaultGlobal = {}

ASSUME KeymapBounds == {MaxEntries, MaxCombos} \subseteq Nat

VARIABLES
    forward,          \* the action a combination has in each group
    reverse,          \* the combinations of an action
    read,             \* actions whose entry has been read
    file,             \* history: what the entries read bind
    unbound,          \* actions "left unbound" was said of
    flawed,           \* those an entry of which was skipped or read in part
    shadowed,         \* combinations a collision was reported for
    phase             \* "file", then "resolved"

maps == <<forward, reverse>>
warnings == <<unbound, flawed, shadowed>>
keymapVars == <<maps, read, file, warnings, phase>>

Bound(g) == {c \in Combos : forward[g][c] # NoAction}

KeymapTypeOK ==
    /\ forward \in [Groups -> [Combos -> Actions \cup {NoAction}]]
    /\ reverse \in [Actions -> SUBSET Combos]
    /\ read \subseteq Actions
    /\ file \in [Actions -> SUBSET Combos]
    /\ unbound \subseteq Actions
    /\ flawed \subseteq Actions \cup {NoAction}
    /\ shadowed \subseteq Combos
    /\ phase \in {"file", "resolved"}

(* The action of group g that has c by default.                            *)
Owner(g, c) ==
    LET owners == {a \in Actions : Group(a) = g /\ c \in Defaults[a]}
    IN  IF owners = {} THEN NoAction ELSE CHOOSE a \in owners : TRUE

KeymapInit ==
    /\ forward = [g \in Groups |-> [c \in Combos |-> Owner(g, c)]]
    /\ reverse = Defaults
    /\ read = {}
    /\ file = [a \in Actions |-> {}]
    /\ unbound = {} /\ flawed = {} /\ shadowed = {}
    /\ phase = "file"

-----------------------------------------------------------------------------
(* What a combination of the group of a is bound to once a has let go.     *)
Released(a, c) == IF c \in reverse[a] THEN NoAction ELSE forward[Group(a)][c]

(* The combinations b loses to a.                                          *)
Stolen(a, combos, b) == {c \in combos : Released(a, c) = b}
Victims(a, combos) == {b \in Actions : Stolen(a, combos, b) # {}}

(* Mutant: a keeps what it had before.                                     *)
RebindAlso(a, combos) ==
    /\ forward' = [forward EXCEPT ![Group(a)] =
                     [c \in Combos |-> IF c \in combos THEN a ELSE forward[Group(a)][c]]]
    /\ reverse' = [b \in Actions |->
                     IF b = a THEN combos \cup reverse[a]
                              ELSE reverse[b] \ Stolen(a, combos, b)]
    /\ unbound' = unbound \cup
                    {b \in Victims(a, combos) : reverse[b] \subseteq Stolen(a, combos, b)}

(* Mutant: the victim still lists what it lost.                            *)
RebindForward(a, combos) ==
    /\ forward' = [forward EXCEPT ![Group(a)] =
                     [c \in Combos |-> IF c \in combos THEN a ELSE Released(a, c)]]
    /\ reverse' = [reverse EXCEPT ![a] = combos]
    /\ unbound' = unbound \cup
                    {b \in Victims(a, combos) : reverse[b] \subseteq Stolen(a, combos, b)}

Rebind(a, combos) ==
    /\ forward' = [forward EXCEPT ![Group(a)] =
                     [c \in Combos |-> IF c \in combos THEN a ELSE Released(a, c)]]
    /\ reverse' = [b \in Actions |->
                     IF b = a THEN combos
                              ELSE reverse[b] \ Stolen(a, combos, b)]
    /\ unbound' = unbound \cup
                    {b \in Victims(a, combos) : reverse[b] \subseteq Stolen(a, combos, b)}

(* An entry: what of it is not a combination is reported and left out; an  *)
(* entry of nothing else changes nothing.                                  *)
Entry(a, combos, whole) ==
    /\ phase = "file"
    /\ Cardinality(read) < MaxEntries
    /\ \A b \in read : Rank[b] < Rank[a]
    /\ read' = read \cup {a}
    /\ flawed' = IF whole THEN flawed ELSE flawed \cup {a}
    /\ file' = [file EXCEPT ![a] = combos]
    /\ IF combos = {} THEN UNCHANGED <<maps, unbound>> ELSE Rebind(a, combos)
    /\ UNCHANGED <<shadowed, phase>>

(* A name that is not one of an action.                                    *)
UnknownEntry ==
    /\ phase = "file"
    /\ flawed' = flawed \cup {NoAction}
    /\ UNCHANGED <<maps, read, file, unbound, shadowed, phase>>

(* The combinations a collision is looked for with are read off the rows   *)
(* as the help writes them.  A row that is the separator itself falls into *)
(* empty pieces, and yields none.                                          *)
Parsed(row) == row \ {Separator}
Reserved == Parsed(PanelCombos) \cup Parsed(OtherCombos)

Collisions ==
    (Bound("Global") \cap Bound("Lists"))
        \cup ((Bound("Global") \ DefaultGlobal) \cap Reserved)

(* Mutant: one that was a combination of Global by default is not          *)
(* compared with those of Lists either.                                    *)
ResolveLess ==
    /\ phase = "file" /\ phase' = "resolved"
    /\ shadowed' = (Bound("Global") \ DefaultGlobal) \cap (Bound("Lists") \cup Reserved)
    /\ UNCHANGED <<maps, read, file, unbound, flawed>>

Resolve ==
    /\ phase = "file" /\ phase' = "resolved"
    /\ shadowed' = Collisions
    /\ UNCHANGED <<maps, read, file, unbound, flawed>>

Entries == {combos \in SUBSET Combos : Cardinality(combos) <= MaxCombos}

KeymapNext ==
    \/ \E a \in Actions, combos \in Entries, whole \in BOOLEAN : Entry(a, combos, whole)
    \/ UnknownEntry
    \/ Resolve

-----------------------------------------------------------------------------
(* The two directions of the keymap agree: the help, which reads one,      *)
(* names the keys that dispatch, which reads the other, acts on            *)
(* (keymap.rs:407).                                                        *)
DirectionsAgree ==
    \A a \in Actions, c \in Combos : c \in reverse[a] <=> forward[Group(a)][c] = a

(* What the table says is what the keymap does, whatever was stolen from   *)
(* whom on the way: a combination belongs to the last entry of its group   *)
(* that names it; one that none names stays with its default action,       *)
(* unless that has an entry of its own (keymap.rs:473, config.rs:314).     *)
FileDecides ==
    \A a \in Actions, c \in Combos :
        forward[Group(a)][c] = a <=>
            \/ /\ c \in file[a]
               /\ \A b \in Actions :
                    Group(b) = Group(a) /\ c \in file[b] => Rank[b] <= Rank[a]
            \/ /\ c \in Defaults[a] /\ file[a] = {}
               /\ \A b \in Actions : Group(b) = Group(a) => c \notin file[b]

-----------------------------------------------------------------------------
(* What a key does where no overlay, confirmation or text field has it: in *)
(* a list, and in a panel whose keys are not in the keymap (key in         *)
(* update/keys.rs).                                                        *)

DoesInList(c) ==
    CASE c \in Hardwired -> "fixed"
      [] c \notin Hardwired /\ forward["Global"][c] # NoAction -> "global"
      [] OTHER -> "list"

DoesInPanel(c) == IF DoesInList(c) = "list" THEN "panel" ELSE DoesInList(c)

(* No action and no key of a list is lost in silence, and of a panel none  *)
(* but the one its rows cannot be read for: an action without a key was    *)
(* reported, and so was every combination another action now takes,        *)
(* besides those no keymap can give away (README.md:122, config.rs:366).   *)
LossesWarned ==
    phase = "resolved" =>
        /\ \A a \in Actions : reverse[a] = {} => a \in unbound
        /\ \A c \in Bound("Lists") : DoesInList(c) = "global" => c \in shadowed
        /\ \A c \in PanelCombos : DoesInPanel(c) = "global" => c \in shadowed \/ c = Separator

(* A key of a panel that a global action takes is warned of, whichever it  *)
(* is: "a Global combo that collides with a hardcoded, non-remappable      *)
(* context's key" (config.rs:370, and keymap.rs:668 of the list compared   *)
(* with, which "can't drift from the docs table").  Not so of the          *)
(* separator, which no row yields: the search of a transcript is lost      *)
(* without a word to an action bound to it.                                *)
PanelLossesWarned ==
    phase = "resolved" =>
        \A c \in PanelCombos : DoesInPanel(c) = "global" => c \in shadowed
=============================================================================
