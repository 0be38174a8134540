-------------------------- MODULE KeyRoutingProofs --------------------------
(***************************************************************************)
(* Proofs about Keymap and KeyRouting for any actions, combinations,       *)
(* default bindings and table.                                             *)
(*                                                                         *)
(* The steps of KeyRouting that are not the keymap's leave it alone, so    *)
(* what is proved of [KeymapNext]_keymapVars holds for Spec.               *)
(***************************************************************************)
EXTENDS KeyRouting, TLAPS

(* Only an entry that has been read says anything.                         *)
FileRead == \A a \in Actions : file[a] # {} => a \in read

(* A group binds its own actions only.                                     *)
OwnGroup ==
    \A g \in Groups, c \in Combos : forward[g][c] \in Actions => Group(forward[g][c]) = g

KeymapInv ==
    /\ KeymapTypeOK
    /\ OwnGroup
    /\ DirectionsAgree
    /\ FileDecides
    /\ FileRead

LEMMA OwnerIs ==
    ASSUME NEW g \in Groups, NEW c \in Combos
    PROVE  /\ Owner(g, c) \in Actions \cup {NoAction}
           /\ \A a \in Actions : Group(a) = g => (Owner(g, c) = a <=> c \in Defaults[a])
           /\ \A a \in Actions : Owner(g, c) = a => Group(a) = g
<1> DEFINE owners == {a \in Actions : Group(a) = g /\ c \in Defaults[a]}
<1>1. CASE owners = {}
  <2>1. Owner(g, c) = NoAction
    BY <1>1 DEF Owner
  <2>2. QED
    BY <1>1, <2>1, KeymapAssumption
<1>2. CASE owners # {}
  <2>1. Owner(g, c) \in owners
    BY <1>2 DEF Owner
  <2>2. \A a, b \in owners : a = b
    BY KeymapAssumption
  <2>3. QED
    BY <2>1, <2>2
<1>3. QED
  BY <1>1, <1>2

LEMMA KeymapStarts == KeymapInit => KeymapInv
<1> SUFFICES ASSUME KeymapInit PROVE KeymapInv
  OBVIOUS
<1> USE DEF KeymapInit
<1>1. \A a \in Actions : Group(a) \in Groups
  BY DEF Group, Groups
<1>2. \A a \in Actions, c \in Combos : forward[Group(a)][c] = a <=> c \in Defaults[a]
  BY <1>1, OwnerIs
<1>3. KeymapTypeOK
  <2>1. forward \in [Groups -> [Combos -> Actions \cup {NoAction}]]
    BY OwnerIs
  <2>2. QED
    BY <2>1, KeymapAssumption DEF KeymapTypeOK
<1>4. DirectionsAgree
  BY <1>2 DEF DirectionsAgree
<1>5. FileDecides
  BY <1>2 DEF FileDecides
<1>6. OwnGroup
  BY OwnerIs DEF OwnGroup
<1>7. QED
  BY <1>3, <1>4, <1>5, <1>6 DEF KeymapInv, FileRead
-----------------------------------------------------------------------------
(* An entry is read after those of a smaller rank, so once.                *)
LEMMA EntryIsLast ==
    ASSUME KeymapInv, NEW a \in Actions, \A b \in read : Rank[b] < Rank[a]
    PROVE  a \notin read /\ file[a] = {}
<1>1. a \notin read
  <2>1. Rank[a] \in Nat
    BY KeymapAssumption
  <2>2. QED
    BY <2>1
<1>2. QED
  BY <1>1 DEF KeymapInv, FileRead

(* What Rebind leaves in the group of a, and in the other one.             *)
LEMMA RebindForwardIs ==
    ASSUME KeymapInv, NEW a \in Actions, NEW combos \in SUBSET Combos, Rebind(a, combos)
    PROVE  /\ forward' \in [Groups -> [Combos -> Actions \cup {NoAction}]]
           /\ \A b \in Actions, c \in Combos :
                IF Group(b) # Group(a) THEN forward'[Group(b)][c] = forward[Group(b)][c]
                ELSE IF c \in combos THEN forward'[Group(b)][c] = a
                ELSE IF b = a THEN forward'[Group(b)][c] # a
                ELSE forward'[Group(b)][c] = b <=> forward[Group(b)][c] = b
<1> USE DEF KeymapInv
<1>1. \A b \in Actions : Group(b) \in Groups
  BY DEF Group, Groups
<1>2. \A c \in Combos : Released(a, c) \in Actions \cup {NoAction}
  BY <1>1 DEF Released, KeymapTypeOK
<1>3. forward' = [forward EXCEPT ![Group(a)] =
                    [c \in Combos |-> IF c \in combos THEN a ELSE Released(a, c)]]
  BY DEF Rebind
<1>4. forward' \in [Groups -> [Combos -> Actions \cup {NoAction}]]
  BY <1>1, <1>2, <1>3 DEF KeymapTypeOK
<1>5. \A g \in Groups : g # Group(a) => forward'[g] = forward[g]
  BY <1>3 DEF KeymapTypeOK
<1>6. \A c \in Combos :
        forward'[Group(a)][c] = IF c \in combos THEN a ELSE Released(a, c)
  BY <1>1, <1>3 DEF KeymapTypeOK
<1>7. \A b \in Actions, c \in Combos :
        Group(b) = Group(a) => (Released(a, c) = b <=> b # a /\ forward[Group(b)][c] = b)
  BY KeymapAssumption DEF Released, DirectionsAgree
<1>8. QED
  BY <1>1, <1>4, <1>5, <1>6, <1>7

LEMMA RebindReverseIs ==
    ASSUME KeymapInv, NEW a \in Actions, NEW combos \in SUBSET Combos, Rebind(a, combos)
    PROVE  /\ reverse' \in [Actions -> SUBSET Combos]
           /\ reverse'[a] = combos
           /\ \A b \in Actions : b # a => reverse'[b] = reverse[b] \ Stolen(a, combos, b)
<1>1. reverse' = [b \in Actions |-> IF b = a THEN combos
                                   ELSE reverse[b] \ Stolen(a, combos, b)]
  BY DEF Rebind
<1>2. QED
  BY <1>1 DEF KeymapInv, KeymapTypeOK

(* What b loses: the combinations of the entry that were its own.          *)
LEMMA StolenIs ==
    ASSUME KeymapInv, NEW a \in Actions, NEW b \in Actions, a # b,
           NEW combos \in SUBSET Combos
    PROVE  /\ Group(b) = Group(a) => Stolen(a, combos, b) = combos \cap reverse[b]
           /\ Group(b) # Group(a) => Stolen(a, combos, b) = {}
<1> USE DEF KeymapInv
<1>1. CASE Group(b) = Group(a)
  <2>1. \A c \in combos : Released(a, c) = b <=> c \in reverse[b]
    BY <1>1, KeymapAssumption DEF Released, DirectionsAgree
  <2>2. reverse[b] \subseteq Combos
    BY DEF KeymapTypeOK
  <2>3. QED
    BY <1>1, <2>1, <2>2 DEF Stolen
<1>2. CASE Group(b) # Group(a)
  <2>1. Group(a) \in Groups
    BY DEF Group, Groups
  <2>2. \A c \in combos : Released(a, c) # b
    BY <1>2, <2>1, KeymapAssumption DEF Released, OwnGroup
  <2>3. QED
    BY <1>2, <2>2 DEF Stolen
<1>3. QED
  BY <1>1, <1>2

LEMMA RebindKeeps ==
    ASSUME KeymapInv, NEW a \in Actions, NEW combos \in SUBSET Combos, combos # {},
           a \notin read, file[a] = {}, \A b \in read : Rank[b] < Rank[a],
           Rebind(a, combos), file' = [file EXCEPT ![a] = combos]
    PROVE  OwnGroup' /\ DirectionsAgree' /\ FileDecides'
<1> USE DEF KeymapInv
<1>1. \A b \in Actions : Group(b) \in Groups
  BY DEF Group, Groups
<1>2. \A b \in Actions : file'[b] = IF b = a THEN combos ELSE file[b]
  BY DEF KeymapTypeOK
<1>3. \A b \in Actions : file[b] # {} => b \in read
  BY DEF FileRead
<1>4. \A b \in Actions : Rank[b] \in Nat
  BY KeymapAssumption
<1>5. OwnGroup'
  <2>1. forward' = [forward EXCEPT ![Group(a)] =
                      [c \in Combos |-> IF c \in combos THEN a ELSE Released(a, c)]]
    BY DEF Rebind
  <2>2. \A c \in Combos :
          forward'[Group(a)][c] \in {a, NoAction, forward[Group(a)][c]}
    BY <1>1, <2>1 DEF KeymapTypeOK, Released
  <2>3. \A g \in Groups : g # Group(a) => forward'[g] = forward[g]
    BY <2>1 DEF KeymapTypeOK
  <2>4. QED
    BY <1>1, <2>2, <2>3, KeymapAssumption DEF OwnGroup
<1>6. DirectionsAgree'
  <2> SUFFICES ASSUME NEW b \in Actions, NEW c \in Combos
               PROVE  c \in reverse'[b] <=> forward'[Group(b)][c] = b
    BY DEF DirectionsAgree
  <2>1. c \in reverse[b] <=> forward[Group(b)][c] = b
    BY DEF DirectionsAgree
  <2>2. CASE b = a
    BY <2>2, RebindForwardIs, RebindReverseIs
  <2>3. CASE b # a /\ Group(b) = Group(a)
    BY <2>1, <2>3, RebindForwardIs, RebindReverseIs, StolenIs
  <2>4. CASE b # a /\ Group(b) # Group(a)
    BY <2>1, <2>4, RebindForwardIs, RebindReverseIs, StolenIs
  <2>5. QED
    BY <2>2, <2>3, <2>4
<1>7. FileDecides'
  <2> SUFFICES ASSUME NEW b \in Actions, NEW c \in Combos
               PROVE  forward'[Group(b)][c] = b <=>
                        \/ /\ c \in file'[b]
                           /\ \A d \in Actions :
                                Group(d) = Group(b) /\ c \in file'[d] => Rank[d] <= Rank[b]
                        \/ /\ c \in Defaults[b] /\ file'[b] = {}
                           /\ \A d \in Actions : Group(d) = Group(b) => c \notin file'[d]
    BY DEF FileDecides
  <2>1. forward[Group(b)][c] = b <=>
          \/ /\ c \in file[b]
             /\ \A d \in Actions :
                  Group(d) = Group(b) /\ c \in file[d] => Rank[d] <= Rank[b]
          \/ /\ c \in Defaults[b] /\ file[b] = {}
             /\ \A d \in Actions : Group(d) = Group(b) => c \notin file[d]
    BY DEF FileDecides
  <2>2. CASE Group(b) # Group(a)
    <3>1. forward'[Group(b)][c] = forward[Group(b)][c]
      BY <2>2, RebindForwardIs
    <3>2. \A d \in Actions : Group(d) = Group(b) => file'[d] = file[d]
      BY <1>2, <2>2
    <3>3. QED
      BY <2>1, <3>1, <3>2
  <2>3. CASE Group(b) = Group(a) /\ c \in combos
    <3>1. forward'[Group(b)][c] = a
      BY <2>3, RebindForwardIs
    <3>2. CASE b = a
      <4>1. \A d \in Actions : c \in file'[d] => d = a \/ Rank[d] < Rank[a]
        BY <1>2, <1>3
      <4>2. c \in file'[b] /\ \A d \in Actions : c \in file'[d] => Rank[d] <= Rank[b]
        BY <1>2, <1>4, <2>3, <3>2, <4>1
      <4>3. QED
        BY <3>1, <3>2, <4>2
    <3>3. CASE b # a
      <4>1. c \in file'[a]
        BY <1>2, <2>3
      <4>2. c \in file'[b] => Rank[b] < Rank[a]
        BY <1>2, <1>3, <3>3
      <4>3. ~(c \in file'[b] /\ Rank[a] <= Rank[b])
        BY <1>4, <4>2
      <4>4. QED
        BY <2>3, <3>1, <3>3, <4>1, <4>3
    <3>4. QED
      BY <3>2, <3>3
  <2>4. CASE Group(b) = Group(a) /\ c \notin combos
    <3>1. CASE b = a
      BY <1>2, <2>4, <3>1, RebindForwardIs
    <3>2. CASE b # a
      <4>1. forward'[Group(b)][c] = b <=> forward[Group(b)][c] = b
        BY <2>4, <3>2, RebindForwardIs
      <4>2. \A d \in Actions : c \in file'[d] <=> c \in file[d]
        BY <1>2, <2>4
      <4>3. file'[b] = file[b]
        BY <1>2, <3>2
      <4>4. QED
        BY <2>1, <4>1, <4>2, <4>3
    <3>3. QED
      BY <3>1, <3>2
  <2>5. QED
    BY <2>2, <2>3, <2>4
<1>8. QED
  BY <1>5, <1>6, <1>7
-----------------------------------------------------------------------------
LEMMA EntryKeeps ==
    ASSUME KeymapInv, NEW a \in Actions, NEW combos \in Entries, NEW whole \in BOOLEAN,
           Entry(a, combos, whole)
    PROVE  KeymapInv'
<1>1. combos \in SUBSET Combos
  BY DEF Entries
<1>2. a \notin read /\ file[a] = {} /\ \A b \in read : Rank[b] < Rank[a]
  BY EntryIsLast DEF Entry
<1>3. read' = read \cup {a} /\ file' = [file EXCEPT ![a] = combos]
  BY DEF Entry
<1>4. FileRead'
  BY <1>3 DEF KeymapInv, KeymapTypeOK, FileRead
<1>5. CASE combos = {}
  <2>1. UNCHANGED <<forward, reverse, unbound>>
    BY <1>5 DEF Entry, maps
  <2>2. file' = file
    BY <1>2, <1>3, <1>5 DEF KeymapInv, KeymapTypeOK
  <2>3. KeymapTypeOK'
    BY <1>3, <2>1, <2>2 DEF KeymapInv, KeymapTypeOK, Entry
  <2>4. OwnGroup' /\ DirectionsAgree' /\ FileDecides'
    BY <2>1, <2>2 DEF KeymapInv, OwnGroup, DirectionsAgree, FileDecides
  <2>5. QED
    BY <1>4, <2>3, <2>4 DEF KeymapInv
<1>6. CASE combos # {}
  <2>1. Rebind(a, combos)
    BY <1>6 DEF Entry
  <2>2. KeymapTypeOK'
    <3>1. forward' \in [Groups -> [Combos -> Actions \cup {NoAction}]]
      BY <1>1, <2>1, RebindForwardIs
    <3>2. reverse' \in [Actions -> SUBSET Combos]
      BY <1>1, <2>1, RebindReverseIs
    <3>3. unbound' \subseteq Actions
      BY <2>1 DEF Rebind, Victims, KeymapInv, KeymapTypeOK
    <3>4. QED
      BY <1>1, <1>3, <3>1, <3>2, <3>3 DEF KeymapInv, KeymapTypeOK, Entry
  <2>3. OwnGroup' /\ DirectionsAgree' /\ FileDecides'
    BY <1>1, <1>2, <1>3, <1>6, <2>1, RebindKeeps
  <2>4. QED
    BY <1>4, <2>2, <2>3 DEF KeymapInv
<1>7. QED
  BY <1>5, <1>6

LEMMA KeymapKeeps == KeymapInv /\ [KeymapNext]_keymapVars => KeymapInv'
<1> SUFFICES ASSUME KeymapInv, [KeymapNext]_keymapVars PROVE KeymapInv'
  OBVIOUS
<1>1. ASSUME UNCHANGED <<forward, reverse, read, file>>,
             unbound' = unbound, flawed' \subseteq Actions \cup {NoAction},
             shadowed' \subseteq Combos, phase' \in {"file", "resolved"}
      PROVE  KeymapInv'
  BY <1>1 DEF KeymapInv, KeymapTypeOK, OwnGroup, DirectionsAgree, FileDecides, FileRead
<1>2. CASE UnknownEntry
  BY <1>1, <1>2 DEF UnknownEntry, maps, KeymapInv, KeymapTypeOK
<1>3. CASE Resolve
  <2>1. Collisions \subseteq Combos
    BY DEF Collisions, Bound
  <2>2. QED
    BY <1>1, <1>3, <2>1 DEF Resolve, maps, KeymapInv, KeymapTypeOK
<1>4. CASE UNCHANGED keymapVars
  BY <1>1, <1>4 DEF keymapVars, maps, warnings, KeymapInv, KeymapTypeOK
<1>5. QED
  BY <1>2, <1>3, <1>4, EntryKeeps DEF KeymapNext

(* Steps of Spec are those of the keymap or leave it alone.                *)
LEMMA SpecIsKeymap == [Next]_vars => [KeymapNext]_keymapVars
BY DEF Next, vars

LEMMA KeymapInvariant == Spec => []KeymapInv
<1>1. Init => KeymapInv
  BY KeymapStarts DEF Init
<1>2. KeymapInv /\ [Next]_vars => KeymapInv'
  BY SpecIsKeymap, KeymapKeeps
<1>3. QED
  BY <1>1, <1>2, PTL DEF Spec

(* A combination belongs to the last entry of its group that names it, or  *)
(* to its default action where none does and that has no entry of its own, *)
(* for every table (Keymap::rebind, resolve_keymap).                       *)
THEOREM TableIsObeyed == Spec => []FileDecides
<1>1. KeymapInv => FileDecides
  BY DEF KeymapInv
<1>2. QED
  BY <1>1, KeymapInvariant, PTL

(* What the help shows of an action is what dispatch acts on.              *)
THEOREM HelpIsTrue == Spec => []DirectionsAgree
<1>1. KeymapInv => DirectionsAgree
  BY DEF KeymapInv
<1>2. QED
  BY <1>1, KeymapInvariant, PTL

-----------------------------------------------------------------------------
(* An action without a key was reported; the collisions are those of the   *)
(* keymap that was read.                                                   *)
UnboundTold == \A a \in Actions : reverse[a] = {} => a \in unbound
CollisionsTold == phase = "resolved" => shadowed = Collisions

LEMMA EntryTells ==
    ASSUME KeymapInv, UnboundTold, NEW a \in Actions, NEW combos \in Entries,
           NEW whole \in BOOLEAN, Entry(a, combos, whole)
    PROVE  UnboundTold'
<1>1. CASE combos = {}
  BY <1>1 DEF Entry, maps, UnboundTold
<1>2. CASE combos # {}
  <2>1. Rebind(a, combos) /\ combos \in SUBSET Combos
    BY <1>2 DEF Entry, Entries
  <2> SUFFICES ASSUME NEW b \in Actions, reverse'[b] = {} PROVE b \in unbound'
    BY DEF UnboundTold
  <2>2. b # a /\ reverse[b] \subseteq Stolen(a, combos, b)
    BY <1>2, <2>1, RebindReverseIs
  <2>3. unbound' = unbound \cup
          {v \in Victims(a, combos) : reverse[v] \subseteq Stolen(a, combos, v)}
    BY <2>1 DEF Rebind
  <2>4. CASE reverse[b] = {}
    BY <2>3, <2>4 DEF UnboundTold
  <2>5. CASE reverse[b] # {}
    <3>1. b \in Victims(a, combos)
      BY <2>2, <2>5 DEF Victims
    <3>2. QED
      BY <2>2, <2>3, <3>1
  <2>6. QED
    BY <2>4, <2>5
<1>3. QED
  BY <1>1, <1>2

LEMMA CollisionsAreLosses ==
    ASSUME KeymapInv, UnboundTold, CollisionsTold
    PROVE  LossesWarned
<1> SUFFICES ASSUME phase = "resolved" PROVE LossesWarned
  BY DEF LossesWarned
<1>1. shadowed = Collisions
  BY DEF CollisionsTold
<1>2. \A c : DoesInList(c) = "global" => forward["Global"][c] # NoAction
  BY DEF DoesInList
<1>3. \A c : DoesInPanel(c) = "global" => DoesInList(c) = "global"
  BY DEF DoesInPanel
<1>4. \A c \in Bound("Lists") : DoesInList(c) = "global" => c \in shadowed
  BY <1>1, <1>2 DEF Collisions, Bound
<1>5. \A c \in PanelCombos \ {Separator} : c \in Combos /\ c \in Reserved /\ c \notin DefaultGlobal
  BY KeymapAssumption DEF Reserved, Parsed
<1>6. \A c \in PanelCombos : DoesInPanel(c) = "global" => c \in shadowed \/ c = Separator
  BY <1>1, <1>2, <1>3, <1>5 DEF Collisions, Bound
<1>7. QED
  BY <1>4, <1>6 DEF LossesWarned, UnboundTold

(* No action and no key of a list is lost in silence, and none of a panel  *)
(* but the one its rows cannot be read for, whatever the table says        *)
(* (rebind's "left unbound", warn_new_collisions, parse_display_tokens).   *)
THEOREM LossesAreTold == Spec => []LossesWarned
<1> DEFINE Told == KeymapInv /\ UnboundTold /\ CollisionsTold
<1>1. Init => Told
  <2> SUFFICES ASSUME Init PROVE Told
    OBVIOUS
  <2>1. KeymapInv
    BY KeymapStarts DEF Init
  <2>2. UnboundTold /\ CollisionsTold
    BY KeymapAssumption DEF Init, KeymapInit, UnboundTold, CollisionsTold
  <2>3. QED
    BY <2>1, <2>2
<1>2. Told /\ [Next]_vars => Told'
  <2> SUFFICES ASSUME Told, [Next]_vars PROVE Told'
    OBVIOUS
  <2>1. [KeymapNext]_keymapVars
    BY SpecIsKeymap
  <2>2. KeymapInv'
    BY <2>1, KeymapKeeps
  <2> SUFFICES UnboundTold' /\ CollisionsTold'
    BY <2>2
  <2>3. ASSUME NEW a \in Actions, NEW combos \in Entries, NEW whole \in BOOLEAN,
               Entry(a, combos, whole)
        PROVE  UnboundTold' /\ CollisionsTold'
    <3>1. UnboundTold'
      BY <2>3, EntryTells
    <3>2. CollisionsTold'
      BY <2>3 DEF Entry, CollisionsTold
    <3>3. QED
      BY <3>1, <3>2
  <2>4. CASE UnknownEntry
    BY <2>4 DEF UnknownEntry, maps, UnboundTold, CollisionsTold
  <2>5. CASE Resolve
    BY <2>5 DEF Resolve, maps, UnboundTold, CollisionsTold, Collisions, Bound
  <2>6. CASE UNCHANGED keymapVars
    BY <2>6 DEF keymapVars, maps, warnings, UnboundTold, CollisionsTold, Collisions, Bound
  <2>7. QED
    BY <2>1, <2>3, <2>4, <2>5, <2>6 DEF KeymapNext
<1>3. Told => LossesWarned
  BY CollisionsAreLosses
<1>4. QED
  BY <1>1, <1>2, <1>3, PTL DEF Spec
-----------------------------------------------------------------------------
RoutingTypes ==
    /\ mode \in Modes
    /\ {window, size} \subseteq {"wide", "compact", "small"} /\ resizes \in 0..MaxResizes
    /\ {resized, running} \subseteq BOOLEAN
    /\ focus \in Panels /\ detail \in {"none", "session", "run"}
    /\ overlay \in Overlays \cup {"none"} /\ candidate \in BOOLEAN
    /\ confirms \subseteq Confirms /\ fields \subseteq Fields
    /\ awaited \subseteq {"clarify", "run", "boot"}

(* What waits for a key belongs to the panel with the focus and to what it *)
(* shows, and nothing waits below the palette, from which the focus moves. *)
Belongs ==
    /\ "row" \in confirms => focus = "attention"
    /\ {"chooser", "cancel"} \cap confirms # {} => focus = "detail" /\ detail = "session"
    /\ {"search", "composer"} \cap fields # {} => focus = "detail" /\ detail = "session"
    /\ "session_filter" \in fields => focus = "sessions"
    /\ "run_filter" \in fields => focus = "runs"
    /\ overlay = "palette" => confirms = {} /\ fields = {}

RoutingInv == RoutingTypes /\ Belongs

LEMMA FirstConfirm ==
    ASSUME confirms \subseteq Confirms, confirms # {}
    PROVE  FirstOf(confirms, <<"row", "card", "chooser", "cancel", "kill">>) \in confirms
<1> DEFINE order == <<"row", "card", "chooser", "cancel", "kill">>
           First(i) == order[i] \in confirms
                         /\ \A j \in DOMAIN order : order[j] \in confirms => i <= j
<1>1. DOMAIN order = 1..5
  OBVIOUS
<1>2. \E i \in 1..5 : order[i] \in confirms
  <2>1. /\ order[1] = "row" /\ order[2] = "card" /\ order[3] = "chooser"
        /\ order[4] = "cancel" /\ order[5] = "kill"
    OBVIOUS
  <2> HIDE DEF order
  <2>2. PICK c \in Confirms : c \in confirms
    OBVIOUS
  <2>3. 1 \in 1..5 /\ 2 \in 1..5 /\ 3 \in 1..5 /\ 4 \in 1..5 /\ 5 \in 1..5
    OBVIOUS
  <2>4. QED
    BY <2>1, <2>2, <2>3 DEF Confirms
<1>3. \E i \in 1..5 : First(i)
  <2>1. \A j \in 1..5 : j = 1 \/ j = 2 \/ j = 3 \/ j = 4 \/ j = 5
    OBVIOUS
  <2> HIDE DEF order
  <2>2. QED
    BY <1>1, <1>2, <2>1
<1> DEFINE first == CHOOSE i \in DOMAIN order : First(i)
<1>4. First(first)
  <2> HIDE DEF order, First
  <2>1. QED
    BY <1>1, <1>3
<1>5. FirstOf(confirms, order) = order[first]
  BY DEF FirstOf
<1> HIDE DEF first
<1>6. order[first] \in confirms
  BY <1>4
<1>7. QED
  BY <1>5, <1>6

LEMMA FirstField ==
    ASSUME fields \subseteq Fields, fields # {}
    PROVE  FirstOf(fields, <<"search", "session_filter", "run_filter", "composer">>) \in fields
<1> DEFINE order == <<"search", "session_filter", "run_filter", "composer">>
           First(i) == order[i] \in fields
                         /\ \A j \in DOMAIN order : order[j] \in fields => i <= j
<1>1. DOMAIN order = 1..4
  OBVIOUS
<1>2. \E i \in 1..4 : order[i] \in fields
  <2>1. /\ order[1] = "search" /\ order[2] = "session_filter"
        /\ order[3] = "run_filter" /\ order[4] = "composer"
    OBVIOUS
  <2> HIDE DEF order
  <2>2. PICK f \in Fields : f \in fields
    OBVIOUS
  <2>3. 1 \in 1..4 /\ 2 \in 1..4 /\ 3 \in 1..4 /\ 4 \in 1..4
    OBVIOUS
  <2>4. QED
    BY <2>1, <2>2, <2>3 DEF Fields
<1>3. \E i \in 1..4 : First(i)
  <2>1. \A j \in 1..4 : j = 1 \/ j = 2 \/ j = 3 \/ j = 4
    OBVIOUS
  <2> HIDE DEF order
  <2>2. QED
    BY <1>1, <1>2, <2>1
<1> DEFINE first == CHOOSE i \in DOMAIN order : First(i)
<1>4. First(first)
  <2> HIDE DEF order, First
  <2>1. QED
    BY <1>1, <1>3
<1>5. FirstOf(fields, order) = order[first]
  BY DEF FirstOf
<1> HIDE DEF first
<1>6. order[first] \in fields
  BY <1>4
<1>7. QED
  BY <1>5, <1>6

(* What Taker can be, with FirstOf out of the way.                         *)
LEMMA TakerIs ==
    ASSUME RoutingTypes
    PROVE  \/ size = "small" /\ Taker = "small"
           \/ size # "small" /\ overlay # "none" /\ Taker = overlay
           \/ size # "small" /\ overlay = "none" /\ Taker \in confirms
           \/ size # "small" /\ overlay = "none" /\ confirms = {} /\ Taker \in fields
           \/ size # "small" /\ overlay = "none" /\ confirms = {} /\ fields = {}
                /\ Taker = focus
<1> USE DEF RoutingTypes
<1>1. CASE size = "small"
  BY <1>1 DEF Taker
<1>2. CASE size # "small" /\ overlay # "none"
  BY <1>2 DEF Taker
<1>3. CASE size # "small" /\ overlay = "none" /\ confirms # {}
  <2>1. Taker = FirstOf(confirms, <<"row", "card", "chooser", "cancel", "kill">>)
    BY <1>3 DEF Taker
  <2>2. QED
    BY <1>3, <2>1, FirstConfirm
<1>4. CASE size # "small" /\ overlay = "none" /\ confirms = {} /\ fields # {}
  <2>1. Taker = FirstOf(fields, <<"search", "session_filter", "run_filter", "composer">>)
    BY <1>4 DEF Taker
  <2>2. QED
    BY <1>4, <2>1, FirstField
<1>5. CASE size # "small" /\ overlay = "none" /\ confirms = {} /\ fields = {}
  BY <1>5 DEF Taker
<1>6. QED
  BY <1>1, <1>2, <1>3, <1>4, <1>5

LEMMA PanelTakes ==
    ASSUME RoutingTypes, Taker \in Panels
    PROVE  overlay = "none" /\ confirms = {} /\ fields = {} /\ Taker = focus
<1>1. Taker \notin Overlays /\ Taker \notin Confirms /\ Taker \notin Fields /\ Taker # "small"
  BY DEF Panels, Lists, Overlays, Confirms, Fields
<1>2. QED
  BY <1>1, TakerIs DEF RoutingTypes

LEMMA OthersTake ==
    ASSUME RoutingTypes
    PROVE  /\ Taker \in Overlays => Taker = overlay
           /\ Taker \in Confirms => Taker \in confirms /\ overlay = "none"
           /\ Taker \in Fields => Taker \in fields /\ confirms = {} /\ overlay = "none"
<1>1. Overlays \cap Confirms = {} /\ Overlays \cap Fields = {} /\ Confirms \cap Fields = {}
  BY DEF Overlays, Confirms, Fields
<1>2. Panels \cap (Overlays \cup Confirms \cup Fields) = {}
  BY DEF Panels, Lists, Overlays, Confirms, Fields
<1>3. "small" \notin Overlays \cup Confirms \cup Fields
  BY DEF Overlays, Confirms, Fields
<1>4. QED
  BY <1>1, <1>2, <1>3, TakerIs DEF RoutingTypes

(* A step that only shows or hides an overlay other than the palette.      *)
LEMMA ShowKeeps ==
    ASSUME RoutingInv, NEW o \in (Overlays \cup {"none"}) \ {"palette"}, Show(o)
    PROVE  RoutingInv'
BY DEF RoutingInv, RoutingTypes, Belongs, Show, Still, Only, screen, terminalVars, panels

LEMMA QuitKeeps ==
    ASSUME RoutingInv, Quit
    PROVE  RoutingInv'
BY DEF RoutingInv, RoutingTypes, Belongs, Quit, Only, screen, terminalVars, panels, modals

(* Nothing waits where a detail is opened.                                 *)
LEMMA OpenKeeps ==
    ASSUME RoutingInv, Taker \in Panels, NEW what \in {"session", "run"}, OpenDetail(what),
           overlay' \in {overlay, "none", "clarify"}
    PROVE  RoutingInv'
<1>1. overlay = "none" /\ confirms = {} /\ fields = {}
  BY PanelTakes DEF RoutingInv
<1>2. confirms' = {} /\ fields' = {} /\ overlay' \in {"none", "clarify"}
  BY <1>1 DEF OpenDetail
<1>3. QED
  BY <1>2 DEF RoutingInv, RoutingTypes, Belongs, OpenDetail, Only, screen, terminalVars,
       Panels, Overlays

LEMMA FreshKeeps ==
    ASSUME RoutingInv, NEW o \in {"none", "onboarding"}, Fresh(o)
    PROVE  RoutingInv'
<1>1. candidate' \in BOOLEAN
  BY DEF Fresh
<1>2. QED
  BY <1>1 DEF RoutingInv, RoutingTypes, Belongs, Fresh, Only, Panels, Lists, Overlays

LEMMA SettleKeeps ==
    ASSUME RoutingInv, NEW settled \in SUBSET Confirms, Settle(settled)
    PROVE  RoutingInv'
BY DEF RoutingInv, RoutingTypes, Belongs, Settle, Still, Only, screen, terminalVars, panels

(* Keys.                                                                   *)
LEMMA EarlyKeysKeep ==
    ASSUME RoutingInv, CtrlC \/ QuitSmall \/ F1 \/ CtrlX
    PROVE  RoutingInv'
<1>1. CASE CtrlC \/ QuitSmall
  BY <1>1, QuitKeeps DEF CtrlC, QuitSmall
<1>2. CASE F1
  BY <1>2, ShowKeeps DEF F1, Overlays
<1>3. CASE CtrlX
  BY <1>3 DEF CtrlX, Ask, RoutingInv, RoutingTypes, Belongs, Confirms, Still, Only, screen,
       terminalVars, panels
<1>4. QED
  BY <1>1, <1>2, <1>3

LEMMA OverlayKeysKeep ==
    ASSUME RoutingInv,
           CloseOverlay \/ AnswerClarification \/ PaletteEntry \/ LeavePicker \/ Switch
             \/ OnboardingKey
    PROVE  RoutingInv'
<1>1. CASE CloseOverlay
  BY <1>1, ShowKeeps DEF CloseOverlay
<1>2. CASE AnswerClarification
  BY <1>2 DEF AnswerClarification, RoutingInv, RoutingTypes, Belongs, Only, screen,
       terminalVars, panels, modals
<1>3. CASE PaletteEntry
  <2>1. overlay = "palette" /\ confirms = {} /\ fields = {}
    BY <1>3, OthersTake DEF PaletteEntry, Pressed, RoutingInv, Belongs, Overlays
  <2>2. ASSUME focus' \in Panels, overlay' = "none", Still,
               Only(<<detail, candidate, confirms, fields>>)
        PROVE  RoutingInv'
    BY <2>1, <2>2 DEF RoutingInv, RoutingTypes, Belongs, Still, Only, screen, terminalVars
  <2>3. QED
    BY <1>3, <2>2, ShowKeeps, QuitKeeps DEF PaletteEntry, Overlays
<1>4. CASE LeavePicker
  <2>1. ASSUME Show(IF candidate THEN "onboarding" ELSE "none") PROVE RoutingInv'
    BY <2>1, ShowKeeps DEF Overlays
  <2>2. QED
    BY <1>4, <2>1, QuitKeeps DEF LeavePicker
<1>5. CASE Switch
  BY <1>5, FreshKeeps DEF Switch
<1>6. CASE OnboardingKey
  BY <1>6, ShowKeeps, QuitKeeps DEF OnboardingKey, Overlays
<1>7. QED
  BY <1>1, <1>2, <1>3, <1>4, <1>5, <1>6

LEMMA ModalKeysKeep ==
    ASSUME RoutingInv, AnswerConfirm \/ ChooseMode \/ Chosen \/ Send \/ LeaveField
    PROVE  RoutingInv'
<1> USE DEF Pressed
<1>1. CASE AnswerConfirm
  <2>1. PICK c \in Confirms : Settle({c}) \/ Settle({"row", "card"})
    BY <1>1 DEF AnswerConfirm
  <2>2. {c} \in SUBSET Confirms /\ {"row", "card"} \in SUBSET Confirms
    BY DEF Confirms
  <2>3. QED
    BY <2>1, <2>2, SettleKeeps
<1>2. Taker = "composer" => focus = "detail" /\ detail = "session" /\ overlay = "none"
  BY OthersTake DEF RoutingInv, Belongs, Fields
<1>3. Taker = "chooser" => focus = "detail"
  BY OthersTake DEF RoutingInv, Belongs, Confirms
<1>4. CASE ChooseMode
  BY <1>2, <1>4 DEF ChooseMode, Ask, RoutingInv, RoutingTypes, Belongs, Confirms, Still, Only,
       screen, terminalVars, panels
<1>5. CASE Chosen
  <2>1. focus' = focus
    BY <1>3, <1>5 DEF Chosen
  <2>2. QED
    BY <1>5, <2>1 DEF Chosen, RoutingInv, RoutingTypes, Belongs, Still, Only, screen,
         terminalVars
<1>6. CASE Send
  <2>1. focus' = focus
    BY <1>2, <1>6 DEF Send
  <2>2. QED
    BY <1>6, <2>1 DEF Send, RoutingInv, RoutingTypes, Belongs, Still, Only, screen,
         terminalVars, modals
<1>7. CASE LeaveField
  BY <1>7 DEF LeaveField, Leave, RoutingInv, RoutingTypes, Belongs, Still, Only, screen,
       terminalVars, panels
<1>8. QED
  BY <1>1, <1>4, <1>5, <1>6, <1>7

LEMMA PanelKeysKeep ==
    ASSUME RoutingInv, GlobalKey \/ ListKey \/ AttentionKey \/ SessionKey \/ RunKey
    PROVE  RoutingInv'
<1>1. Taker \in Panels => /\ overlay = "none" /\ confirms = {} /\ fields = {}
                          /\ Taker = focus
  BY PanelTakes DEF RoutingInv
<1>2. CASE GlobalKey
  <2>1. confirms = {} /\ fields = {}
    BY <1>1, <1>2 DEF GlobalKey, InPanel
  <2>2. ASSUME focus' \in Panels, Still, Only(<<detail, modals>>) PROVE RoutingInv'
    BY <2>1, <2>2 DEF RoutingInv, RoutingTypes, Belongs, Still, Only, screen, terminalVars,
         modals
  <2>3. ASSUME Show("palette") PROVE RoutingInv'
    BY <2>1, <2>3 DEF RoutingInv, RoutingTypes, Belongs, Show, Still, Only, screen,
         terminalVars, panels, Overlays
  <2>4. QED
    BY <1>2, <2>2, <2>3, ShowKeeps, QuitKeeps DEF GlobalKey, Overlays
<1>3. CASE ListKey
  <2>1. PICK list \in Lists :
          /\ Taker = list
          /\ \/ Type(Filter(list))
             \/ /\ OpenDetail(IF list = "sessions" THEN "session" ELSE "run")
                /\ UNCHANGED overlay
    BY <1>3 DEF ListKey, Pressed
  <2>2. list \in Panels /\ (list = "sessions" \/ list = "runs")
    BY DEF Panels, Lists
  <2>3. CASE Type(Filter(list))
    <3>1. confirms = {} /\ fields = {} /\ focus = list /\ overlay = "none"
      BY <1>1, <2>1, <2>2
    <3>2. QED
      BY <2>2, <2>3, <3>1 DEF Type, Filter, RoutingInv, RoutingTypes, Belongs, Fields, Still,
           Only, screen, terminalVars, panels
  <2>4. CASE OpenDetail(IF list = "sessions" THEN "session" ELSE "run") /\ UNCHANGED overlay
    BY <2>1, <2>2, <2>4, OpenKeeps
  <2>5. QED
    BY <2>1, <2>3, <2>4
<1>4. CASE AttentionKey
  <2>1. "attention" \in Panels /\ Taker = "attention"
    BY <1>4 DEF AttentionKey, Pressed, Panels
  <2>2. ASSUME Ask("row") PROVE RoutingInv'
    <3>1. confirms = {} /\ focus = "attention" /\ overlay = "none"
      BY <1>1, <2>1
    <3>2. QED
      BY <2>2, <3>1 DEF Ask, RoutingInv, RoutingTypes, Belongs, Confirms, Still, Only, screen,
           terminalVars, panels
  <2>3. ASSUME NEW what \in {"session", "run"}, OpenDetail(what),
               overlay' \in {overlay, "none", "clarify"}
        PROVE  RoutingInv'
    BY <2>1, <2>3, OpenKeeps
  <2>4. QED
    BY <1>4, <2>2, <2>3 DEF AttentionKey
<1>5. CASE SessionKey
  <2>1. focus = "detail" /\ detail = "session" /\ overlay = "none"
    BY <1>1, <1>5 DEF SessionKey, Pressed, Panels
  <2>2. ASSUME Ask("card") PROVE RoutingInv'
    BY <2>1, <2>2 DEF Ask, RoutingInv, RoutingTypes, Belongs, Confirms, Still, Only, screen,
         terminalVars, panels
  <2>3. ASSUME NEW field \in {"composer", "search"}, Type(field) PROVE RoutingInv'
    BY <2>1, <2>3 DEF Type, RoutingInv, RoutingTypes, Belongs, Fields, Still, Only, screen,
         terminalVars, panels
  <2>4. QED
    BY <1>5, <2>2, <2>3 DEF SessionKey
<1>6. CASE RunKey
  <2>1. Taker \in Panels /\ overlay = "none"
    BY <1>1, <1>6 DEF RunKey, Pressed, Panels
  <2>2. ASSUME Ask("kill") PROVE RoutingInv'
    BY <2>1, <2>2 DEF Ask, RoutingInv, RoutingTypes, Belongs, Confirms, Still, Only, screen,
         terminalVars, panels
  <2>3. ASSUME NEW what \in {"session", "run"}, OpenDetail(what), UNCHANGED overlay
        PROVE  RoutingInv'
    BY <2>1, <2>3, OpenKeeps
  <2>4. QED
    BY <1>6, <2>2, <2>3 DEF RunKey
<1>7. QED
  BY <1>2, <1>3, <1>4, <1>5, <1>6

LEMMA AnswersKeep ==
    ASSUME RoutingInv,
           ClarificationAnswered \/ BootEnds \/ CandidateSwitch \/ RunGone \/ Window
             \/ Resize
    PROVE  RoutingInv'
<1> USE DEF RoutingInv, RoutingTypes, Belongs, Only, screen, terminalVars, panels, modals
<1>1. CASE ClarificationAnswered
  BY <1>1 DEF ClarificationAnswered
<1>2. CASE BootEnds
  BY <1>2 DEF BootEnds, Overlays
<1>3. CASE CandidateSwitch
  BY <1>3, FreshKeeps DEF CandidateSwitch
<1>4. CASE RunGone
  <2>1. confirms' = confirms \ OfDetail /\ fields' = fields \ {"search", "composer"}
    BY <1>4 DEF RunGone
  <2>2. QED
    BY <1>4, <2>1 DEF RunGone, OfDetail
<1>5. CASE Window
  BY <1>5, RoutingAssumption DEF Window
<1>6. CASE Resize
  BY <1>6 DEF Resize
<1>7. QED
  BY <1>1, <1>2, <1>3, <1>4, <1>5, <1>6

LEMMA RoutingKeeps == RoutingInv /\ [Next]_vars => RoutingInv'
<1> SUFFICES ASSUME RoutingInv, [Next]_vars PROVE RoutingInv'
  OBVIOUS
<1>1. CASE RoutingNext
  BY <1>1, EarlyKeysKeep, OverlayKeysKeep, ModalKeysKeep, PanelKeysKeep, AnswersKeep
     DEF RoutingNext
<1>2. CASE UNCHANGED routingVars
  BY <1>2 DEF routingVars, RoutingInv, RoutingTypes, Belongs, screen, terminalVars, panels,
       modals
<1>3. QED
  BY <1>1, <1>2 DEF Next, vars

LEMMA RoutingInvariant == Spec => []RoutingInv
<1>1. Init => RoutingInv
  <2> SUFFICES ASSUME Init PROVE RoutingInv
    OBVIOUS
  <2>1. /\ candidate \in BOOLEAN /\ overlay \in {"none", "onboarding", "picker"}
        /\ focus \in {"sessions", "detail"} /\ detail \in {"none", "session"}
    BY DEF Init
  <2>2. resizes \in 0..MaxResizes
    BY RoutingAssumption DEF Init
  <2>3. QED
    BY <2>1, <2>2 DEF Init, RoutingInv, RoutingTypes, Belongs, Panels, Lists, Overlays
<1>2. QED
  BY <1>1, RoutingKeeps, PTL DEF Spec

(* The keymap and the focus are of their types, for any table and window.  *)
THEOREM TypeCorrect == Spec => []TypeOK
<1>1. KeymapInv /\ RoutingInv => TypeOK
  BY DEF KeymapInv, RoutingInv, RoutingTypes, TypeOK
<1>2. QED
  BY <1>1, KeymapInvariant, RoutingInvariant, PTL

(* What takes the keys is drawn: nothing is asked for in a panel the focus *)
(* has left, nor of a detail that is gone (keys.rs, views).                *)
THEOREM KeysGoWhereTheEyeIs == Spec => []TakerOnScreen
<1>1. RoutingInv => TakerOnScreen
  <2> SUFFICES ASSUME RoutingInv, mode = "full", size = window, Taker \notin {"kill", "card"}
               PROVE  OnScreen(Taker)
    BY DEF TakerOnScreen
  <2> USE DEF RoutingInv
  <2>1. CASE Taker = "small"
    <3>1. size = "small"
      BY <2>1, TakerIs DEF RoutingTypes, Overlays, Confirms, Fields, Panels, Lists
    <3>2. QED
      BY <2>1, <3>1 DEF OnScreen, Overlays
  <2>2. CASE Taker # "small"
    <3>1. window # "small" /\ window \in {"wide", "compact", "small"}
      BY <2>2, TakerIs DEF RoutingTypes
    <3>2. CASE Taker \in Overlays
      BY <3>1, <3>2 DEF OnScreen, Overlays
    <3>3. CASE Taker \in Confirms
      <4>1. Taker \in confirms /\ Taker \in {"row", "chooser", "cancel"}
        BY <3>3, OthersTake DEF Confirms
      <4>2. QED
        BY <3>1, <4>1 DEF OnScreen, Overlays, Drawn, InDetail, Belongs
    <3>4. CASE Taker \in Fields
      <4>1. Taker \in fields
        BY <3>4, OthersTake
      <4>2. QED
        BY <3>1, <3>4, <4>1 DEF OnScreen, Overlays, Fields, Drawn, InDetail, Belongs
    <3>5. CASE Taker \in Panels
      BY <3>1, <3>5, PanelTakes DEF OnScreen, Overlays, Panels, Lists, Drawn
    <3>6. QED
      BY <2>2, <3>2, <3>3, <3>4, <3>5, TakerIs DEF RoutingTypes
  <2>3. QED
    BY <2>1, <2>2
<1>2. QED
  BY <1>1, RoutingInvariant, PTL
=============================================================================
