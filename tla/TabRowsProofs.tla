---------------------------- MODULE TabRowsProofs ----------------------------
(***************************************************************************)
(* What each operation of TabRows keeps of a Space's tabs, for any tabs,   *)
(* rows and Folders: the rows list the tabs, the splits are whole, the     *)
(* Folders hold rows, and pins, Folders and loose tabs stand in order.     *)
(* BrowserTabsProofs takes the actions from there.                         *)
(***************************************************************************)
EXTENDS RowLemmas

\* Ids in a view: a blank tab that could not be given an id has None.
Id == Tab \cup {None}

\* What a tab in a window of its own is not: a half of a split.
Records == {r \in TabRecords : r.popped => r.partner = None}

FolderRecords == [tabs : Seq(Tab), collapsed : BOOLEAN]

\* The fields of a view and what they hold.
Described(v) ==
  /\ v = [rows |-> v.rows, tab |-> v.tab, active |-> v.active, folders |-> v.folders,
          closed |-> v.closed, away |-> v.away]
  /\ v.tab \in [DOMAIN v.tab -> Records]
  /\ DOMAIN v.tab \subseteq Id
  /\ v.folders \in Seq(FolderRecords)
  /\ v.closed \in 0 .. MaxClosed /\ v.away \in Nat

\* The rows list the tabs, each once.
Listed(v) == Described(v) /\ Lists(v.rows, DOMAIN v.tab)

\* t is in no split, or in one whose halves name each other.
WholeSplit(v, t) ==
  LET p == v.tab[t].partner
  IN  p # None => /\ t # None /\ p # t /\ Has(v, p)
                  /\ v.tab[p].partner = t
                  /\ ~v.tab[t].pinned
                  /\ v.tab[t].focused # v.tab[p].focused

Paired(v) == \A t \in DOMAIN v.tab : WholeSplit(v, t)

InFolder(v, f) == ToSet(v.folders[f].tabs)

\* The Folders hold unpinned tabs that are there, a split in one Folder, and no
\* tab twice.
Filed(v) ==
  \A f \in DOMAIN v.folders :
    /\ Once(v.folders[f].tabs)
    /\ \A t \in InFolder(v, f) :
         /\ Has(v, t) /\ ~v.tab[t].pinned
         /\ v.tab[t].partner # None => v.tab[t].partner \in InFolder(v, f)
    /\ \A g \in DOMAIN v.folders : g # f => InFolder(v, f) \cap InFolder(v, g) = {}

\* The pins, the Folders' tabs and the loose tabs, in this order.
Sorted(v) == v.rows = (Pins(v) \o HeldRows(v)) \o Loose(v)

Body(v) == Listed(v) /\ Paired(v) /\ Filed(v) /\ Sorted(v)
Live(v) == Body(v) /\ v.active \in DOMAIN v.tab \cup {None}

-----------------------------------------------------------------------------
(* Folders                                                                 *)

\* A Folder's tabs are a sequence of ids.
LEMMA FolderTabs ==
  ASSUME NEW v, Described(v)
  PROVE  /\ DOMAIN v.folders = 1 .. Len(v.folders) /\ Len(v.folders) \in Nat
         /\ \A f \in DOMAIN v.folders :
              /\ v.folders[f] \in FolderRecords
              /\ v.folders[f].tabs \in Seq(Tab) /\ v.folders[f].tabs \in Seq(Id)
              /\ InFolder(v, f) \subseteq Tab
<1>1. v.folders \in Seq(FolderRecords)
  BY DEF Described
<1>2. /\ DOMAIN v.folders = 1 .. Len(v.folders) /\ Len(v.folders) \in Nat
      /\ \A f \in 1 .. Len(v.folders) : v.folders[f] \in FolderRecords
  <2> DEFINE F == FolderRecords
  <2> HIDE DEF F
  <2>1. v.folders \in Seq(F)
    BY <1>1 DEF F
  <2> QED BY <2>1 DEF F
<1>3. ASSUME NEW f \in DOMAIN v.folders
      PROVE  /\ v.folders[f].tabs \in Seq(Tab) /\ v.folders[f].tabs \in Seq(Id)
             /\ InFolder(v, f) \subseteq Tab
  <2>1. v.folders[f].tabs \in Seq(Tab)
    BY <1>2 DEF FolderRecords
  <2>2. Tab \subseteq Id
    BY DEF Id
  <2>3. v.folders[f].tabs \in Seq(Id)
    BY <2>1, <2>2, SeqMonotonic
  <2> QED BY <2>1, <2>3, Members DEF InFolder
<1> QED BY <1>2, <1>3

\* What the Folders hold, as one sequence.
LEMMA HeldLists ==
  ASSUME NEW v, Described(v), Filed(v)
  PROVE  /\ Lists(HeldRows(v), Held(v))
         /\ Held(v) \subseteq DOMAIN v.tab /\ Held(v) \cap Pinned(v) = {}
<1> DEFINE ss == [f \in DOMAIN v.folders |-> v.folders[f].tabs]
           n == Len(v.folders)
<1>1. DOMAIN v.folders = 1 .. n /\ n \in Nat /\ \A f \in 1 .. n : v.folders[f].tabs \in Seq(Tab)
  BY FolderTabs
<1>2. ss \in Seq(Seq(Tab)) /\ DOMAIN ss = 1 .. n /\ \A f \in 1 .. n : ss[f] = v.folders[f].tabs
  BY <1>1
<1>3. \A f \in 1 .. n : Once(v.folders[f].tabs)
  BY <1>1 DEF Filed
<1>4. \A f, g \in 1 .. n : f # g => ToSet(v.folders[f].tabs) \cap ToSet(v.folders[g].tabs) = {}
  BY <1>1 DEF Filed, InFolder
<1>5. Held(v) = UNION {ToSet(ss[f]) : f \in DOMAIN ss}
  BY <1>1, <1>2 DEF Held
<1>6. HeldRows(v) = FlattenSeq(ss)
  BY DEF HeldRows
<1> HIDE DEF ss, n
<1>7. Lists(FlattenSeq(ss), UNION {ToSet(ss[f]) : f \in DOMAIN ss})
  <2>1. \A f \in DOMAIN ss : Once(ss[f])
    BY <1>2, <1>3
  <2>2. \A f, g \in DOMAIN ss : f # g => ToSet(ss[f]) \cap ToSet(ss[g]) = {}
    BY <1>2, <1>4
  <2> QED BY <1>2, <2>1, <2>2, FlattenLists
<1>8. \A t \in Held(v) : Has(v, t) /\ ~v.tab[t].pinned
  BY DEF Held, Filed, InFolder
<1> QED BY <1>5, <1>6, <1>7, <1>8 DEF Has, Pinned

\* A tab in a Folder is in that one.
LEMMA FolderIs ==
  ASSUME NEW v, Described(v), Filed(v)
  PROVE  /\ \A f \in DOMAIN v.folders : \A t \in InFolder(v, f) : t \in Held(v) /\ FolderOf(v, t) = f
         /\ \A t : FolderOf(v, t) # 0 => /\ FolderOf(v, t) \in DOMAIN v.folders
                                         /\ t \in InFolder(v, FolderOf(v, t))
<1>1. ASSUME NEW f \in DOMAIN v.folders, NEW t \in InFolder(v, f)
      PROVE  t \in Held(v) /\ FolderOf(v, t) = f
  <2>1. t \in Held(v)
    BY DEF Held, InFolder
  <2>2. \A g \in DOMAIN v.folders : t \in InFolder(v, g) <=> g = f
    BY DEF Filed
  <2>3. FolderOf(v, t) = CHOOSE g \in DOMAIN v.folders : t \in InFolder(v, g)
    BY <2>1 DEF FolderOf, InFolder
  <2> QED BY <2>1, <2>2, <2>3
<1>2. ASSUME NEW t, FolderOf(v, t) # 0
      PROVE  FolderOf(v, t) \in DOMAIN v.folders /\ t \in InFolder(v, FolderOf(v, t))
  <2>1. t \in Held(v)
    BY <1>2 DEF FolderOf
  <2>2. PICK f \in DOMAIN v.folders : t \in InFolder(v, f)
    BY <2>1 DEF Held, InFolder
  <2> QED BY <1>1, <2>2
<1> QED BY <1>1, <1>2

\* The parts of the rows.
LEMMA RowParts ==
  ASSUME NEW v, Listed(v), Filed(v)
  PROVE  /\ Lists(Pins(v), Pinned(v)) /\ Lists(HeldRows(v), Held(v))
         /\ Lists(Loose(v), DOMAIN v.tab \ (Pinned(v) \cup Held(v)))
         /\ Lists(Unpinned(v), DOMAIN v.tab \ Pinned(v))
         /\ Pinned(v) \subseteq DOMAIN v.tab /\ Held(v) \subseteq DOMAIN v.tab
         /\ Held(v) \cap Pinned(v) = {}
<1>1. Lists(v.rows, DOMAIN v.tab) /\ Described(v)
  BY DEF Listed
<1>2. Lists(HeldRows(v), Held(v)) /\ Held(v) \subseteq DOMAIN v.tab /\ Held(v) \cap Pinned(v) = {}
  BY <1>1, HeldLists
<1>3. Pinned(v) \subseteq DOMAIN v.tab /\ DOMAIN v.tab \cap Pinned(v) = Pinned(v)
  BY DEF Pinned
<1>4. Lists(Among(v.rows, Pinned(v)), DOMAIN v.tab \cap Pinned(v))
  BY <1>1, PartLists
<1>5. Lists(Without(v.rows, Pinned(v)), DOMAIN v.tab \ Pinned(v))
  BY <1>1, PartLists
<1>6. Lists(Loose(v), DOMAIN v.tab \ (Pinned(v) \cup Held(v)))
  <2> DEFINE Q == Pinned(v) \cup Held(v)
  <2> HIDE DEF Q
  <2>1. Lists(Without(v.rows, Q), DOMAIN v.tab \ Q)
    BY <1>1, PartLists
  <2> QED BY <2>1 DEF Q, Loose
<1> QED BY <1>2, <1>3, <1>4, <1>5, <1>6 DEF Pins, Unpinned

-----------------------------------------------------------------------------
(* Changing one field                                                      *)

\* Other rows.
LEMMA WithRows ==
  ASSUME NEW v, Described(v), NEW r
  PROVE  LET w == [v EXCEPT !.rows = r]
         IN  /\ Described(w) /\ w.rows = r /\ w.tab = v.tab /\ w.active = v.active
             /\ w.folders = v.folders /\ w.closed = v.closed /\ w.away = v.away
BY DEF Described

\* Other tabs.
LEMMA WithTab ==
  ASSUME NEW v, Described(v), NEW r, r \in [DOMAIN r -> Records], DOMAIN r \subseteq Id
  PROVE  LET w == [v EXCEPT !.tab = r]
         IN  /\ Described(w) /\ w.rows = v.rows /\ w.tab = r /\ w.active = v.active
             /\ w.folders = v.folders /\ w.closed = v.closed /\ w.away = v.away
BY DEF Described

\* Another active tab.
LEMMA WithActive ==
  ASSUME NEW v, Described(v), NEW r
  PROVE  LET w == [v EXCEPT !.active = r]
         IN  /\ Described(w) /\ w.rows = v.rows /\ w.tab = v.tab /\ w.active = r
             /\ w.folders = v.folders /\ w.closed = v.closed /\ w.away = v.away
BY DEF Described

\* Other Folders.
LEMMA WithFolders ==
  ASSUME NEW v, Described(v), NEW r, r \in Seq(FolderRecords)
  PROVE  LET w == [v EXCEPT !.folders = r]
         IN  /\ Described(w) /\ w.rows = v.rows /\ w.tab = v.tab /\ w.active = v.active
             /\ w.folders = r /\ w.closed = v.closed /\ w.away = v.away
BY DEF Described

\* What is read off the same rows and Folders is the same.
LEMMA SameParts ==
  ASSUME NEW v, NEW w, w.folders = v.folders
  PROVE  /\ Held(w) = Held(v) /\ HeldRows(w) = HeldRows(v)
         /\ \A f : InFolder(w, f) = InFolder(v, f)
         /\ \A t : FolderOf(w, t) = FolderOf(v, t)
         /\ FoldersHeld(w) <=> FoldersHeld(v)
BY DEF Held, HeldRows, InFolder, FolderOf, FoldersHeld

-----------------------------------------------------------------------------
(* Sorting                                                                 *)

\* settleFolders puts the rows in order, whatever lists the loose tabs.
LEMMA SettleAsSorts ==
  ASSUME NEW v, Listed(v), Paired(v), Filed(v),
         NEW loose, Lists(loose, DOMAIN v.tab \ (Pinned(v) \cup Held(v)))
  PROVE  LET w == SettleAs(v, loose)
         IN  /\ Body(w) /\ w.tab = v.tab /\ w.active = v.active /\ w.folders = v.folders
             /\ w.closed = v.closed /\ w.away = v.away
<1> DEFINE x == Pins(v)
           y == HeldRows(v)
           P == Pinned(v)
           H == Held(v)
           L == DOMAIN v.tab \ (P \cup H)
           rows == (x \o y) \o loose
           w == SettleAs(v, loose)
<1>1. Lists(x, P) /\ Lists(y, H) /\ Lists(loose, L) /\ P \subseteq DOMAIN v.tab /\ H \subseteq DOMAIN v.tab
      /\ H \cap P = {}
  BY RowParts
<1>2. Lists(rows, DOMAIN v.tab)
  <2> HIDE DEF x, y, P, H
  <2>1. Lists(x \o y, P \cup H)
    BY <1>1, ConcatLists
  <2>2. Lists(rows, (P \cup H) \cup L)
    BY <1>1, <2>1, ConcatLists
  <2>3. (P \cup H) \cup L = DOMAIN v.tab
    BY <1>1
  <2> QED BY <2>2, <2>3
<1>3. w = [v EXCEPT !.rows = rows]
  BY DEF SettleAs
<1> HIDE DEF rows, w
<1>4. /\ Described(w) /\ w.rows = rows /\ w.tab = v.tab /\ w.active = v.active
      /\ w.folders = v.folders /\ w.closed = v.closed /\ w.away = v.away
  BY <1>3, WithRows DEF Listed
<1>5. Listed(w)
  BY <1>2, <1>4 DEF Listed
<1>6. Paired(w) /\ Pinned(w) = P /\ Held(w) = H /\ HeldRows(w) = y
  BY <1>4, SameParts DEF Paired, WholeSplit, Has, Pinned
<1>7. Filed(w)
  BY <1>4 DEF Filed, InFolder, Has
<1>8. Sorted(w)
  <2> HIDE DEF x, y, P, H
  <2>1. /\ x \in Seq(Id) /\ y \in Seq(Id) /\ loose \in Seq(Id)
        /\ ToSet(x) = P /\ ToSet(y) = H /\ ToSet(loose) = L
    <3>1. P \subseteq Id /\ H \subseteq Id /\ L \subseteq Id
      BY <1>1 DEF Listed, Described
    <3> QED BY <1>1, <3>1, ListsIn DEF Lists
  <2>2. Parted(rows, Id, x, y, loose, P, H)
    BY <1>1, <2>1 DEF Parted, rows
  <2>3. Among(rows, P) = x /\ Without(rows, P \cup H) = loose
    BY <2>2, Parts
  <2>4. Pins(w) = x /\ Loose(w) = loose
    BY <1>4, <1>6, <2>3 DEF Pins, Loose
  <2> QED BY <1>4, <1>6, <2>4 DEF Sorted, rows
<1> QED BY <1>4, <1>5, <1>6, <1>7, <1>8 DEF Body, w

\* What the Folders hold does not break the order of rows without them.
LEMMA NoFolders ==
  ASSUME NEW v, Listed(v), ~FoldersHeld(v)
  PROVE  /\ Held(v) = {} /\ HeldRows(v) = <<>> /\ Filed(v)
         /\ Sorted(v) <=> v.rows = Pins(v) \o Unpinned(v)
<1>1. v.folders = <<>> /\ DOMAIN v.folders = {}
  BY DEF FoldersHeld
<1>2. Held(v) = {} /\ Filed(v)
  BY <1>1 DEF Held, Filed
<1>3. HeldRows(v) = <<>>
  <2>1. [f \in DOMAIN v.folders |-> v.folders[f].tabs] = <<>>
    BY <1>1
  <2> QED BY <2>1, FlattenNothing DEF HeldRows
<1>4. Loose(v) = Unpinned(v)
  BY <1>2 DEF Loose, Unpinned
<1>5. Pins(v) \o <<>> = Pins(v)
  <2>1. Pins(v) \in Seq(DOMAIN v.tab)
    BY AmongMembers DEF Listed, Lists, Pins
  <2> QED BY <2>1, NothingAdded
<1> QED BY <1>2, <1>3, <1>4, <1>5 DEF Sorted

\* The order without Folders is that of the pins before the others.
LEMMA PinsFirstSorted ==
  ASSUME NEW v, Listed(v), ~FoldersHeld(v), FirstIn(v.rows, Pinned(v))
  PROVE  Sorted(v)
<1>1. v.rows \in Seq(Id)
  BY ListsIn DEF Listed, Described
<1>2. v.rows = Among(v.rows, Pinned(v)) \o Without(v.rows, Pinned(v))
  BY <1>1, FirstParts
<1> QED BY <1>2, NoFolders DEF Pins, Unpinned

\* settleFolders, for rows that are in order when no Folder asks for one.
LEMMA SettleSorts ==
  ASSUME NEW v, Listed(v), Paired(v), Filed(v), FoldersHeld(v) \/ FirstIn(v.rows, Pinned(v))
  PROVE  LET w == Settle(v)
         IN  /\ Body(w) /\ w.tab = v.tab /\ w.active = v.active /\ w.folders = v.folders
             /\ w.closed = v.closed /\ w.away = v.away
<1>1. CASE FoldersHeld(v)
  <2>1. Lists(Loose(v), DOMAIN v.tab \ (Pinned(v) \cup Held(v)))
    BY RowParts
  <2> QED BY <1>1, <2>1, SettleAsSorts DEF Settle
<1>2. CASE ~FoldersHeld(v)
  <2>1. Sorted(v)
    BY <1>2, PinsFirstSorted
  <2> QED BY <1>2, <2>1 DEF Body, Settle
<1> QED BY <1>1, <1>2

\* In order, the pins stand before the other rows.
LEMMA SortedPins ==
  ASSUME NEW v, Body(v)
  PROVE  /\ v.rows = Pins(v) \o Unpinned(v)
         /\ FirstIn(v.rows, Pinned(v))
         /\ \A i \in 1 .. Len(v.rows) : v.rows[i] \in Pinned(v) <=> i <= Len(Pins(v))
<1> DEFINE P == Pinned(v)
           H == Held(v)
           x == Pins(v)
           y == HeldRows(v)
           z == Loose(v)
           L == DOMAIN v.tab \ (P \cup H)
           u == y \o z
<1>1. Lists(x, P) /\ Lists(y, H) /\ Lists(z, L) /\ H \cap P = {} /\ P \subseteq DOMAIN v.tab
      /\ H \subseteq DOMAIN v.tab /\ DOMAIN v.tab \subseteq Id
  BY RowParts DEF Body, Listed, Described
<1>2. v.rows = (x \o y) \o z
  BY DEF Body, Sorted
<1>2a. Unpinned(v) = Without(v.rows, P) /\ x = Among(v.rows, P)
  BY DEF Unpinned, Pins
<1> HIDE DEF P, H, x, y, z
<1>3. /\ x \in Seq(Id) /\ y \in Seq(Id) /\ z \in Seq(Id)
      /\ ToSet(x) = P /\ ToSet(y) = H /\ ToSet(z) = L
  <2>1. P \subseteq Id /\ H \subseteq Id /\ L \subseteq Id
    BY <1>1
  <2> QED BY <1>1, <2>1, ListsIn DEF Lists
<1>4. Parted(v.rows, Id, x, y, z, P, H)
  BY <1>1, <1>2, <1>3 DEF Parted
<1>5. Without(v.rows, P) = u
  <2>1. Joined(Without(v.rows, P), y, z)
    BY <1>4, Parts
  <2> QED BY <2>1 DEF Joined
<1>6. v.rows = x \o u
  BY SMTT(30), <1>2, <1>3, ConcatAssociative
<1>7. u \in Seq(Id) /\ ToSet(u) \cap P = {}
  <2>1. u \in Seq(Id) /\ ToSet(u) = ToSet(y) \cup ToSet(z)
    BY <1>3, ConcatMembers
  <2> QED BY <1>1, <1>3, <2>1
<1> HIDE DEF u
<1>8. /\ FirstIn(x \o u, P)
      /\ \A i \in 1 .. Len(x) + Len(u) : (x \o u)[i] \in P <=> i <= Len(x)
  BY <1>3, <1>7, PartsFirst
<1>9. Len(v.rows) = Len(x) + Len(u)
  BY <1>3, <1>6, <1>7, ConcatProperties
<1> QED BY <1>2a, <1>5, <1>6, <1>8, <1>9 DEF P, x, u

\* Rows whose parts are those of the tabs are in order.
LEMMA SortedIf ==
  ASSUME NEW w, NEW x, NEW z,
         Parted(w.rows, Id, x, HeldRows(w), z, Pinned(w), Held(w))
  PROVE  Sorted(w)
<1> DEFINE P == Pinned(w)
           H == Held(w)
           y == HeldRows(w)
           rows == w.rows
<1>1. Parted(rows, Id, x, y, z, P, H)
  OBVIOUS
<1> HIDE DEF P, H, y, rows
<1>2. Among(rows, P) = x /\ Without(rows, P \cup H) = z
  BY <1>1, Parts
<1>3. rows = (x \o y) \o z
  BY <1>1 DEF Parted
<1> QED BY <1>2, <1>3 DEF Sorted, Pins, Loose, P, H, y, rows

\* The rows of a Space in order, in their parts.
LEMMA SortedParts ==
  ASSUME NEW v, Body(v)
  PROVE  Parted(v.rows, Id, Pins(v), HeldRows(v), Loose(v), Pinned(v), Held(v))
<1> DEFINE P == Pinned(v)
           H == Held(v)
           x == Pins(v)
           y == HeldRows(v)
           z == Loose(v)
           L == DOMAIN v.tab \ (P \cup H)
<1>1. Lists(x, P) /\ Lists(y, H) /\ Lists(z, L) /\ H \cap P = {} /\ P \subseteq DOMAIN v.tab
      /\ H \subseteq DOMAIN v.tab /\ DOMAIN v.tab \subseteq Id
  BY RowParts DEF Body, Listed, Described
<1>2. v.rows = (x \o y) \o z
  BY DEF Body, Sorted
<1> HIDE DEF P, H, x, y, z
<1>3. /\ x \in Seq(Id) /\ y \in Seq(Id) /\ z \in Seq(Id)
      /\ ToSet(x) = P /\ ToSet(y) = H /\ ToSet(z) = L
  <2>1. P \subseteq Id /\ H \subseteq Id /\ L \subseteq Id
    BY <1>1
  <2> QED BY <1>1, <2>1, ListsIn DEF Lists
<1>4. Parted(v.rows, Id, x, y, z, P, H)
  BY <1>1, <1>2, <1>3 DEF Parted
<1> QED BY <1>4 DEF x, y, z, P, H

-----------------------------------------------------------------------------
(* Marks                                                                   *)

\* The same Folders, collapsed or not.
SameFolders(v, w) ==
  /\ DOMAIN w.folders = DOMAIN v.folders
  /\ \A f \in DOMAIN v.folders : w.folders[f].tabs = v.folders[f].tabs

\* w is v with tabs marked otherwise, neither pinned nor unpinned.
Marked(v, w) ==
  /\ Described(w) /\ w.rows = v.rows /\ DOMAIN w.tab = DOMAIN v.tab
  /\ SameFolders(v, w)
  /\ \A t \in DOMAIN v.tab : /\ w.tab[t].pinned = v.tab[t].pinned
                             /\ w.tab[t].partner \in {None, v.tab[t].partner}

\* What the marks of tabs are does not concern their rows.
LEMMA Remarked ==
  ASSUME NEW v, NEW w, Body(v), Marked(v, w), Paired(w)
  PROVE  /\ Body(w) /\ Pinned(w) = Pinned(v) /\ Held(w) = Held(v)
         /\ \A f \in DOMAIN v.folders : InFolder(w, f) = InFolder(v, f)
<1>1. Listed(w) /\ Described(v)
  BY DEF Body, Listed, Marked
<1>2. Pinned(w) = Pinned(v)
  BY DEF Marked, Pinned
<1>3. \A f \in DOMAIN v.folders : InFolder(w, f) = InFolder(v, f)
  BY DEF Marked, SameFolders, InFolder
<1>4. Held(w) = Held(v) /\ HeldRows(w) = HeldRows(v)
  <2>1. DOMAIN w.folders = DOMAIN v.folders
        /\ \A f \in DOMAIN v.folders : w.folders[f].tabs = v.folders[f].tabs
    BY DEF Marked, SameFolders
  <2>2. [f \in DOMAIN w.folders |-> w.folders[f].tabs] = [f \in DOMAIN v.folders |-> v.folders[f].tabs]
    BY <2>1
  <2>3. {ToSet(w.folders[f].tabs) : f \in DOMAIN w.folders}
        = {ToSet(v.folders[f].tabs) : f \in DOMAIN v.folders}
    BY <2>1
  <2> QED BY <2>2, <2>3 DEF Held, HeldRows
<1>5. Filed(w)
  BY <1>3 DEF Body, Filed, Marked, SameFolders, Has
<1>6. Sorted(w)
  BY <1>2, <1>4 DEF Body, Sorted, Pins, Loose, Marked
<1> QED BY <1>1, <1>2, <1>3, <1>4, <1>5, <1>6 DEF Body

-----------------------------------------------------------------------------
(* Tabs that leave                                                         *)

\* No split is half in T.
Apart(v, T) ==
  \A t \in DOMAIN v.tab \ T : v.tab[t].partner # None => v.tab[t].partner \notin T

\* Tabs leave the Folders.
LEMMA Leaving ==
  ASSUME NEW v, Described(v), NEW T
  PROVE  LET w == LeaveFolders(v, T)
         IN  /\ Described(w) /\ w.rows = v.rows /\ w.tab = v.tab /\ w.active = v.active
             /\ w.closed = v.closed /\ w.away = v.away
             /\ DOMAIN w.folders = DOMAIN v.folders /\ Len(w.folders) = Len(v.folders)
             /\ \A f \in DOMAIN v.folders :
                  /\ w.folders[f].tabs = Without(v.folders[f].tabs, T)
                  /\ w.folders[f].collapsed = v.folders[f].collapsed
                  /\ InFolder(w, f) = InFolder(v, f) \ T
             /\ Held(w) = Held(v) \ T
<1> DEFINE w == LeaveFolders(v, T)
           n == Len(v.folders)
           F == [f \in DOMAIN v.folders |->
                   [v.folders[f] EXCEPT !.tabs = Without(v.folders[f].tabs, T)]]
<1>1. /\ DOMAIN v.folders = 1 .. n /\ n \in Nat
      /\ \A f \in 1 .. n : v.folders[f] \in FolderRecords /\ v.folders[f].tabs \in Seq(Tab)
  BY FolderTabs
<1>2. ASSUME NEW f \in 1 .. n
      PROVE  /\ Without(v.folders[f].tabs, T) \in Seq(Tab)
             /\ ToSet(Without(v.folders[f].tabs, T)) = ToSet(v.folders[f].tabs) \ T
  BY <1>1, WithoutMembers
<1>3. ASSUME NEW f \in 1 .. n
      PROVE  /\ F[f] \in FolderRecords /\ F[f].tabs = Without(v.folders[f].tabs, T)
             /\ F[f].collapsed = v.folders[f].collapsed
  BY <1>1, <1>2 DEF FolderRecords
<1>4. F \in Seq(FolderRecords) /\ DOMAIN F = 1 .. n /\ Len(F) = n
  <2> DEFINE G == FolderRecords
  <2>1. F \in [1 .. n -> G]
    BY <1>1, <1>3
  <2> HIDE DEF F, G
  <2>2. F \in Seq(G) /\ DOMAIN F = 1 .. n /\ Len(F) = n
    BY <1>1, <2>1
  <2> QED BY <2>2 DEF G
<1>5. w = [v EXCEPT !.folders = F]
  BY DEF LeaveFolders
<1> HIDE DEF F, w, n
<1>6. /\ Described(w) /\ w.rows = v.rows /\ w.tab = v.tab /\ w.active = v.active
      /\ w.folders = F /\ w.closed = v.closed /\ w.away = v.away
  BY <1>4, <1>5, WithFolders
<1>7. \A f \in DOMAIN v.folders : InFolder(w, f) = InFolder(v, f) \ T
  BY <1>1, <1>2, <1>3, <1>6 DEF InFolder
<1>8. Held(w) = Held(v) \ T
  <2>1. DOMAIN w.folders = DOMAIN v.folders
    BY <1>1, <1>4, <1>6
  <2>2. \A t : t \in Held(w) <=> \E f \in DOMAIN v.folders : t \in InFolder(w, f)
    BY <2>1 DEF Held, InFolder
  <2>3. \A t : t \in Held(v) <=> \E f \in DOMAIN v.folders : t \in InFolder(v, f)
    BY DEF Held, InFolder
  <2>4. \A t : t \in Held(w) <=> t \in Held(v) /\ t \notin T
    BY <1>7, <2>2, <2>3
  <2> QED BY <2>4
<1> QED BY <1>1, <1>3, <1>4, <1>6, <1>7, <1>8 DEF w, n

\* What is left of the Folders holds rows still.
LEMMA LeavingFiled ==
  ASSUME NEW v, Described(v), Filed(v), NEW T, Apart(v, T)
  PROVE  Filed(LeaveFolders(v, T)) /\ HeldRows(LeaveFolders(v, T)) = Without(HeldRows(v), T)
<1> DEFINE w == LeaveFolders(v, T)
           n == Len(v.folders)
<1>1. /\ w.tab = v.tab /\ DOMAIN w.folders = DOMAIN v.folders
      /\ \A f \in DOMAIN v.folders :
           /\ w.folders[f].tabs = Without(v.folders[f].tabs, T)
           /\ InFolder(w, f) = InFolder(v, f) \ T
  BY Leaving
<1> HIDE DEF w
<1>2. /\ DOMAIN v.folders = 1 .. n /\ n \in Nat
      /\ \A f \in 1 .. n : v.folders[f].tabs \in Seq(Tab)
  BY FolderTabs
<1> HIDE DEF n
<1>3. ASSUME NEW f \in DOMAIN v.folders PROVE Once(w.folders[f].tabs)
  <2>1. Once(v.folders[f].tabs) /\ v.folders[f].tabs \in Seq(Tab)
    BY <1>2 DEF Filed
  <2> QED BY <1>1, <2>1, WithoutMembers
<1>4. Filed(w)
  <2>1. ASSUME NEW f \in DOMAIN v.folders, NEW t \in InFolder(w, f)
        PROVE  /\ Has(w, t) /\ ~w.tab[t].pinned
               /\ w.tab[t].partner # None => w.tab[t].partner \in InFolder(w, f)
    <3>1. t \in InFolder(v, f) /\ t \notin T
      BY <1>1
    <3>2. /\ Has(v, t) /\ ~v.tab[t].pinned
          /\ v.tab[t].partner # None => v.tab[t].partner \in InFolder(v, f)
      BY <3>1 DEF Filed
    <3> QED BY <1>1, <3>1, <3>2 DEF Has, Apart
  <2>2. \A f, g \in DOMAIN v.folders : g # f => InFolder(w, f) \cap InFolder(w, g) = {}
    BY <1>1 DEF Filed
  <2> QED BY <1>1, <1>3, <2>1, <2>2 DEF Filed
<1>5. HeldRows(w) = Without(HeldRows(v), T)
  <2> DEFINE ss == [f \in DOMAIN v.folders |-> v.folders[f].tabs]
  <2>1. ss \in Seq(Seq(Tab)) /\ DOMAIN ss = DOMAIN v.folders
    BY <1>2
  <2>2. [f \in DOMAIN w.folders |-> w.folders[f].tabs] = [f \in DOMAIN ss |-> Without(ss[f], T)]
    BY <1>1, <2>1
  <2> HIDE DEF ss
  <2>3. FlattenSeq([f \in DOMAIN ss |-> Without(ss[f], T)]) = Without(FlattenSeq(ss), T)
    BY <2>1, FlattenWithout
  <2> QED BY <2>2, <2>3 DEF HeldRows, ss
<1> QED BY <1>4, <1>5 DEF w

\* Rows that go, and what is known of their tabs.
LEMMA RowsGone ==
  ASSUME NEW v, Listed(v), NEW T
  PROVE  LET w == RemoveRows(v, T)
         IN  /\ Listed(w) /\ DOMAIN w.tab = DOMAIN v.tab \ T
             /\ \A t \in DOMAIN v.tab \ T : w.tab[t] = v.tab[t]
             /\ w.rows = Without(v.rows, T) /\ w.active = v.active
             /\ w.folders = v.folders /\ w.closed = v.closed /\ w.away = v.away
<1> DEFINE w == RemoveRows(v, T)
           r == Restrict(v.tab, DOMAIN v.tab \ T)
           u == [v EXCEPT !.rows = Without(v.rows, T)]
<1>1. Described(v) /\ Lists(v.rows, DOMAIN v.tab)
  BY DEF Listed
<1>2. r = [t \in DOMAIN v.tab \ T |-> v.tab[t]]
  BY DEF Restrict
<1>3. /\ DOMAIN r = DOMAIN v.tab \ T /\ r \in [DOMAIN r -> Records] /\ DOMAIN r \subseteq Id
      /\ \A t \in DOMAIN v.tab \ T : r[t] = v.tab[t]
  BY <1>1, <1>2 DEF Described
<1> HIDE DEF r
<1>4. /\ Described(u) /\ u.rows = Without(v.rows, T) /\ u.tab = v.tab /\ u.active = v.active
      /\ u.folders = v.folders /\ u.closed = v.closed /\ u.away = v.away
  BY <1>1, WithRows
<1>5. w = [u EXCEPT !.tab = r]
  BY <1>1 DEF RemoveRows, Described, r
<1> HIDE DEF u, w
<1>6. /\ Described(w) /\ w.rows = u.rows /\ w.tab = r /\ w.active = u.active
      /\ w.folders = u.folders /\ w.closed = u.closed /\ w.away = u.away
  BY <1>3, <1>4, <1>5, WithTab
<1>7. Lists(Without(v.rows, T), DOMAIN v.tab \ T)
  BY <1>1, PartLists
<1> QED BY <1>3, <1>4, <1>6, <1>7 DEF Listed, w

\* Tabs that leave the list on show, no split half of them.
LEMMA TabsGone ==
  ASSUME NEW v, Body(v), NEW T, Apart(v, T)
  PROVE  LET w == RemoveTabs(v, T)
         IN  /\ Body(w) /\ DOMAIN w.tab = DOMAIN v.tab \ T
             /\ \A t \in DOMAIN v.tab \ T : w.tab[t] = v.tab[t]
             /\ w.rows = Without(v.rows, T) /\ w.active = v.active
             /\ w.closed = v.closed /\ w.away = v.away
             /\ DOMAIN w.folders = DOMAIN v.folders
<1> DEFINE u == RemoveRows(v, T)
           w == RemoveTabs(v, T)
           D == DOMAIN v.tab \ T
<1>1. Listed(v) /\ Paired(v) /\ Filed(v) /\ Sorted(v) /\ Described(v)
  BY DEF Body, Listed
<1>2. /\ Listed(u) /\ DOMAIN u.tab = D
      /\ \A t \in D : u.tab[t] = v.tab[t]
      /\ u.rows = Without(v.rows, T) /\ u.active = v.active
      /\ u.folders = v.folders /\ u.closed = v.closed /\ u.away = v.away
  BY <1>1, RowsGone
<1>3. w = LeaveFolders(u, T)
  BY DEF RemoveTabs
<1> HIDE DEF u, w
<1>4. /\ Described(w) /\ w.rows = u.rows /\ w.tab = u.tab /\ w.active = u.active
      /\ w.closed = u.closed /\ w.away = u.away
      /\ DOMAIN w.folders = DOMAIN u.folders
      /\ \A f \in DOMAIN u.folders :
           /\ w.folders[f].tabs = Without(u.folders[f].tabs, T)
           /\ InFolder(w, f) = InFolder(u, f) \ T
      /\ Held(w) = Held(u) \ T
  BY <1>2, <1>3, Leaving DEF Listed
<1>5. w.folders = LeaveFolders(v, T).folders
  <2>1. LeaveFolders(v, T).folders = [f \in DOMAIN v.folders |->
                   [v.folders[f] EXCEPT !.tabs = Without(v.folders[f].tabs, T)]]
    BY <1>1 DEF LeaveFolders, Described
  <2>2. LeaveFolders(u, T).folders = [f \in DOMAIN u.folders |->
                   [u.folders[f] EXCEPT !.tabs = Without(u.folders[f].tabs, T)]]
    BY <1>2 DEF LeaveFolders, Described, Listed
  <2> QED BY <1>2, <1>3, <2>1, <2>2
<1>6. Filed(LeaveFolders(v, T)) /\ HeldRows(LeaveFolders(v, T)) = Without(HeldRows(v), T)
      /\ LeaveFolders(v, T).tab = v.tab /\ Held(LeaveFolders(v, T)) = Held(v) \ T
  BY <1>1, Leaving, LeavingFiled
<1>7. /\ Held(w) = Held(v) \ T /\ HeldRows(w) = Without(HeldRows(v), T)
      /\ \A f : InFolder(w, f) = InFolder(LeaveFolders(v, T), f)
  BY <1>5, <1>6, SameParts
<1>8. Filed(w)
  <2> DEFINE l == LeaveFolders(v, T)
  <2>1. Filed(l) /\ l.tab = v.tab /\ w.folders = l.folders /\ \A f : InFolder(w, f) = InFolder(l, f)
    BY <1>5, <1>6, <1>7
  <2> HIDE DEF l
  <2>2. \A f \in DOMAIN w.folders : InFolder(w, f) \cap T = {}
    BY <1>4
  <2>3. ASSUME NEW f \in DOMAIN w.folders, NEW t \in InFolder(w, f)
        PROVE  /\ Has(w, t) /\ ~w.tab[t].pinned
               /\ w.tab[t].partner # None => w.tab[t].partner \in InFolder(w, f)
    <3>1. /\ Has(l, t) /\ ~l.tab[t].pinned
          /\ l.tab[t].partner # None => l.tab[t].partner \in InFolder(l, f)
      BY <2>1 DEF Filed
    <3>2. t \in D /\ w.tab[t] = v.tab[t]
      BY <1>2, <1>4, <2>1, <2>2, <3>1 DEF Has
    <3> QED BY <1>2, <1>4, <2>1, <3>1, <3>2 DEF Has
  <2> QED BY <2>1, <2>3 DEF Filed
<1>9. Paired(w)
  <2> SUFFICES ASSUME NEW t \in D PROVE WholeSplit(w, t)
    BY <1>2, <1>4 DEF Paired
  <2>1. WholeSplit(v, t) /\ w.tab[t] = v.tab[t] /\ (v.tab[t].partner # None => v.tab[t].partner \notin T)
    BY <1>1, <1>2, <1>4 DEF Paired, Apart
  <2>2. CASE v.tab[t].partner = None
    BY <2>1, <2>2 DEF WholeSplit
  <2>3. CASE v.tab[t].partner # None
    <3>1. v.tab[t].partner \in D /\ w.tab[v.tab[t].partner] = v.tab[v.tab[t].partner]
      BY <1>2, <1>4, <2>1, <2>3 DEF WholeSplit, Has
    <3> QED BY <1>2, <1>4, <2>1, <2>3, <3>1 DEF WholeSplit, Has
  <2> QED BY <2>2, <2>3
<1>10. Pinned(w) = Pinned(v) \ T
  BY <1>2, <1>4 DEF Pinned
<1>11. Sorted(w)
  <2> DEFINE x == Pins(v)
             y == HeldRows(v)
             z == Loose(v)
  <2>1. Parted(v.rows, Id, x, y, z, Pinned(v), Held(v))
    BY SortedParts
  <2> HIDE DEF x, y, z
  <2>2. Parted(Without(v.rows, T), Id, Without(x, T), Without(y, T), Without(z, T),
               Pinned(v) \ T, Held(v) \ T)
    <3> DEFINE P == Pinned(v)
               H == Held(v)
    <3> HIDE DEF P, H
    <3> QED BY <2>1, PartedWithout DEF P, H
  <2>3. Parted(w.rows, Id, Without(x, T), HeldRows(w), Without(z, T), Pinned(w), Held(w))
    BY <1>2, <1>4, <1>7, <1>10, <2>2 DEF y
  <2> QED BY <2>3, SortedIf
<1>12. Listed(w)
  BY <1>2, <1>4 DEF Listed
<1> QED BY <1>2, <1>4, <1>8, <1>9, <1>11, <1>12 DEF Body, w

-----------------------------------------------------------------------------
(* Tabs that come                                                          *)

\* A tab that is new to the Space is put on a row.
LEMMA Inserting ==
  ASSUME NEW v, Listed(v), NEW t \in Id \ DOMAIN v.tab, NEW rec \in Records,
         NEW row \in 1 .. Len(v.rows) + 1
  PROVE  LET w == Insert(v, t, rec, row)
         IN  /\ Listed(w) /\ DOMAIN w.tab = DOMAIN v.tab \cup {t} /\ w.tab[t] = rec
             /\ \A u \in DOMAIN v.tab : w.tab[u] = v.tab[u]
             /\ w.rows = InsertAt(v.rows, row, t) /\ w.active = v.active
             /\ w.folders = v.folders /\ w.closed = v.closed /\ w.away = v.away
<1> DEFINE w == Insert(v, t, rec, row)
           r == [u \in DOMAIN v.tab \cup {t} |-> IF u = t THEN rec ELSE v.tab[u]]
           q == [v EXCEPT !.rows = InsertAt(v.rows, row, t)]
<1>1. Described(v) /\ Lists(v.rows, DOMAIN v.tab)
  BY DEF Listed
<1>2. /\ DOMAIN r = DOMAIN v.tab \cup {t} /\ r \in [DOMAIN r -> Records] /\ DOMAIN r \subseteq Id
      /\ r[t] = rec /\ \A u \in DOMAIN v.tab : r[u] = v.tab[u]
  BY <1>1 DEF Described
<1>3. /\ Described(q) /\ q.rows = InsertAt(v.rows, row, t) /\ q.tab = v.tab /\ q.active = v.active
      /\ q.folders = v.folders /\ q.closed = v.closed /\ q.away = v.away
  BY <1>1, WithRows
<1>4. w = [q EXCEPT !.tab = r]
  BY <1>1 DEF Insert, Described
<1> HIDE DEF r, q, w
<1>5. /\ Described(w) /\ w.rows = q.rows /\ w.tab = r /\ w.active = q.active
      /\ w.folders = q.folders /\ w.closed = q.closed /\ w.away = q.away
  BY <1>2, <1>3, <1>4, WithTab
<1>6. Lists(InsertAt(v.rows, row, t), DOMAIN v.tab \cup {t})
  BY <1>1, InsertLists
<1> QED BY <1>2, <1>3, <1>5, <1>6 DEF Listed, w

\* A tab in no split comes without breaking one.
LEMMA InsertingPaired ==
  ASSUME NEW v, Listed(v), Paired(v), Filed(v), NEW t \in Id \ DOMAIN v.tab,
         NEW rec \in Records, rec.partner = None, NEW row \in 1 .. Len(v.rows) + 1
  PROVE  Paired(Insert(v, t, rec, row)) /\ Filed(Insert(v, t, rec, row))
<1> DEFINE w == Insert(v, t, rec, row)
<1>1. /\ DOMAIN w.tab = DOMAIN v.tab \cup {t} /\ w.tab[t] = rec
      /\ \A u \in DOMAIN v.tab : w.tab[u] = v.tab[u]
      /\ w.folders = v.folders
  BY Inserting
<1> HIDE DEF w
<1>2. ASSUME NEW u \in DOMAIN w.tab PROVE WholeSplit(w, u)
  <2>1. CASE u = t
    BY <1>1, <2>1 DEF WholeSplit
  <2>2. CASE u # t
    <3>1. u \in DOMAIN v.tab /\ WholeSplit(v, u)
      BY <1>1, <2>2 DEF Paired
    <3> QED BY <1>1, <3>1 DEF WholeSplit, Has
  <2> QED BY <2>1, <2>2
<1>3. Filed(w)
  BY <1>1 DEF Filed, InFolder, Has
<1> QED BY <1>2, <1>3 DEF Paired, w

\* appendTab: a tab that is not pinned comes last.
LEMMA Appending ==
  ASSUME NEW v, Body(v), NEW t \in Id \ DOMAIN v.tab, NEW rec \in Records,
         rec.partner = None, ~rec.pinned
  PROVE  LET w == AppendTab(v, t, rec)
         IN  /\ Body(w) /\ DOMAIN w.tab = DOMAIN v.tab \cup {t} /\ w.tab[t] = rec
             /\ \A u \in DOMAIN v.tab : w.tab[u] = v.tab[u]
             /\ w.active = v.active /\ w.folders = v.folders
             /\ w.closed = v.closed /\ w.away = v.away
<1> DEFINE n == Len(v.rows) + 1
           w == AppendTab(v, t, rec)
<1>1. Listed(v) /\ Paired(v) /\ Filed(v) /\ Sorted(v) /\ v.rows \in Seq(Id)
  BY ListsIn DEF Body, Listed, Described
<1>2. n \in 1 .. Len(v.rows) + 1 /\ w = Insert(v, t, rec, n)
  BY <1>1 DEF AppendTab
<1> HIDE DEF n, w
<1>3. /\ Listed(w) /\ DOMAIN w.tab = DOMAIN v.tab \cup {t} /\ w.tab[t] = rec
      /\ \A u \in DOMAIN v.tab : w.tab[u] = v.tab[u]
      /\ w.rows = InsertAt(v.rows, n, t) /\ w.active = v.active
      /\ w.folders = v.folders /\ w.closed = v.closed /\ w.away = v.away
  BY <1>1, <1>2, Inserting
<1>4. Paired(w) /\ Filed(w)
  BY <1>1, <1>2, InsertingPaired
<1>5. Pinned(w) = Pinned(v) /\ Held(w) = Held(v) /\ HeldRows(w) = HeldRows(v)
  BY <1>3, SameParts DEF Pinned
<1>6. Sorted(w)
  <2> DEFINE x == Pins(v)
             y == HeldRows(v)
             z == Loose(v)
             P == Pinned(v)
             H == Held(v)
  <2>1. Parted(v.rows, Id, x, y, z, P, H)
    BY SortedParts
  <2>2. t \notin P /\ t \notin H
    BY <1>1, RowParts
  <2> HIDE DEF x, y, z, P, H
  <2>3. Parted(InsertAt(v.rows, n, t), Id, x, y, Append(z, t), P, H)
    BY <2>1, <2>2, PartedAppend DEF n
  <2>4. Parted(w.rows, Id, x, HeldRows(w), Append(z, t), Pinned(w), Held(w))
    BY <1>3, <1>5, <2>3 DEF y, P, H
  <2> QED BY <2>4, SortedIf
<1> QED BY <1>3, <1>4, <1>6 DEF Body, w

-----------------------------------------------------------------------------
(* What marks a tab                                                        *)

\* w is v with the given tabs, active tab and counts.
Retabbed(v, w) ==
  /\ w.rows = v.rows /\ w.folders = v.folders /\ DOMAIN w.tab = DOMAIN v.tab

\* A mark that is no part of a split and no pin leaves everything in place.
LEMMA Marking ==
  ASSUME NEW v, Body(v), NEW r, r \in [DOMAIN v.tab -> Records],
         \A t \in DOMAIN v.tab : /\ r[t].pinned = v.tab[t].pinned
                                 /\ r[t].partner = v.tab[t].partner
                                 /\ r[t].focused = v.tab[t].focused
  PROVE  LET w == [v EXCEPT !.tab = r]
         IN  /\ Body(w) /\ Retabbed(v, w) /\ w.tab = r
             /\ w.active = v.active /\ w.closed = v.closed /\ w.away = v.away
<1> DEFINE w == [v EXCEPT !.tab = r]
<1>1. Described(v) /\ DOMAIN r = DOMAIN v.tab /\ DOMAIN r \subseteq Id
  BY DEF Body, Listed, Described
<1>2. /\ Described(w) /\ w.rows = v.rows /\ w.tab = r /\ w.active = v.active
      /\ w.folders = v.folders /\ w.closed = v.closed /\ w.away = v.away
  BY <1>1, WithTab
<1> HIDE DEF w
<1>3. Marked(v, w)
  BY <1>1, <1>2 DEF Marked, SameFolders
<1>4. Paired(w)
  <2> SUFFICES ASSUME NEW t \in DOMAIN v.tab PROVE WholeSplit(w, t)
    BY <1>1, <1>2 DEF Paired
  <2>1. WholeSplit(v, t)
    BY DEF Body, Paired
  <2>2. w.tab[t].partner = None \/ w.tab[t].partner \in DOMAIN v.tab
    BY <1>2, <2>1 DEF WholeSplit, Has
  <2> QED BY <1>1, <1>2, <2>1, <2>2 DEF WholeSplit, Has
<1>5. Body(w)
  BY <1>3, <1>4, Remarked
<1> QED BY <1>1, <1>2, <1>5 DEF w, Retabbed

\* One mark of one tab.
LEMMA MarkingOne ==
  ASSUME NEW v, Body(v), NEW t \in DOMAIN v.tab, NEW rec \in Records,
         rec.pinned = v.tab[t].pinned, rec.partner = v.tab[t].partner,
         rec.focused = v.tab[t].focused
  PROVE  LET w == [v EXCEPT !.tab[t] = rec]
         IN  /\ Body(w) /\ Retabbed(v, w) /\ w.tab[t] = rec
             /\ \A u \in DOMAIN v.tab \ {t} : w.tab[u] = v.tab[u]
             /\ w.active = v.active /\ w.closed = v.closed /\ w.away = v.away
<1> DEFINE r == [v.tab EXCEPT ![t] = rec]
           w == [v EXCEPT !.tab = r]
<1>1. v.tab \in [DOMAIN v.tab -> Records]
  BY DEF Body, Listed, Described
<1>2. /\ r \in [DOMAIN v.tab -> Records] /\ r[t] = rec
      /\ \A u \in DOMAIN v.tab \ {t} : r[u] = v.tab[u]
  BY <1>1
<1>3. [v EXCEPT !.tab[t] = rec] = w
  OBVIOUS
<1> HIDE DEF r
<1>4. \A u \in DOMAIN v.tab : /\ r[u].pinned = v.tab[u].pinned
                              /\ r[u].partner = v.tab[u].partner
                              /\ r[u].focused = v.tab[u].focused
  BY <1>2
<1>5. /\ Body(w) /\ Retabbed(v, w) /\ w.tab = r
      /\ w.active = v.active /\ w.closed = v.closed /\ w.away = v.away
  BY <1>2, <1>4, Marking
<1> QED BY <1>2, <1>3, <1>5

\* The records a mark makes.
LEMMA Remarks ==
  ASSUME NEW v, Described(v), NEW t \in DOMAIN v.tab, NEW yes \in BOOLEAN
  PROVE  LET r == v.tab[t] IN
         /\ r \in Records
         /\ [r EXCEPT !.page = yes] \in Records /\ [r EXCEPT !.keep = yes] \in Records
         /\ (yes => r.partner = None) => [r EXCEPT !.popped = yes] \in Records
         /\ [r EXCEPT !.popped = FALSE] \in Records
         /\ [r EXCEPT !.partner = None, !.focused = FALSE] \in Records
         /\ [r EXCEPT !.focused = yes] \in Records
<1>1. v.tab[t] \in Records
  BY DEF Described
<1> QED BY <1>1 DEF Records, TabRecords

\* setActiveTab
LEMMA ShowKeeps ==
  ASSUME NEW v, Body(v), NEW t \in DOMAIN v.tab
  PROVE  LET w == Show(v, t)
         IN  /\ Live(w) /\ Retabbed(v, w) /\ w.active = t
             /\ w.closed = v.closed /\ w.away = v.away
<1> DEFINE p == v.tab[t].partner
           r == [u \in DOMAIN v.tab |->
                   IF p # None /\ u \in {t, p} THEN [v.tab[u] EXCEPT !.focused = u = t]
                                               ELSE v.tab[u]]
           q == [v EXCEPT !.active = t]
           w == Show(v, t)
<1>1. Described(v) /\ Paired(v) /\ v.tab \in [DOMAIN v.tab -> Records]
  BY DEF Body, Listed, Described
<1>2. /\ DOMAIN r = DOMAIN v.tab /\ r \in [DOMAIN r -> Records] /\ DOMAIN r \subseteq Id
      /\ \A u \in DOMAIN v.tab : /\ r[u].pinned = v.tab[u].pinned
                                 /\ r[u].partner = v.tab[u].partner
                                 /\ r[u].focused = IF p # None /\ u \in {t, p}
                                                   THEN u = t ELSE v.tab[u].focused
  <2>1. ASSUME NEW u \in DOMAIN v.tab
        PROVE  /\ r[u] \in Records /\ r[u].pinned = v.tab[u].pinned
               /\ r[u].partner = v.tab[u].partner
               /\ r[u].focused = IF p # None /\ u \in {t, p} THEN u = t ELSE v.tab[u].focused
    <3>1. v.tab[u] \in Records
      BY <1>1
    <3> QED BY <3>1 DEF Records, TabRecords
  <2>2. DOMAIN v.tab \subseteq Id
    BY <1>1 DEF Described
  <2> QED BY <2>1, <2>2
<1>3. /\ Described(q) /\ q.rows = v.rows /\ q.tab = v.tab /\ q.active = t
      /\ q.folders = v.folders /\ q.closed = v.closed /\ q.away = v.away
  BY <1>1, WithActive
<1>4. w = [q EXCEPT !.tab = r]
  BY <1>1 DEF Show, Described
<1> HIDE DEF q, w, r
<1>5. /\ Described(w) /\ w.rows = v.rows /\ w.tab = r /\ w.active = t
      /\ w.folders = v.folders /\ w.closed = v.closed /\ w.away = v.away
  BY <1>2, <1>3, <1>4, WithTab
<1>6. Marked(v, w)
  BY <1>2, <1>5 DEF Marked, SameFolders
<1>7. Paired(w)
  <2> SUFFICES ASSUME NEW u \in DOMAIN v.tab PROVE WholeSplit(w, u)
    BY <1>2, <1>5 DEF Paired
  <2>1. WholeSplit(v, u) /\ WholeSplit(v, t)
    BY <1>1 DEF Paired
  <2> DEFINE o == v.tab[u].partner
  <2>2. CASE o = None
    BY <1>2, <1>5, <2>2 DEF WholeSplit
  <2>3. CASE o # None
    <3>1. /\ u # None /\ o # u /\ o \in DOMAIN v.tab /\ v.tab[o].partner = u
          /\ ~v.tab[u].pinned /\ v.tab[u].focused # v.tab[o].focused
      BY <2>1, <2>3 DEF WholeSplit, Has
    <3>2. p # None => (u \in {t, p} <=> o \in {t, p}) /\ p # t
      BY <2>1, <3>1 DEF WholeSplit, Has
    <3>3. w.tab[u].focused # w.tab[o].focused
      <4>1. CASE p # None /\ u \in {t, p}
        <5>1. w.tab[u].focused = (u = t) /\ w.tab[o].focused = (o = t)
          BY <1>2, <1>5, <3>1, <3>2, <4>1
        <5> QED BY <3>1, <3>2, <4>1, <5>1
      <4>2. CASE ~(p # None /\ u \in {t, p})
        BY <1>2, <1>5, <3>1, <3>2, <4>2
      <4> QED BY <4>1, <4>2
    <3> QED BY <1>2, <1>5, <3>1, <3>3 DEF WholeSplit, Has
  <2> QED BY <2>2, <2>3
<1>8. Body(w)
  BY <1>6, <1>7, Remarked
<1> QED BY <1>2, <1>5, <1>8 DEF w, Live, Retabbed

\* unpairTab
LEMMA UnpairKeeps ==
  ASSUME NEW v, Body(v), NEW t \in DOMAIN v.tab
  PROVE  LET w == Unpair(v, t)
         IN  /\ Body(w) /\ Retabbed(v, w) /\ w.tab[t].partner = None /\ Apart(w, {t})
             /\ \A u \in DOMAIN v.tab : /\ w.tab[u].pinned = v.tab[u].pinned
                                        /\ w.tab[u].popped = v.tab[u].popped
             /\ w.active = v.active /\ w.closed = v.closed /\ w.away = v.away
<1> DEFINE p == v.tab[t].partner
           r == [u \in DOMAIN v.tab |->
                   IF p # None /\ u \in {t, p}
                   THEN [v.tab[u] EXCEPT !.partner = None, !.focused = FALSE] ELSE v.tab[u]]
           w == Unpair(v, t)
<1>1. Described(v) /\ Paired(v) /\ v.tab \in [DOMAIN v.tab -> Records]
  BY DEF Body, Listed, Described
<1>2. /\ DOMAIN r = DOMAIN v.tab /\ r \in [DOMAIN r -> Records] /\ DOMAIN r \subseteq Id
      /\ \A u \in DOMAIN v.tab : /\ r[u].pinned = v.tab[u].pinned
                                 /\ r[u].popped = v.tab[u].popped
                                 /\ IF p # None /\ u \in {t, p}
                                    THEN r[u].partner = None
                                    ELSE r[u] = v.tab[u]
  <2>1. ASSUME NEW u \in DOMAIN v.tab
        PROVE  /\ r[u] \in Records /\ r[u].pinned = v.tab[u].pinned
               /\ r[u].popped = v.tab[u].popped
               /\ IF p # None /\ u \in {t, p} THEN r[u].partner = None ELSE r[u] = v.tab[u]
    <3>1. v.tab[u] \in Records
      BY <1>1
    <3> QED BY <3>1 DEF Records, TabRecords
  <2>2. DOMAIN v.tab \subseteq Id
    BY <1>1 DEF Described
  <2> QED BY <2>1, <2>2
<1>3. w = [v EXCEPT !.tab = r]
  BY DEF Unpair
<1> HIDE DEF w, r
<1>4. /\ Described(w) /\ w.rows = v.rows /\ w.tab = r /\ w.active = v.active
      /\ w.folders = v.folders /\ w.closed = v.closed /\ w.away = v.away
  BY <1>1, <1>2, <1>3, WithTab
<1>5. Marked(v, w)
  BY <1>2, <1>4 DEF Marked, SameFolders
<1>6. w.tab[t].partner = None
  BY <1>2, <1>4
<1>7. \A u \in DOMAIN v.tab : w.tab[u].partner # None =>
         /\ w.tab[u] = v.tab[u] /\ u # t /\ v.tab[u].partner # t /\ v.tab[u].partner # p
         /\ v.tab[u].partner \in DOMAIN v.tab
         /\ w.tab[v.tab[u].partner] = v.tab[v.tab[u].partner]
  <2> SUFFICES ASSUME NEW u \in DOMAIN v.tab, w.tab[u].partner # None
               PROVE  /\ w.tab[u] = v.tab[u] /\ u # t
                      /\ v.tab[u].partner # t /\ v.tab[u].partner # p
                      /\ v.tab[u].partner \in DOMAIN v.tab
                      /\ w.tab[v.tab[u].partner] = v.tab[v.tab[u].partner]
    OBVIOUS
  <2>1. w.tab[u] = v.tab[u] /\ u # t /\ (p # None => u # p)
    BY <1>2, <1>4
  <2>2. WholeSplit(v, u) /\ WholeSplit(v, t)
    BY <1>1 DEF Paired
  <2>3. /\ v.tab[u].partner \in DOMAIN v.tab /\ v.tab[v.tab[u].partner].partner = u
        /\ u # None
    BY <2>1, <2>2 DEF WholeSplit, Has
  <2>4. v.tab[u].partner # t
    BY <2>1, <2>3
  <2>5. v.tab[u].partner # p
    <3>1. CASE p = None
      BY <2>1, <3>1
    <3>2. CASE p # None
      BY <2>1, <2>2, <2>3, <3>2 DEF WholeSplit, Has
    <3> QED BY <3>1, <3>2
  <2> QED BY <1>2, <1>4, <2>1, <2>3, <2>4, <2>5
<1>8. Paired(w)
  <2> SUFFICES ASSUME NEW u \in DOMAIN v.tab, w.tab[u].partner # None PROVE WholeSplit(w, u)
    BY <1>2, <1>4 DEF Paired, WholeSplit
  <2>1. WholeSplit(v, u)
    BY <1>1 DEF Paired
  <2> QED BY <1>2, <1>4, <1>7, <2>1 DEF WholeSplit, Has
<1>9. Apart(w, {t})
  BY <1>2, <1>4, <1>7 DEF Apart
<1>10. Body(w)
  BY <1>5, <1>8, Remarked
<1> QED BY <1>2, <1>4, <1>6, <1>9, <1>10 DEF w, Retabbed

-----------------------------------------------------------------------------
(* Rows of tabs                                                            *)

\* The row of a tab is the one it stands on.
LEMMA RowIs ==
  ASSUME NEW v, Listed(v)
  PROVE  /\ Len(v.rows) \in Nat /\ \A i \in 1 .. Len(v.rows) : v.rows[i] \in DOMAIN v.tab
         /\ \A t \in DOMAIN v.tab : Row(v, t) \in 1 .. Len(v.rows) /\ v.rows[Row(v, t)] = t
         /\ \A t : t \notin DOMAIN v.tab => Row(v, t) = 0
         /\ \A i, j \in 1 .. Len(v.rows) : v.rows[i] = v.rows[j] => i = j
<1>1. /\ Len(v.rows) \in Nat /\ \A i \in 1 .. Len(v.rows) : v.rows[i] \in DOMAIN v.tab
      /\ \A t \in DOMAIN v.tab : \E i \in 1 .. Len(v.rows) : v.rows[i] = t
      /\ \A i, j \in 1 .. Len(v.rows) : v.rows[i] = v.rows[j] => i = j
  <2>1. v.rows \in Seq(DOMAIN v.tab) /\ ToSet(v.rows) = DOMAIN v.tab /\ Once(v.rows)
    BY DEF Listed, Lists
  <2>2. \A t \in ToSet(v.rows) : \E i \in 1 .. Len(v.rows) : v.rows[i] = t
    BY <2>1, Members
  <2> QED BY <2>1, <2>2 DEF Once
<1>2. ASSUME NEW t
      PROVE  LET I == {i \in 1 .. Len(v.rows) : v.rows[i] = t}
             IN  Row(v, t) = IF I # {} THEN Min(I) ELSE 0
  BY DEF Row, SelectInSeq
<1>3. ASSUME NEW t \in DOMAIN v.tab
      PROVE  Row(v, t) \in 1 .. Len(v.rows) /\ v.rows[Row(v, t)] = t
  <2> DEFINE I == {i \in 1 .. Len(v.rows) : v.rows[i] = t}
  <2>1. I # {} /\ I \subseteq Nat
    BY <1>1
  <2>2. Row(v, t) = Min(I)
    BY <1>2, <2>1
  <2> HIDE DEF I
  <2>3. Min(I) \in I
    BY <2>1, Least
  <2> QED BY <2>2, <2>3 DEF I
<1>4. ASSUME NEW t, t \notin DOMAIN v.tab
      PROVE  Row(v, t) = 0
  <2>1. {i \in 1 .. Len(v.rows) : v.rows[i] = t} = {}
    BY <1>1, <1>4
  <2> QED BY <1>2, <2>1
<1> QED BY <1>1, <1>3, <1>4

\* The nearest of some tabs is one of them.
LEMMA NearestIs ==
  ASSUME NEW v, Listed(v), NEW from \in 0 .. Len(v.rows), NEW wanted,
         Nearest(v, from, wanted) # None
  PROVE  Nearest(v, from, wanted) \in wanted
<1> DEFINE above == {r \in 1 .. from - 1 : v.rows[r] \in wanted}
           below == {r \in from + 1 .. Len(v.rows) : v.rows[r] \in wanted}
<1>1. Len(v.rows) \in Nat
  BY RowIs
<1>2. above \subseteq 1 .. Len(v.rows) /\ below \subseteq Nat
  BY <1>1
<1>3. Nearest(v, from, wanted) = IF above # {} THEN v.rows[Max(above)]
                                 ELSE IF below # {} THEN v.rows[Min(below)] ELSE None
  BY DEF Nearest
<1>4. CASE above # {}
  <2>1. Max(above) \in above
    <3> HIDE DEF above
    <3> QED BY <1>1, <1>2, <1>4, Greatest
  <2> QED BY <1>3, <1>4, <2>1
<1>5. CASE above = {} /\ below # {}
  <2>1. Min(below) \in below
    <3> HIDE DEF below
    <3> QED BY <1>2, <1>5, Least
  <2> QED BY <1>3, <1>5, <2>1
<1> QED BY <1>3, <1>4, <1>5

\* What is shown in place of a tab is a tab.
LEMMA SuccessorIs ==
  ASSUME NEW v, Listed(v), NEW t, Successor(v, t) # None
  PROVE  Successor(v, t) \in DOMAIN v.tab
<1> DEFINE wanted == {u \in DOMAIN v.tab : Selectable(v, u)}
           from == Row(v, t)
<1>1. from \in 0 .. Len(v.rows)
  BY RowIs
<1>2. Nearest(v, from, wanted) # None => Nearest(v, from, wanted) \in wanted
  <2> HIDE DEF wanted, from
  <2> QED BY <1>1, NearestIs
<1> QED BY <1>2 DEF Successor, Has

\* What is shown after tabs leave is none of them.
LEMMA AfterLeavingIs ==
  ASSUME NEW v, Listed(v), NEW T, AfterLeaving(v, T) # None
  PROVE  AfterLeaving(v, T) \in DOMAIN v.tab \ T
<1> DEFINE In(f) == {u \in DOMAIN v.tab \ T :
                       ~v.tab[u].pinned /\ Selectable(v, u) /\ FolderOf(v, u) = f}
           from == Row(v, v.active)
           near(f) == Nearest(v, from, In(f))
           folder == FolderOf(v, v.active)
<1>1. from \in 0 .. Len(v.rows)
  BY RowIs
<1>2. \A f : near(f) # None => near(f) \in DOMAIN v.tab \ T
  <2> SUFFICES ASSUME NEW f, near(f) # None PROVE near(f) \in DOMAIN v.tab \ T
    OBVIOUS
  <2> DEFINE wanted == In(f)
  <2>1. wanted \subseteq DOMAIN v.tab \ T /\ near(f) = Nearest(v, from, wanted)
    OBVIOUS
  <2> HIDE DEF wanted, from, near
  <2> QED BY <1>1, <2>1, NearestIs
<1>3. AfterLeaving(v, T) = IF folder # 0 /\ ~v.folders[folder].collapsed /\ near(folder) # None
                           THEN near(folder) ELSE near(0)
  BY DEF AfterLeaving
<1> QED BY <1>2, <1>3

-----------------------------------------------------------------------------
(* Opening                                                                 *)

\* The records of new tabs.
LEMMA NewTabs ==
  ASSUME NEW page \in BOOLEAN
  PROVE  /\ NewTab(page) \in Records /\ NewTab(page).partner = None
         /\ ~NewTab(page).pinned /\ ~NewTab(page).popped /\ NewTab(page).page = page
         /\ [NewTab(page) EXCEPT !.popped = TRUE] \in Records
         /\ [NewTab(page) EXCEPT !.popped = TRUE].partner = None
         /\ ~[NewTab(page) EXCEPT !.popped = TRUE].pinned
BY DEF NewTab, Records, TabRecords

\* Nothing but which tab is active changes.
LEMMA Activating ==
  ASSUME NEW v, Body(v), NEW t \in DOMAIN v.tab \cup {None}
  PROVE  LET w == [v EXCEPT !.active = t]
         IN  /\ Live(w) /\ Retabbed(v, w) /\ w.tab = v.tab /\ w.active = t
             /\ w.closed = v.closed /\ w.away = v.away
<1> DEFINE w == [v EXCEPT !.active = t]
<1>1. Described(v)
  BY DEF Body, Listed
<1>2. /\ Described(w) /\ w.rows = v.rows /\ w.tab = v.tab /\ w.active = t
      /\ w.folders = v.folders /\ w.closed = v.closed /\ w.away = v.away
  BY <1>1, WithActive
<1> HIDE DEF w
<1>3. Marked(v, w)
  BY <1>2 DEF Marked, SameFolders
<1>4. Paired(w)
  BY <1>2 DEF Body, Paired, WholeSplit, Has
<1>5. Body(w)
  BY <1>3, <1>4, Remarked
<1> QED BY <1>2, <1>5 DEF w, Live, Retabbed

\* appendActiveTab
LEMMA OpenKeeps ==
  ASSUME NEW v, Body(v), NEW t \in Id \ DOMAIN v.tab, NEW page \in BOOLEAN
  PROVE  LET w == OpenTab(v, t, page)
         IN  /\ Live(w) /\ DOMAIN w.tab = DOMAIN v.tab \cup {t} /\ w.active = t
             /\ w.folders = v.folders /\ w.closed = v.closed /\ w.away = v.away
             /\ w.tab[t] = NewTab(page) /\ \A u \in DOMAIN v.tab : w.tab[u] = v.tab[u]
<1> DEFINE u == AppendTab(v, t, NewTab(page))
           w == OpenTab(v, t, page)
<1>1. /\ Body(u) /\ DOMAIN u.tab = DOMAIN v.tab \cup {t} /\ u.folders = v.folders
      /\ u.closed = v.closed /\ u.away = v.away /\ u.tab[t] = NewTab(page)
      /\ \A x \in DOMAIN v.tab : u.tab[x] = v.tab[x]
  <2> DEFINE rec == NewTab(page)
  <2>1. rec \in Records /\ rec.partner = None /\ ~rec.pinned
    BY NewTabs
  <2> HIDE DEF rec
  <2>2. LET w1 == AppendTab(v, t, rec)
        IN  /\ Body(w1) /\ DOMAIN w1.tab = DOMAIN v.tab \cup {t} /\ w1.folders = v.folders
            /\ w1.closed = v.closed /\ w1.away = v.away /\ w1.tab[t] = rec
            /\ \A x \in DOMAIN v.tab : w1.tab[x] = v.tab[x]
    BY <2>1, Appending
  <2> QED BY <2>2 DEF rec
<1>2. w = [u EXCEPT !.active = t]
  BY DEF OpenTab
<1> HIDE DEF u, w
<1>3. t \in DOMAIN u.tab \cup {None}
  BY <1>1
<1>4. /\ Live(w) /\ Retabbed(u, w) /\ w.tab = u.tab /\ w.active = t
      /\ w.closed = u.closed /\ w.away = u.away
  BY <1>1, <1>2, <1>3, Activating
<1> QED BY <1>1, <1>4 DEF w, Retabbed

\* Counts of closed pages and pages put away.
LEMMA Counting ==
  ASSUME NEW v, Body(v), NEW c \in 0 .. MaxClosed, NEW a \in Nat
  PROVE  LET w == [v EXCEPT !.closed = c]
             x == [v EXCEPT !.away = a]
         IN  /\ Body(w) /\ Retabbed(v, w) /\ w.tab = v.tab /\ w.active = v.active
             /\ w.closed = c /\ w.away = v.away
             /\ Body(x) /\ Retabbed(v, x) /\ x.tab = v.tab /\ x.active = v.active
             /\ x.closed = v.closed /\ x.away = a
<1> DEFINE w == [v EXCEPT !.closed = c]
           x == [v EXCEPT !.away = a]
<1>1. Described(v)
  BY DEF Body, Listed
<1>2. /\ Described(w) /\ w.rows = v.rows /\ w.tab = v.tab /\ w.active = v.active
      /\ w.folders = v.folders /\ w.closed = c /\ w.away = v.away
  BY <1>1 DEF Described
<1>3. /\ Described(x) /\ x.rows = v.rows /\ x.tab = v.tab /\ x.active = v.active
      /\ x.folders = v.folders /\ x.closed = v.closed /\ x.away = a
  BY <1>1 DEF Described
<1> HIDE DEF w, x
<1>4. Marked(v, w) /\ Marked(v, x)
  BY <1>2, <1>3 DEF Marked, SameFolders
<1>5. Paired(w) /\ Paired(x)
  BY <1>2, <1>3 DEF Body, Paired, WholeSplit, Has
<1>6. Body(w) /\ Body(x)
  BY <1>4, <1>5, Remarked
<1> QED BY <1>2, <1>3, <1>6 DEF w, x, Retabbed

\* rememberClosedTab
LEMMA RememberKeeps ==
  ASSUME NEW v, Body(v), NEW t
  PROVE  LET w == Remember(v, t)
         IN  Body(w) /\ Retabbed(v, w) /\ w.tab = v.tab /\ w.active = v.active /\ w.away = v.away
<1> DEFINE I == {v.closed + 1, MaxClosed}
<1>1. v.closed \in 0 .. MaxClosed /\ MaxClosed \in Nat /\ v.away \in Nat
  BY TabAssumption DEF Body, Listed, Described
<1>2. I \subseteq Nat /\ I # {} /\ \A i \in I : i = v.closed + 1 \/ i = MaxClosed
  BY <1>1
<1>3. Min(I) \in I /\ \A i \in I : Min(I) <= i
  <2> HIDE DEF I
  <2> QED BY <1>2, Least
<1>4. Min(I) \in 0 .. MaxClosed
  BY <1>1, <1>3
<1>5. LET w == [v EXCEPT !.closed = Min(I)]
      IN  /\ Body(w) /\ Retabbed(v, w) /\ w.tab = v.tab /\ w.active = v.active
          /\ w.away = v.away
  <2> HIDE DEF I
  <2> QED BY <1>1, <1>4, Counting
<1> QED BY <1>5 DEF Remember, Retabbed


-----------------------------------------------------------------------------
(* Closing                                                                 *)

\* Tabs leave the Folders and stay in the Space, no split half of them.
LEMMA LeftSorted ==
  ASSUME NEW v, Body(v), NEW T, Apart(v, T)
  PROVE  LET w == Settle(LeaveFolders(v, T))
         IN  /\ Body(w) /\ w.tab = v.tab /\ w.active = v.active
             /\ DOMAIN w.folders = DOMAIN v.folders
<1> DEFINE u == LeaveFolders(v, T)
<1>1. Listed(v) /\ Paired(v) /\ Filed(v) /\ Described(v)
  BY DEF Body, Listed
<1>2. /\ Described(u) /\ u.rows = v.rows /\ u.tab = v.tab /\ u.active = v.active
      /\ DOMAIN u.folders = DOMAIN v.folders
  BY <1>1, Leaving
<1>3. Filed(u)
  BY <1>1, LeavingFiled
<1> HIDE DEF u
<1>4. Listed(u) /\ Paired(u)
  BY <1>1, <1>2 DEF Listed, Paired, WholeSplit, Has
<1>5. FirstIn(u.rows, Pinned(u))
  <2>1. Pinned(u) = Pinned(v)
    BY <1>2 DEF Pinned
  <2> QED BY <1>2, <2>1, SortedPins
<1>6. LET w == Settle(u)
      IN  Body(w) /\ w.tab = u.tab /\ w.active = u.active /\ w.folders = u.folders
  BY <1>3, <1>4, <1>5, SettleSorts
<1> QED BY <1>2, <1>6 DEF u

\* A tab that leaves its split and its Folder leaves the list.
LEMMA TakeOff ==
  ASSUME NEW v, Body(v), NEW t \in DOMAIN v.tab
  PROVE  LET u == Unpair(v, t)
             w == RemoveTab(u, t)
         IN  /\ Body(w) /\ DOMAIN w.tab = DOMAIN v.tab \ {t} /\ w.active = v.active
             /\ w.rows = Without(v.rows, {t})
<1> DEFINE u == Unpair(v, t)
           w == RemoveTab(u, t)
           T == {t}
<1>1. Body(u) /\ Retabbed(v, u) /\ Apart(u, {t}) /\ u.active = v.active
  BY UnpairKeeps
<1>2. w = RemoveTabs(u, T)
  BY DEF RemoveTab
<1>3. Apart(u, T)
  BY <1>1
<1> HIDE DEF u, w, T
<1>4. /\ Body(w) /\ DOMAIN w.tab = DOMAIN u.tab \ T /\ w.active = u.active
      /\ w.rows = Without(u.rows, T)
  BY <1>1, <1>2, <1>3, TabsGone
<1> QED BY <1>1, <1>4 DEF Retabbed, u, w, T

\* A blank tab comes in place of the one that leaves.
LEMMA TakeOver ==
  ASSUME NEW v, Body(v), NEW t \in DOMAIN v.tab, NEW b \in Id \ DOMAIN v.tab
  PROVE  LET u == AppendTab(Unpair(v, t), b, NewTab(FALSE))
             w == Show(RemoveTab(u, t), b)
         IN  Live(w) /\ DOMAIN w.tab = (DOMAIN v.tab \ {t}) \cup {b} /\ w.active = b
<1> DEFINE x == Unpair(v, t)
           rec == NewTab(FALSE)
           u == AppendTab(x, b, rec)
           T == {t}
           y == RemoveTab(u, t)
           w == Show(y, b)
<1>1. Body(x) /\ Retabbed(v, x) /\ Apart(x, T)
  BY UnpairKeeps
<1>2. rec \in Records /\ rec.partner = None /\ ~rec.pinned
  BY NewTabs
<1>3. DOMAIN x.tab = DOMAIN v.tab
  BY <1>1 DEF Retabbed
<1> HIDE DEF x, rec
<1>4. /\ Body(u) /\ DOMAIN u.tab = DOMAIN x.tab \cup {b} /\ u.tab[b] = rec
      /\ \A z \in DOMAIN x.tab : u.tab[z] = x.tab[z]
  BY <1>1, <1>2, <1>3, Appending
<1>5. y = RemoveTabs(u, T)
  BY DEF RemoveTab
<1>6. Apart(u, T)
  <2> HIDE DEF T, u
  <2> QED BY <1>1, <1>2, <1>4 DEF Apart
<1> HIDE DEF u
<1>7. Body(y) /\ DOMAIN y.tab = DOMAIN u.tab \ T
  <2> HIDE DEF y, T
  <2> QED BY <1>4, <1>5, <1>6, TabsGone
<1> HIDE DEF y
<1>8. b \in DOMAIN y.tab
  BY <1>3, <1>4, <1>7
<1>9. Live(w) /\ Retabbed(y, w) /\ w.active = b
  BY <1>7, <1>8, ShowKeeps
<1>10. DOMAIN w.tab = (DOMAIN v.tab \ {t}) \cup {b}
  BY <1>3, <1>4, <1>7, <1>9 DEF Retabbed
<1> QED BY <1>9, <1>10 DEF w, y, u, x, rec

\* The last tab of a Space is emptied.
LEMMA Emptied ==
  ASSUME NEW v, Body(v), NEW t \in DOMAIN v.tab, Len(v.rows) = 1
  PROVE  LET w == Settle(LeaveFolders([v EXCEPT !.tab[t].page = FALSE], {t}))
         IN  Body(w) /\ DOMAIN w.tab = DOMAIN v.tab /\ w.active = v.active
<1> DEFINE rec == [v.tab[t] EXCEPT !.page = FALSE]
           u == [v EXCEPT !.tab[t] = rec]
           T == {t}
<1>1. Listed(v) /\ Described(v)
  BY DEF Body, Listed
<1>2. /\ rec \in Records /\ rec.pinned = v.tab[t].pinned /\ rec.partner = v.tab[t].partner
      /\ rec.focused = v.tab[t].focused
  BY ZenonT(60), <1>1, Remarks DEF Records, TabRecords
<1>3. [v EXCEPT !.tab[t].page = FALSE] = u
  OBVIOUS
<1> HIDE DEF rec
<1>4. Body(u) /\ Retabbed(v, u) /\ u.active = v.active
  BY <1>2, MarkingOne
<1>5. DOMAIN u.tab = DOMAIN v.tab
  BY <1>4 DEF Retabbed
<1>6. DOMAIN v.tab \subseteq T
  BY <1>1, RowIs
<1> HIDE DEF u, T
<1>7. Apart(u, T)
  BY <1>5, <1>6 DEF Apart
<1>8. LET w == Settle(LeaveFolders(u, T)) IN Body(w) /\ w.tab = u.tab /\ w.active = u.active
  BY <1>4, <1>7, LeftSorted
<1> QED BY <1>3, <1>4, <1>5, <1>8 DEF T

\* The tab shown in place of one that closes is another of the Space.
LEMMA NeighbourIs ==
  ASSUME NEW v, Listed(v), NEW t \in DOMAIN v.tab, Len(v.rows) # 1
  PROVE  v.rows[IF Row(v, t) = 1 THEN 2 ELSE Row(v, t) - 1] \in DOMAIN v.tab \ {t}
<1> DEFINE n == Len(v.rows)
           r == Row(v, t)
           i == IF r = 1 THEN 2 ELSE r - 1
<1>1. /\ n \in Nat /\ \A k \in 1 .. n : v.rows[k] \in DOMAIN v.tab
      /\ r \in 1 .. n /\ v.rows[r] = t
      /\ \A k, j \in 1 .. n : v.rows[k] = v.rows[j] => k = j
  BY RowIs
<1>2. i \in 1 .. n /\ i # r
  <2>1. n \in Nat /\ n # 1 /\ r \in 1 .. n
    BY <1>1
  <2> HIDE DEF r, n
  <2> QED BY <2>1
<1> HIDE DEF i, r, n
<1>3. v.rows[i] \in DOMAIN v.tab \ {t}
  BY <1>1, <1>2
<1> QED BY <1>3 DEF i, r

\* A Space that can be closed down to b: b is not in it, or is on show.
Restable(v, b) == b \in DOMAIN v.tab => v.active = b

\* closeTab keeps the Space on show in order, and rests on b when it must.
LEMMA CloseKeeps ==
  ASSUME NEW v, Live(v), NEW b \in Id, NEW t, t # b, Restable(v, b)
  PROVE  LET w == CloseTab(v, t, b)
         IN  Live(w) /\ DOMAIN w.tab \subseteq DOMAIN v.tab \cup {b} /\ Restable(w, b)
<1> DEFINE r == Remember(v, t)
           p == v.tab[t].partner
           w == Unpair(r, t)
           next == IF p # None THEN p
                   ELSE IF FoldersHeld(v) THEN AfterLeaving(w, {t})
                   ELSE w.rows[IF Row(w, t) = 1 THEN 2 ELSE Row(w, t) - 1]
           c == CloseTab(v, t, b)
<1>1. Body(v) /\ Paired(v) /\ v.active \in DOMAIN v.tab \cup {None}
  BY DEF Live, Body
<1>2. CASE ~Has(v, t) \/ v.tab[t].pinned
  <2>1. c = v
    BY <1>2 DEF CloseTab
  <2> QED BY <2>1
<1>3. CASE Has(v, t) /\ ~v.tab[t].pinned /\ Len(v.rows) = 1
  <2>1. t \in DOMAIN v.tab
    BY <1>3 DEF Has
  <2>2. /\ Body(r) /\ DOMAIN r.tab = DOMAIN v.tab /\ r.active = v.active /\ r.rows = v.rows
    BY <1>1, RememberKeeps DEF Retabbed
  <2>3. c = Settle(LeaveFolders([r EXCEPT !.tab[t].page = FALSE], {t}))
    BY <1>3 DEF CloseTab
  <2> HIDE DEF r, c
  <2>4. t \in DOMAIN r.tab /\ Len(r.rows) = 1
    BY <1>3, <2>1, <2>2
  <2>5. Body(c) /\ DOMAIN c.tab = DOMAIN r.tab /\ c.active = r.active
    BY <2>2, <2>3, <2>4, Emptied
  <2> QED BY <1>1, <2>2, <2>5 DEF Live, Restable, c
<1>4. CASE Has(v, t) /\ ~v.tab[t].pinned /\ Len(v.rows) # 1
  <2>1. t \in DOMAIN v.tab
    BY <1>4 DEF Has
  <2>2. /\ Body(r) /\ DOMAIN r.tab = DOMAIN v.tab /\ r.active = v.active /\ r.rows = v.rows
    BY <1>1, RememberKeeps DEF Retabbed
  <2>3. c = IF t # v.active THEN RemoveTab(w, t)
            ELSE IF next = None
            THEN Show(RemoveTab(AppendTab(w, b, NewTab(FALSE)), t), b)
            ELSE Show(RemoveTab(w, t), next)
    BY <1>4 DEF CloseTab
  <2>4. t \in DOMAIN r.tab
    BY <2>1, <2>2
  <2> HIDE DEF r
  <2>5. /\ Body(RemoveTab(w, t)) /\ DOMAIN RemoveTab(w, t).tab = DOMAIN r.tab \ {t}
        /\ RemoveTab(w, t).active = r.active
    BY <2>2, <2>4, TakeOff
  <2>6. Listed(w) /\ DOMAIN w.tab = DOMAIN r.tab /\ w.rows = r.rows
    BY <2>2, <2>4, UnpairKeeps DEF Body, Retabbed
  <2> HIDE DEF w, c
  <2>7. next # None => next \in DOMAIN r.tab \ {t}
    <3>1. CASE p # None
      <4>1. WholeSplit(v, t)
        BY <1>1, <2>1 DEF Paired
      <4> QED BY <2>2, <3>1, <4>1 DEF WholeSplit, Has
    <3>2. CASE p = None /\ FoldersHeld(v)
      <4> DEFINE T == {t}
      <4> HIDE DEF T
      <4>1. AfterLeaving(w, T) # None => AfterLeaving(w, T) \in DOMAIN w.tab \ T
        BY <2>6, AfterLeavingIs
      <4> QED BY <2>6, <3>2, <4>1 DEF T
    <3>3. CASE p = None /\ ~FoldersHeld(v)
      <4>1. t \in DOMAIN w.tab /\ Len(w.rows) # 1
        BY <1>4, <2>2, <2>4, <2>6
      <4>2. w.rows[IF Row(w, t) = 1 THEN 2 ELSE Row(w, t) - 1] \in DOMAIN w.tab \ {t}
        BY <2>6, <4>1, NeighbourIs
      <4> QED BY <2>6, <3>3, <4>2
    <3> QED BY <3>1, <3>2, <3>3
  <2> HIDE DEF next
  <2>8. CASE t # v.active
    BY <1>1, <2>2, <2>3, <2>5, <2>8 DEF Live, Restable, c
  <2>9. CASE t = v.active /\ next = None
    <3>1. b \in Id \ DOMAIN r.tab
      BY <2>2, <2>9 DEF Restable
    <3> DEFINE x == Show(RemoveTab(AppendTab(Unpair(r, t), b, NewTab(FALSE)), t), b)
    <3>2. Body(r)
      BY <2>2
    <3>3. Live(x) /\ DOMAIN x.tab = (DOMAIN r.tab \ {t}) \cup {b} /\ x.active = b
      BY <2>4, <3>1, <3>2, TakeOver
    <3>4. c = x
      BY <2>3, <2>9 DEF w
    <3> HIDE DEF x
    <3> QED BY <2>2, <3>3, <3>4 DEF Restable, c
  <2>10. CASE t = v.active /\ next # None
    <3> DEFINE x == RemoveTab(w, t)
    <3>1. Body(x) /\ next \in DOMAIN x.tab /\ DOMAIN x.tab = DOMAIN r.tab \ {t}
      BY <2>5, <2>7, <2>10
    <3>2. c = Show(x, next)
      BY <2>3, <2>10
    <3> HIDE DEF x
    <3>3. Live(c) /\ DOMAIN c.tab = DOMAIN x.tab /\ c.active = next
      BY <3>1, <3>2, ShowKeeps DEF Retabbed
    <3>4. b \notin DOMAIN c.tab
      BY <2>2, <2>10, <3>1, <3>3 DEF Restable
    <3> QED BY <2>2, <3>1, <3>3, <3>4 DEF Restable, c
  <2> QED BY <2>8, <2>9, <2>10
<1> QED BY <1>2, <1>3, <1>4 DEF Has

\* All there is of a view.
Views ==
  [rows : Seq(Id), tab : UNION {[T -> Records] : T \in SUBSET Id}, active : Id,
   folders : Seq(FolderRecords), closed : 0 .. MaxClosed, away : Nat]

LEMMA LiveViews ==
  ASSUME NEW v, Live(v)
  PROVE  v \in Views
<1>1. Described(v) /\ v.rows \in Seq(Id) /\ v.active \in Id
  BY ListsIn DEF Live, Body, Listed, Described, Id
<1>2. v.tab \in UNION {[T -> Records] : T \in SUBSET Id}
  BY <1>1 DEF Described
<1>3. v \in [rows : Seq(Id), tab : UNION {[T -> Records] : T \in SUBSET Id}, active : Id,
             folders : Seq(FolderRecords), closed : 0 .. MaxClosed, away : Nat]
  <2> DEFINE R == Seq(Id)
             B == UNION {[T -> Records] : T \in SUBSET Id}
             F == Seq(FolderRecords)
             C == 0 .. MaxClosed
  <2>1. /\ v = [rows |-> v.rows, tab |-> v.tab, active |-> v.active, folders |-> v.folders,
                closed |-> v.closed, away |-> v.away]
        /\ v.rows \in R /\ v.tab \in B /\ v.active \in Id /\ v.folders \in F
        /\ v.closed \in C /\ v.away \in Nat
    BY <1>1, <1>2 DEF Described
  <2> HIDE DEF R, B, F, C
  <2>2. v \in [rows : R, tab : B, active : Id, folders : F, closed : C, away : Nat]
    BY <2>1
  <2> QED BY <2>2 DEF R, B, F, C
<1> QED BY <1>3 DEF Views

\* Tabs are closed one after the other.
LEMMA CloseAllKeeps ==
  ASSUME NEW v, Live(v), NEW b \in Id, NEW S, NEW ts \in Seq(S), b \notin S, Restable(v, b)
  PROVE  LET w == CloseAll(v, ts, b)
         IN  Live(w) /\ DOMAIN w.tab \subseteq DOMAIN v.tab \cup {b} /\ Restable(w, b)
<1> DEFINE n == Len(ts)
           B == DOMAIN v.tab \cup {b}
           D == {u \in Views : Live(u) /\ DOMAIN u.tab \subseteq B /\ Restable(u, b)}
           g == [p \in D \X (1 .. n) |-> CloseTab(p[1], ts[p[2]], b)]
           upTo == CHOOSE f : f = [i \in 0 .. n |->
                      IF i = 0 THEN v ELSE CloseTab(f[i - 1], ts[i], b)]
<1>1. n \in Nat /\ \A i \in 1 .. n : ts[i] # b
  OBVIOUS
<1>2. v \in D
  BY LiveViews
<1>3. ASSUME NEW u \in D, NEW i \in 1 .. n
      PROVE  CloseTab(u, ts[i], b) \in D
  <2> DEFINE c == CloseTab(u, ts[i], b)
             t == ts[i]
  <2>1. Live(u) /\ Restable(u, b) /\ DOMAIN u.tab \subseteq B
    OBVIOUS
  <2>2. t # b
    BY <1>1
  <2> HIDE DEF t
  <2>3. LET w == CloseTab(u, t, b)
        IN  Live(w) /\ DOMAIN w.tab \subseteq DOMAIN u.tab \cup {b} /\ Restable(w, b)
    BY <2>1, <2>2, CloseKeeps
  <2>4. Live(c) /\ DOMAIN c.tab \subseteq DOMAIN u.tab \cup {b} /\ Restable(c, b)
    BY <2>3 DEF t
  <2> HIDE DEF c
  <2>5. c \in Views
    BY <2>4, LiveViews
  <2>6. DOMAIN c.tab \subseteq B
    BY <2>1, <2>4
  <2> QED BY <2>4, <2>5, <2>6 DEF c
<1>4. CloseAll(v, ts, b) = upTo[n]
  BY DEF CloseAll
<1>5. g \in [D \X (1 .. n) -> D]
  BY <1>3
<1>6. PICK f : Unfolds(f, D, n, v, g)
  <2> HIDE DEF n, D, g, upTo
  <2> QED BY <1>1, <1>2, <1>5, Unfolding
<1>7. f \in [0 .. n -> D] /\ f[0] = v /\ \A i \in 1 .. n : f[i] = g[<<f[i - 1], i>>]
  BY <1>6 DEF Unfolds
<1>8. ASSUME NEW i \in 1 .. n
      PROVE  f[i] = CloseTab(f[i - 1], ts[i], b)
  <2> HIDE DEF D, n
  <2>1. i - 1 \in 0 .. n
    BY <1>1
  <2>2. <<f[i - 1], i>> \in D \X (1 .. n)
    BY <1>7, <2>1
  <2> QED BY <1>7, <2>2
<1> HIDE DEF D, g
<1>9. f = [i \in 0 .. n |-> IF i = 0 THEN v ELSE CloseTab(f[i - 1], ts[i], b)]
  <2> DEFINE h == [i \in 0 .. n |-> IF i = 0 THEN v ELSE CloseTab(f[i - 1], ts[i], b)]
  <2> HIDE DEF n
  <2>1. ASSUME NEW i \in 0 .. n PROVE f[i] = h[i]
    <3>1. i = 0 \/ i \in 1 .. n
      BY <1>1
    <3> QED BY <1>7, <1>8, <3>1
  <2> QED BY <1>7, <2>1
<1>10. upTo = [i \in 0 .. n |-> IF i = 0 THEN v ELSE CloseTab(upTo[i - 1], ts[i], b)]
  BY <1>9
<1>11. \A i \in 0 .. n : upTo[i] = IF i = 0 THEN v ELSE CloseTab(upTo[i - 1], ts[i], b)
  <2> HIDE DEF upTo, n
  <2> QED BY <1>10
<1> HIDE DEF upTo, n
<1>12. \A i \in 0 .. n : upTo[i] \in D
  <2> DEFINE Q == {i \in 0 .. n : upTo[i] \in D}
  <2>1. 0 \in Q
    BY <1>1, <1>2, <1>11
  <2>2. ASSUME NEW i \in 0 .. n - 1, i \in Q
        PROVE  i + 1 \in Q
    <3>1. i + 1 \in 1 .. n /\ (i + 1) - 1 = i /\ i + 1 # 0 /\ i + 1 \in 0 .. n
      BY <1>1
    <3>2. upTo[i + 1] = CloseTab(upTo[i], ts[i + 1], b)
      BY <1>11, <3>1
    <3> QED BY <1>3, <2>2, <3>1, <3>2
  <2> HIDE DEF Q
  <2>3. \A i \in 0 .. n : i \in Q
    BY <1>1, <2>1, <2>2, UpTo
  <2> QED BY <2>3 DEF Q
<1>13. upTo[n] \in D
  BY <1>1, <1>12
<1> QED BY <1>4, <1>13 DEF D

\* closeOtherTabs and closeTabsBelow
LEMMA SweepKeeps ==
  ASSUME NEW v, Live(v), NEW t \in DOMAIN v.tab, NEW b \in Id \ DOMAIN v.tab
  PROVE  LET w == CloseOthers(v, t, b)
             x == CloseBelow(v, t, b)
         IN  /\ Live(w) /\ DOMAIN w.tab \subseteq DOMAIN v.tab \cup {b}
             /\ Live(x) /\ DOMAIN x.tab \subseteq DOMAIN v.tab \cup {b}
<1> DEFINE D == DOMAIN v.tab
           n == Len(v.rows)
<1>1. v.rows \in Seq(D) /\ Row(v, t) \in 1 .. n /\ n \in Nat /\ Listed(v)
  BY RowIs DEF Live, Body, Listed, Lists
<1>2. ASSUME NEW from \in 1 .. n + 1
      PROVE  Sweep(v, t, from) \in Seq(D)
  <2> DEFINE s == SubSeq(v.rows, from, n)
             Q == Pinned(v) \cup Held(v) \cup {t, v.tab[t].partner}
  <2>1. n \in 0 .. n /\ from <= n + 1
    BY <1>1
  <2>2. s \in Seq(D)
    BY <1>1, <2>1, Cut
  <2> HIDE DEF s, Q
  <2>3. Without(s, Q) \in Seq(D)
    BY <2>2, WithoutMembers
  <2> QED BY <2>3 DEF Sweep, s, Q
<1>3. Restable(v, b) /\ b \notin D
  BY DEF Restable
<1>4. Sweep(v, t, 1) \in Seq(D) /\ Sweep(v, t, Row(v, t) + 1) \in Seq(D)
  <2>1. 1 \in 1 .. n + 1 /\ Row(v, t) + 1 \in 1 .. n + 1
    BY <1>1
  <2> QED BY <1>2, <2>1
<1> DEFINE s == Sweep(v, t, 1)
           u == Sweep(v, t, Row(v, t) + 1)
<1>5. CloseOthers(v, t, b) = CloseAll(v, s, b) /\ CloseBelow(v, t, b) = CloseAll(v, u, b)
  BY DEF CloseOthers, CloseBelow
<1>6. s \in Seq(D) /\ u \in Seq(D)
  BY <1>4
<1> HIDE DEF s, u
<1>7. LET w == CloseAll(v, s, b)
          x == CloseAll(v, u, b)
      IN  /\ Live(w) /\ DOMAIN w.tab \subseteq DOMAIN v.tab \cup {b}
          /\ Live(x) /\ DOMAIN x.tab \subseteq DOMAIN v.tab \cup {b}
  BY <1>3, <1>6, CloseAllKeeps
<1> QED BY <1>5, <1>7

-----------------------------------------------------------------------------
(* A copy beside its row                                                   *)

\* A tab and the other half of its split.
Row2(v, t) == {t} \cup ({v.tab[t].partner} \ {None})

\* wholeRows, for one tab: its row is the tab and the other half of its split.
LEMMA WholeRowIs ==
  ASSUME NEW v, Listed(v), Paired(v), NEW t \in DOMAIN v.tab
  PROVE  LET r == WholeRow(v, t)
         IN  /\ Lists(r, Row2(v, t)) /\ Row2(v, t) \subseteq DOMAIN v.tab
             /\ Len(r) \in 1 .. 2 /\ Head(r) \in Row2(v, t) /\ r[Len(r)] \in Row2(v, t)
             /\ r # <<>>
             /\ \A u \in Row2(v, t) : u # t =>
                  /\ u \in Tab /\ ~v.tab[u].pinned /\ ~v.tab[t].pinned
                  /\ v.tab[u].partner = t /\ v.tab[t].partner = u
<1> DEFINE p == v.tab[t].partner
           r == WholeRow(v, t)
<1>1. p # None => /\ p # t /\ p \in DOMAIN v.tab /\ v.tab[p].partner = t /\ ~v.tab[t].pinned
                  /\ t # None
  BY DEF Paired, WholeSplit, Has
<1>2. p # None => ~v.tab[p].pinned
  <2> SUFFICES ASSUME p # None PROVE ~v.tab[p].pinned
    OBVIOUS
  <2>1. WholeSplit(v, p) /\ v.tab[p].partner # None
    BY <1>1 DEF Paired
  <2> QED BY <2>1 DEF WholeSplit
<1>3. DOMAIN v.tab \subseteq Id
  BY DEF Listed, Described
<1>4. \A x, y : x # y => Lists(<<x, y>>, {x, y})
  <2> SUFFICES ASSUME NEW x, NEW y, x # y PROVE Lists(<<x, y>>, {x, y})
    OBVIOUS
  <2> DEFINE s == <<x, y>>
  <2>1. s \in Seq({x, y}) /\ Len(s) = 2 /\ s[1] = x /\ s[2] = y
    OBVIOUS
  <2> HIDE DEF s
  <2>2. 1 .. Len(s) = {1, 2}
    BY <2>1
  <2>3. \A z : z \in ToSet(s) <=> z \in {x, y}
    BY <2>1, <2>2, Members
  <2>4. Once(s)
    BY <2>1, <2>2 DEF Once
  <2> QED BY <2>1, <2>3, <2>4 DEF Lists, s
<1>5. CASE p = None
  <2>1. r = <<t>> /\ Row2(v, t) = {t}
    BY <1>5 DEF WholeRow, Row2
  <2> QED BY <2>1, SmallLists
<1>6. CASE p # None
  <2>1. Row2(v, t) = {t, p} /\ {p, t} = {t, p}
    BY <1>6 DEF Row2
  <2>2. r = <<p, t>> \/ r = <<t, p>>
    BY <1>6 DEF WholeRow
  <2>3. Lists(r, {t, p})
    BY <1>1, <1>4, <1>6, <2>1, <2>2
  <2>4. Len(r) = 2 /\ Head(r) \in {t, p} /\ r[2] \in {t, p} /\ r # <<>>
    BY <2>2
  <2>5. p \in Tab
    BY <1>1, <1>3, <1>6 DEF Id
  <2> QED BY <1>1, <1>2, <1>6, <2>1, <2>3, <2>4, <2>5
<1> QED BY <1>5, <1>6

\* A tab that is not pinned is put on a row below the pins.
LEMMA InsertingBelow ==
  ASSUME NEW v, Body(v), NEW t \in Id \ DOMAIN v.tab, NEW rec \in Records,
         rec.partner = None, ~rec.pinned,
         NEW row \in 1 .. Len(v.rows) + 1, row > Len(Pins(v))
  PROVE  LET w == Insert(v, t, rec, row)
         IN  /\ Listed(w) /\ Paired(w) /\ Filed(w) /\ FirstIn(w.rows, Pinned(w))
             /\ DOMAIN w.tab = DOMAIN v.tab \cup {t} /\ w.tab[t] = rec
             /\ \A u \in DOMAIN v.tab : w.tab[u] = v.tab[u]
             /\ w.active = v.active /\ w.folders = v.folders
<1> DEFINE w == Insert(v, t, rec, row)
           P == Pinned(v)
           m == Len(Pins(v))
<1>1. Listed(v) /\ Paired(v) /\ Filed(v) /\ v.rows \in Seq(Id)
  BY ListsIn DEF Body, Listed, Described
<1>2. /\ Listed(w) /\ DOMAIN w.tab = DOMAIN v.tab \cup {t} /\ w.tab[t] = rec
      /\ \A u \in DOMAIN v.tab : w.tab[u] = v.tab[u]
      /\ w.rows = InsertAt(v.rows, row, t) /\ w.active = v.active /\ w.folders = v.folders
  BY <1>1, Inserting
<1>3. Paired(w) /\ Filed(w)
  BY <1>1, InsertingPaired
<1> HIDE DEF w
<1>4. Pinned(w) = P /\ t \notin P
  BY <1>2 DEF Pinned
<1>5. m \in 0 .. Len(v.rows) /\ \A i \in 1 .. Len(v.rows) : v.rows[i] \in P <=> i <= m
  <2>1. Pins(v) \in Seq(Id) /\ Unpinned(v) \in Seq(Id)
    BY <1>1, AmongMembers, WithoutMembers DEF Pins, Unpinned
  <2>2. v.rows = Pins(v) \o Unpinned(v) /\ \A i \in 1 .. Len(v.rows) : v.rows[i] \in P <=> i <= m
    BY SortedPins
  <2>3. Len(v.rows) = Len(Pins(v)) + Len(Unpinned(v))
    BY <2>1, <2>2, ConcatProperties
  <2>4. Len(Pins(v)) \in Nat /\ Len(Unpinned(v)) \in Nat
    BY <2>1
  <2> QED BY <2>2, <2>3, <2>4
<1> HIDE DEF P, m
<1>6. FirstIn(InsertAt(v.rows, row, t), P)
  <2>1. row > m
    BY DEF m
  <2> QED BY <1>1, <1>4, <1>5, <2>1, InsertFirst
<1> QED BY <1>2, <1>3, <1>4, <1>6 DEF w

\* settleFolders, and then or before another active tab.
LEMMA SettleLive ==
  ASSUME NEW v, Listed(v), Paired(v), Filed(v), FoldersHeld(v) \/ FirstIn(v.rows, Pinned(v)),
         NEW t \in DOMAIN v.tab \cup {None}
  PROVE  LET w == Settle([v EXCEPT !.active = t])
         IN  Live(w) /\ w.tab = v.tab /\ w.active = t /\ w.folders = v.folders
<1> DEFINE u == [v EXCEPT !.active = t]
<1>1. /\ Described(u) /\ u.rows = v.rows /\ u.tab = v.tab /\ u.active = t
      /\ u.folders = v.folders
  BY WithActive DEF Listed
<1> HIDE DEF u
<1>2. Listed(u) /\ Paired(u) /\ Filed(u)
  BY ZenonT(60), <1>1 DEF Listed, Paired, WholeSplit, Has, Filed, InFolder
<1>3. FoldersHeld(u) \/ FirstIn(u.rows, Pinned(u))
  BY <1>1 DEF FoldersHeld, Pinned
<1>4. LET w == Settle(u)
      IN  Body(w) /\ w.tab = u.tab /\ w.active = u.active /\ w.folders = u.folders
  BY <1>2, <1>3, SettleSorts
<1> QED BY <1>1, <1>4 DEF u, Live

\* duplicateTab
LEMMA DuplicateKeeps ==
  ASSUME NEW v, Body(v), NEW t \in DOMAIN v.tab, NEW new \in Id \ DOMAIN v.tab
  PROVE  LET w == Duplicate(v, t, new)
         IN  Live(w) /\ DOMAIN w.tab = DOMAIN v.tab \cup {new}
<1> DEFINE r == WholeRow(v, t)
           last == r[Len(r)]
           after == IF v.tab[t].pinned THEN Len(v.rows) ELSE Row(v, last)
           row == after + 1
           rec == NewTab(TRUE)
           u == Insert(v, new, rec, row)
<1>1. Listed(v) /\ Paired(v)
  BY DEF Body
<1>2. last \in DOMAIN v.tab /\ (~v.tab[t].pinned => ~v.tab[last].pinned)
  <2>1. last \in Row2(v, t) /\ Row2(v, t) \subseteq DOMAIN v.tab
        /\ \A x \in Row2(v, t) : x # t => ~v.tab[x].pinned
    BY <1>1, WholeRowIs
  <2> HIDE DEF last
  <2> QED BY <2>1
<1> HIDE DEF last, r
<1>3. row \in 1 .. Len(v.rows) + 1 /\ row > Len(Pins(v))
  <2>1. /\ Len(v.rows) \in Nat
        /\ Row(v, last) \in 1 .. Len(v.rows) /\ v.rows[Row(v, last)] = last
    BY <1>1, <1>2, RowIs
  <2>2. \A i \in 1 .. Len(v.rows) : v.rows[i] \in Pinned(v) <=> i <= Len(Pins(v))
    BY SortedPins
  <2>3. Len(Pins(v)) \in Nat /\ Len(Pins(v)) <= Len(v.rows)
    <3>1. v.rows \in Seq(Id)
      BY <1>1, ListsIn DEF Listed, Described
    <3>2. Pins(v) \in Seq(Id) /\ Unpinned(v) \in Seq(Id)
      BY <3>1, AmongMembers, WithoutMembers DEF Pins, Unpinned
    <3>3. Len(v.rows) = Len(Pins(v)) + Len(Unpinned(v))
      BY <3>2, SortedPins, ConcatProperties
    <3>4. Len(Pins(v)) \in Nat /\ Len(Unpinned(v)) \in Nat
      BY <3>2
    <3> QED BY <3>3, <3>4
  <2>4. CASE v.tab[t].pinned
    <3>1. row = Len(v.rows) + 1
      BY <2>4
    <3> HIDE DEF row
    <3> QED BY <2>1, <2>3, <3>1
  <2>5. CASE ~v.tab[t].pinned
    <3>1. last \notin Pinned(v)
      BY <1>2, <2>5 DEF Pinned
    <3>2. ~(Row(v, last) <= Len(Pins(v))) /\ row = Row(v, last) + 1
      BY <2>1, <2>2, <2>5, <3>1
    <3> HIDE DEF row
    <3> QED BY <2>1, <2>3, <3>2
  <2> QED BY <2>4, <2>5
<1>4. rec \in Records /\ rec.partner = None /\ ~rec.pinned
  BY NewTabs
<1>4a. Duplicate(v, t, new) = Settle([u EXCEPT !.active = new])
  BY DEF Duplicate, last, r
<1> HIDE DEF row, rec
<1>5. /\ Listed(u) /\ Paired(u) /\ Filed(u) /\ FirstIn(u.rows, Pinned(u))
      /\ DOMAIN u.tab = DOMAIN v.tab \cup {new}
  BY <1>3, <1>4, InsertingBelow
<1> HIDE DEF u
<1>6. LET w == Settle([u EXCEPT !.active = new]) IN Live(w) /\ w.tab = u.tab
  <2>1. new \in DOMAIN u.tab \cup {None}
    BY <1>5
  <2> QED BY <1>5, <2>1, SettleLive
<1> QED BY <1>4a, <1>5, <1>6

-----------------------------------------------------------------------------
(* Pairing                                                                 *)

\* Folders that were in order are so but for the tabs that changed.
LEMMA FiledBut ==
  ASSUME NEW v, Described(v), Filed(v), NEW T, Apart(v, T),
         NEW w, Described(w), w.folders = v.folders, DOMAIN v.tab \subseteq DOMAIN w.tab,
         \A u \in DOMAIN v.tab \ T : w.tab[u] = v.tab[u]
  PROVE  Filed(LeaveFolders(w, T))
<1> DEFINE x == LeaveFolders(v, T)
           y == LeaveFolders(w, T)
<1>1. /\ x.tab = v.tab /\ DOMAIN x.folders = DOMAIN v.folders
      /\ \A f \in DOMAIN v.folders : x.folders[f].tabs = Without(v.folders[f].tabs, T)
      /\ \A f \in DOMAIN v.folders : InFolder(x, f) = InFolder(v, f) \ T
  BY Leaving
<1>2. /\ y.tab = w.tab /\ DOMAIN y.folders = DOMAIN v.folders
      /\ \A f \in DOMAIN v.folders : y.folders[f].tabs = Without(v.folders[f].tabs, T)
  <2> HIDE DEF y
  <2>1. LET z == LeaveFolders(w, T)
        IN  /\ z.tab = w.tab /\ DOMAIN z.folders = DOMAIN w.folders
            /\ \A f \in DOMAIN w.folders : z.folders[f].tabs = Without(w.folders[f].tabs, T)
    BY Leaving
  <2> QED BY <2>1 DEF y
<1>3. Filed(x)
  BY LeavingFiled
<1> HIDE DEF x, y
<1>4. \A f \in DOMAIN v.folders : InFolder(y, f) = InFolder(x, f)
  BY <1>1, <1>2 DEF InFolder
<1>5. ASSUME NEW f \in DOMAIN v.folders, NEW t \in InFolder(y, f)
      PROVE  /\ Has(y, t) /\ ~y.tab[t].pinned
             /\ y.tab[t].partner # None => y.tab[t].partner \in InFolder(y, f)
  <2>1. /\ Has(x, t) /\ ~x.tab[t].pinned
        /\ x.tab[t].partner # None => x.tab[t].partner \in InFolder(x, f)
    BY <1>1, <1>3, <1>4 DEF Filed
  <2>2. t \notin T /\ t \in DOMAIN v.tab
    BY <1>1, <1>4, <2>1 DEF Has
  <2> QED BY <1>1, <1>2, <1>4, <2>1, <2>2 DEF Has
<1>6. Filed(y)
  BY <1>1, <1>2, <1>3, <1>4, <1>5 DEF Filed
<1> QED BY <1>6 DEF y

\* Whole rows of tabs that are in no Folder and not pinned.
FreeRows(v, N) ==
  /\ N \subseteq Tab /\ N \subseteq DOMAIN v.tab /\ N \cap Held(v) = {}
  /\ \A t \in N : ~v.tab[t].pinned /\ (v.tab[t].partner # None => v.tab[t].partner \in N)

\* A Folder takes tabs that are in none, whole rows of them.
LEMMA Filling ==
  ASSUME NEW v, Listed(v), Paired(v), Filed(v), NEW f \in DOMAIN v.folders,
         NEW N, FreeRows(v, N), NEW A, A = InFolder(v, f) \cup N, NEW ts, Lists(ts, A)
  PROVE  LET w == [v EXCEPT !.folders[f].tabs = ts]
         IN  /\ Listed(w) /\ Paired(w) /\ Filed(w) /\ FoldersHeld(w)
             /\ w.rows = v.rows /\ w.tab = v.tab /\ w.active = v.active
             /\ DOMAIN w.folders = DOMAIN v.folders
<1> DEFINE F == [v.folders EXCEPT ![f] = [v.folders[f] EXCEPT !.tabs = ts]]
           n == Len(v.folders)
           w == [v EXCEPT !.folders = F]
<1>1. /\ Described(v) /\ DOMAIN v.folders = 1 .. n /\ n \in Nat
      /\ \A g \in 1 .. n : v.folders[g] \in FolderRecords
      /\ InFolder(v, f) \subseteq Tab
  BY FolderTabs DEF Listed
<1>2. ts \in Seq(Tab)
  <2>1. A \subseteq Tab
    BY <1>1 DEF FreeRows
  <2> QED BY <2>1, ListsIn
<1>3. [v.folders[f] EXCEPT !.tabs = ts] \in FolderRecords
      /\ [v.folders[f] EXCEPT !.tabs = ts].tabs = ts
  BY <1>1, <1>2 DEF FolderRecords
<1>4. /\ F \in Seq(FolderRecords) /\ DOMAIN F = 1 .. n
      /\ \A g \in 1 .. n : g # f => F[g] = v.folders[g]
      /\ F[f].tabs = ts
  <2> DEFINE G == FolderRecords
             rec == [v.folders[f] EXCEPT !.tabs = ts]
  <2>1. rec \in G /\ rec.tabs = ts /\ v.folders \in Seq(G)
    BY <1>3 DEF Listed, Described
  <2> HIDE DEF G, rec, n
  <2>2. v.folders \in [1 .. n -> G]
    BY <1>1, <2>1 DEF n
  <2>3. [v.folders EXCEPT ![f] = rec] \in [1 .. n -> G]
    BY <1>1, <2>1, <2>2
  <2>4. F = [v.folders EXCEPT ![f] = rec]
    BY DEF rec
  <2> HIDE DEF F
  <2>4a. F \in [1 .. n -> G] /\ n \in Nat
    BY <1>1, <2>3, <2>4
  <2>5. F \in Seq(G)
    BY <2>4a
  <2> QED BY <1>1, <2>1, <2>2, <2>3, <2>4, <2>5 DEF G
<1>5. [v EXCEPT !.folders[f].tabs = ts] = w
  OBVIOUS
<1> HIDE DEF F
<1>6. /\ Described(w) /\ w.rows = v.rows /\ w.tab = v.tab /\ w.active = v.active
      /\ w.folders = F
  BY <1>1, <1>4, WithFolders
<1> HIDE DEF w
<1>7. Listed(w) /\ Paired(w)
  BY <1>6 DEF Listed, Paired, WholeSplit, Has
<1>8. /\ InFolder(w, f) = InFolder(v, f) \cup N
      /\ \A g \in 1 .. n : g # f => InFolder(w, g) = InFolder(v, g)
  BY <1>4, <1>6 DEF InFolder, Lists
<1>9. \A g \in 1 .. n : InFolder(v, g) \cap N = {}
  BY <1>1 DEF Held, InFolder, FreeRows
<1>10. Filed(w)
  <2>1. ASSUME NEW g \in 1 .. n
        PROVE  Once(w.folders[g].tabs)
    BY <1>1, <1>4, <1>6 DEF Filed, Lists
  <2>2. ASSUME NEW g \in 1 .. n, NEW t \in InFolder(w, g)
        PROVE  /\ Has(w, t) /\ ~w.tab[t].pinned
               /\ w.tab[t].partner # None => w.tab[t].partner \in InFolder(w, g)
    <3>1. CASE t \in InFolder(v, g)
      <4>1. /\ Has(v, t) /\ ~v.tab[t].pinned
            /\ v.tab[t].partner # None => v.tab[t].partner \in InFolder(v, g)
        BY <1>1, <3>1 DEF Filed
      <4> QED BY <1>6, <1>8, <4>1 DEF Has
    <3>2. CASE t \notin InFolder(v, g)
      <4>1. g = f /\ t \in N
        BY <1>8, <3>2
      <4> QED BY <1>6, <1>8, <4>1 DEF Has, FreeRows
    <3> QED BY <3>1, <3>2
  <2>3. ASSUME NEW g \in 1 .. n, NEW h \in 1 .. n, h # g
        PROVE  InFolder(w, g) \cap InFolder(w, h) = {}
    <3>1. InFolder(v, g) \cap InFolder(v, h) = {}
      BY <1>1, <2>3 DEF Filed
    <3> QED BY <1>8, <1>9, <2>3, <3>1
  <2> QED BY <1>1, <1>4, <1>6, <2>1, <2>2, <2>3 DEF Filed
<1>11. FoldersHeld(w)
  BY <1>1, <1>4, <1>6 DEF FoldersHeld
<1> QED BY <1>1, <1>4, <1>5, <1>6, <1>7, <1>10, <1>11

\* pairTabs, for two tabs in no split, one of them on show.
LEMMA Pairing ==
  ASSUME NEW v, Listed(v), Paired(v), Filed(v),
         NEW l \in Tab, NEW r \in Tab, l # r, Has(v, l), Has(v, r),
         ~v.tab[l].pinned, ~v.tab[r].pinned,
         ~v.tab[l].popped, ~v.tab[r].popped,
         v.tab[l].partner = None, v.tab[r].partner = None, v.active \in {l, r}
  PROVE  LET w == Pair(v, l, r)
         IN  /\ Listed(w) /\ Paired(w) /\ Filed(LeaveFolders(w, {l, r}))
             /\ Pinned(w) = Pinned(v) /\ w.rows = v.rows /\ DOMAIN w.tab = DOMAIN v.tab
             /\ w.active = v.active /\ w.folders = v.folders
             /\ w.tab[l].partner = r /\ w.tab[r].partner = l
<1> DEFINE q == [u \in DOMAIN v.tab |->
                   IF u \in {l, r}
                   THEN [v.tab[u] EXCEPT !.partner = IF u = l THEN r ELSE l,
                                         !.focused = u = v.active]
                   ELSE v.tab[u]]
           w == Pair(v, l, r)
           T == {l, r}
<1>1. Described(v) /\ v.tab \in [DOMAIN v.tab -> Records] /\ DOMAIN v.tab \subseteq Id
      /\ None \notin Tab
  BY TabAssumption DEF Listed, Described
<1>2. /\ DOMAIN q = DOMAIN v.tab /\ q \in [DOMAIN q -> Records]
      /\ \A u \in DOMAIN v.tab : /\ q[u].pinned = v.tab[u].pinned
                                 /\ IF u \in T THEN /\ q[u].partner = IF u = l THEN r ELSE l
                                                    /\ q[u].focused = (u = v.active)
                                    ELSE q[u] = v.tab[u]
  <2>1. ASSUME NEW u \in DOMAIN v.tab
        PROVE  /\ q[u] \in Records /\ q[u].pinned = v.tab[u].pinned
               /\ IF u \in T THEN /\ q[u].partner = IF u = l THEN r ELSE l
                                  /\ q[u].focused = (u = v.active)
                  ELSE q[u] = v.tab[u]
    <3>1. v.tab[u] \in Records
      BY <1>1
    <3> QED BY <3>1 DEF Records, TabRecords
  <2> QED BY <2>1
<1>3. w = [v EXCEPT !.tab = q]
  BY DEF Pair
<1> HIDE DEF w, q
<1>4. /\ Described(w) /\ w.rows = v.rows /\ w.tab = q /\ w.active = v.active
      /\ w.folders = v.folders
  BY <1>1, <1>2, <1>3, WithTab
<1>5. Listed(w)
  BY <1>2, <1>4 DEF Listed
<1>6. \A u \in DOMAIN v.tab : v.tab[u].partner \notin T
  <2> SUFFICES ASSUME NEW u \in DOMAIN v.tab, v.tab[u].partner \in T PROVE FALSE
    OBVIOUS
  <2>1. WholeSplit(v, u) /\ v.tab[u].partner # None
    BY <1>1 DEF Paired
  <2>2. v.tab[v.tab[u].partner].partner = u /\ u # None
    BY <2>1 DEF WholeSplit
  <2> QED BY <2>2
<1>7. Paired(w)
  <2> SUFFICES ASSUME NEW u \in DOMAIN v.tab PROVE WholeSplit(w, u)
    BY <1>2, <1>4 DEF Paired
  <2>1. CASE u \in T
    <3>1. l \in DOMAIN v.tab /\ r \in DOMAIN v.tab /\ l # None /\ r # None
      BY <1>1 DEF Has
    <3>2. /\ q[l].partner = r /\ q[l].focused = (l = v.active) /\ ~q[l].pinned
          /\ q[r].partner = l /\ q[r].focused = (r = v.active) /\ ~q[r].pinned
      BY <1>2, <3>1
    <3>3. q[l].focused # q[r].focused
      <4>1. (l = v.active) # (r = v.active)
        OBVIOUS
      <4> QED BY <3>2, <4>1
    <3>4. CASE u = l
      BY <1>2, <1>4, <3>1, <3>2, <3>3, <3>4 DEF WholeSplit, Has
    <3>5. CASE u = r
      BY <1>2, <1>4, <3>1, <3>2, <3>3, <3>5 DEF WholeSplit, Has
    <3> QED BY <2>1, <3>4, <3>5
  <2>2. CASE u \notin T
    <3>1. WholeSplit(v, u) /\ v.tab[u].partner \notin T /\ q[u] = v.tab[u]
      BY <1>2, <1>6, <2>2 DEF Paired
    <3>2. v.tab[u].partner # None => q[v.tab[u].partner] = v.tab[v.tab[u].partner]
                                     /\ v.tab[u].partner \in DOMAIN v.tab
      BY <1>2, <3>1 DEF WholeSplit, Has
    <3> HIDE DEF T
    <3> QED BY <1>2, <1>4, <3>1, <3>2 DEF WholeSplit, Has
  <2> QED BY <2>1, <2>2
<1>8. Pinned(w) = Pinned(v)
  BY <1>2, <1>4 DEF Pinned
<1>9. Filed(LeaveFolders(w, T))
  <2>1. Apart(v, T)
    BY <1>6 DEF Apart
  <2>2. DOMAIN v.tab \subseteq DOMAIN w.tab /\ \A u \in DOMAIN v.tab \ T : w.tab[u] = v.tab[u]
    BY <1>2, <1>4
  <2> HIDE DEF T
  <2> QED BY <1>1, <1>4, <2>1, <2>2, FiledBut
<1>10. w.tab[l].partner = r /\ w.tab[r].partner = l
  BY <1>2, <1>4 DEF Has
<1> QED BY <1>2, <1>4, <1>5, <1>7, <1>8, <1>9, <1>10 DEF w

\* What stands before the first of some tabs stays before their place.
LEMMA FirstKept ==
  ASSUME NEW S, NEW s, Lists(s, S), NEW T, NEW at \in 1 .. Len(s),
         \A i \in 1 .. at - 1 : s[i] \notin T
  PROVE  at \in 1 .. Len(Without(s, T)) + 1
<1> DEFINE k == at - 1
           a == SubSeq(s, 1, k)
           b == SubSeq(s, k + 1, Len(s))
           c == Without(b, T)
<1>1. Len(s) \in Nat /\ k \in 0 .. Len(s)
  BY DEF Lists
<1>2. /\ s = a \o b /\ Len(a) = k /\ Lists(a, ToSet(a)) /\ Lists(b, ToSet(b))
      /\ ToSet(a) \cup ToSet(b) = S /\ \A i \in 1 .. k : a[i] = s[i]
  <2> HIDE DEF k
  <2>1. LET x == SubSeq(s, 1, k)
            y == SubSeq(s, k + 1, Len(s))
        IN  /\ Joined(s, x, y) /\ Len(x) = k /\ Lists(x, ToSet(x)) /\ Lists(y, ToSet(y))
            /\ ToSet(x) \cup ToSet(y) = S /\ \A i \in 1 .. k : x[i] = s[i]
    BY <1>1, Halves
  <2> QED BY <2>1 DEF Joined
<1> HIDE DEF a, b
<1>3. a \in Seq(S) /\ b \in Seq(S)
  BY <1>2, ListsIn
<1>4. ToSet(a) \cap T = {}
  <2>1. \A x \in ToSet(a) : \E i \in 1 .. Len(a) : a[i] = x
    BY <1>3, Members
  <2> QED BY <1>2, <2>1
<1>5. Without(a, T) = a /\ c \in Seq(S)
  BY <1>3, <1>4, WithoutMembers
<1>6. Without(s, T) = a \o c
  <2>1. Without(a \o b, T) = Without(a, T) \o Without(b, T)
    BY <1>3, WithoutConcat
  <2> QED BY <1>2, <1>5, <2>1
<1> HIDE DEF c
<1>7. Len(a \o c) = Len(a) + Len(c) /\ Len(c) \in Nat
  BY <1>3, <1>5, ConcatProperties
<1> QED BY <1>1, <1>2, <1>6, <1>7

\* A split stands in the Folder it is given, or in none.
LEMMA JoinKeeps ==
  ASSUME NEW v, Listed(v), Paired(v), FirstIn(v.rows, Pinned(v)),
         NEW l \in Tab, NEW r \in Tab, l # r, Has(v, l), Has(v, r),
         ~v.tab[l].pinned, ~v.tab[r].pinned, v.tab[l].partner = r, v.tab[r].partner = l,
         Filed(LeaveFolders(v, {l, r})), \A g \in DOMAIN v.folders : Once(v.folders[g].tabs),
         NEW f, f = 0 => l \notin Held(v) /\ r \notin Held(v),
         f # 0 => f \in DOMAIN v.folders /\ (l \in InFolder(v, f) \/ r \in InFolder(v, f))
  PROVE  LET w == JoinFolder(v, f, l, r)
         IN  Body(w) /\ w.tab = v.tab /\ w.active = v.active
<1> DEFINE T == {l, r}
           x == LeaveFolders(v, T)
<1>0. Described(v)
  BY DEF Listed
<1>1. /\ Described(x) /\ x.rows = v.rows /\ x.tab = v.tab /\ x.active = v.active
      /\ DOMAIN x.folders = DOMAIN v.folders
      /\ \A g \in DOMAIN v.folders : /\ x.folders[g].tabs = Without(v.folders[g].tabs, T)
                                     /\ InFolder(x, g) = InFolder(v, g) \ T
      /\ Held(x) = Held(v) \ T
  BY <1>0, Leaving
<1>2. /\ Filed(x)
      /\ \A g \in DOMAIN v.folders : v.folders[g].tabs \in Seq(Tab) /\ v.folders[g].tabs \in Seq(Id)
  BY <1>0, FolderTabs
<1>3. CASE ~FoldersHeld(v)
  <2>1. JoinFolder(v, f, l, r) = v
    BY <1>3 DEF JoinFolder
  <2>2. Filed(v) /\ Sorted(v)
    BY <1>3, NoFolders, PinsFirstSorted
  <2> QED BY <2>1, <2>2 DEF Body
<1>4. CASE FoldersHeld(v) /\ f = 0
  <2>1. JoinFolder(v, f, l, r) = Settle(v)
    BY <1>4 DEF JoinFolder
  <2>2. \A g \in DOMAIN v.folders : InFolder(v, g) \cap T = {} /\ InFolder(x, g) = InFolder(v, g)
    <3>1. \A g \in DOMAIN v.folders : InFolder(v, g) \subseteq Held(v)
      BY DEF Held, InFolder
    <3>2. T \cap Held(v) = {}
      BY <1>4
    <3> HIDE DEF T, x
    <3> QED BY <1>1, <3>1, <3>2
  <2> HIDE DEF x, T
  <2>3. Filed(v)
    <3>1. \A g \in DOMAIN v.folders : \A t \in InFolder(v, g) :
            /\ Has(v, t) /\ ~v.tab[t].pinned
            /\ v.tab[t].partner # None => v.tab[t].partner \in InFolder(v, g)
      BY <1>1, <1>2, <2>2 DEF Filed, Has
    <3>2. \A g, h \in DOMAIN v.folders : h # g => InFolder(v, g) \cap InFolder(v, h) = {}
      BY <1>1, <1>2, <2>2 DEF Filed
    <3> QED BY <3>1, <3>2 DEF Filed
  <2> QED BY <1>4, <2>1, <2>3, SettleSorts
<1>5. CASE FoldersHeld(v) /\ f # 0
  <2> DEFINE s == v.folders[f].tabs
             z == Without(s, T)
             at == SelectInSeq(s, LAMBDA t : t \in {l, r})
             A == InFolder(v, f) \ T
             z1 == InsertAt(z, at, l)
             ts == InsertAt(z1, at + 1, r)
             u == [x EXCEPT !.folders[f].tabs = ts]
  <2>1. f \in DOMAIN v.folders /\ s \in Seq(Tab) /\ Lists(s, InFolder(v, f)) /\ x.folders[f].tabs = z
    <3>1. f \in DOMAIN v.folders /\ s \in Seq(Tab) /\ Once(s)
      BY <1>2, <1>5
    <3>2. s \in Seq(ToSet(s))
      BY <3>1, Members
    <3> QED BY <1>1, <3>1, <3>2 DEF Lists, InFolder
  <2>2. at \in 1 .. Len(s) /\ \A i \in 1 .. at - 1 : s[i] \notin T
    <3> DEFINE I == {i \in 1 .. Len(s) : s[i] \in T}
    <3>1. at = IF I # {} THEN Min(I) ELSE 0
      BY DEF SelectInSeq
    <3>2. \A t \in InFolder(v, f) : \E i \in 1 .. Len(s) : s[i] = t
      <4>1. InFolder(v, f) = ToSet(s) /\ s \in Seq(Tab)
        BY <2>1 DEF InFolder
      <4> HIDE DEF s
      <4>2. \A t \in ToSet(s) : \E i \in 1 .. Len(s) : s[i] = t
        BY <4>1, Members
      <4> QED BY <4>1, <4>2
    <3>3. I # {} /\ I \subseteq Nat
      BY <1>5, <3>2
    <3>4. \A i : i \in I <=> i \in 1 .. Len(s) /\ s[i] \in T
      OBVIOUS
    <3>5. Len(s) \in Nat
      BY <2>1
    <3> HIDE DEF I, s, at
    <3>6. at \in I /\ \A i \in I : at <= i
      BY <3>1, <3>3, Least
    <3>7. at \in 1 .. Len(s)
      BY <3>4, <3>6
    <3>8. ASSUME NEW i \in 1 .. at - 1 PROVE s[i] \notin T
      <4>1. i \in 1 .. Len(s) /\ ~(at <= i)
        BY <3>5, <3>7
      <4> QED BY <3>4, <3>6, <4>1
    <3> QED BY <3>7, <3>8
  <2>3. JoinFolder(v, f, l, r) = Settle(u)
    <3>1. JoinFolder(v, f, l, r) =
            Settle([x EXCEPT !.folders[f].tabs = InsertAt(InsertAt(@, at, l), at + 1, r)])
      BY <1>5 DEF JoinFolder
    <3>2. [x EXCEPT !.folders[f].tabs = InsertAt(InsertAt(@, at, l), at + 1, r)]
          = [x EXCEPT !.folders[f].tabs = InsertAt(InsertAt(x.folders[f].tabs, at, l), at + 1, r)]
      OBVIOUS
    <3> QED BY <2>1, <3>1, <3>2
  <2> HIDE DEF at, s, x
  <2>4. at \in 1 .. Len(z) + 1 /\ Lists(z, A)
    <3> HIDE DEF T
    <3> QED BY <2>1, <2>2, FirstKept, PartLists
  <2>5. A \subseteq Tab /\ l \notin A /\ r \notin A
    BY <1>0, <2>1, FolderTabs
  <2> HIDE DEF z, A
  <2>6. Lists(z1, A \cup {l}) /\ Len(z1) = Len(z) + 1 /\ Len(z) \in Nat
    <3>1. Lists(z1, A \cup {l})
      BY <2>4, <2>5, InsertLists
    <3>2. z \in Seq(Tab)
      BY <2>4, <2>5, ListsIn
    <3> QED BY <2>4, <3>1, <3>2, Inserted
  <2> HIDE DEF z1
  <2>7. Lists(ts, A \cup T)
    <3> DEFINE B == A \cup {l}
    <3>1. r \notin B /\ Lists(z1, B) /\ at + 1 \in 1 .. Len(z1) + 1 /\ B \cup {r} = A \cup T
      BY <2>4, <2>5, <2>6
    <3> HIDE DEF B
    <3>2. Lists(ts, B \cup {r})
      BY <3>1, InsertLists
    <3> QED BY <3>1, <3>2
  <2> HIDE DEF ts
  <2>8. Listed(x) /\ Paired(x)
    BY <1>1 DEF Listed, Paired, WholeSplit, Has
  <2>9. /\ Listed(u) /\ Paired(u) /\ Filed(u) /\ FoldersHeld(u)
        /\ u.tab = x.tab /\ u.active = x.active
    <3>1. f \in DOMAIN x.folders /\ InFolder(x, f) = A
      BY <1>1, <2>1 DEF A
    <3>2. /\ T \subseteq Tab /\ T \subseteq DOMAIN x.tab /\ T \cap Held(x) = {}
          /\ \A t \in T : ~x.tab[t].pinned /\ (x.tab[t].partner # None => x.tab[t].partner \in T)
      BY <1>1 DEF Has
    <3> DEFINE B == A \cup T
    <3>3. Lists(ts, B) /\ B = InFolder(x, f) \cup T
      BY <2>7, <3>1
    <3> HIDE DEF T, B
    <3>4. FreeRows(x, T)
      BY <3>2 DEF FreeRows
    <3> QED BY <1>2, <2>8, <3>1, <3>3, <3>4, Filling
  <2> HIDE DEF u
  <2>10. LET w == Settle(u) IN Body(w) /\ w.tab = u.tab /\ w.active = u.active
    BY <2>9, SettleSorts
  <2> QED BY <1>1, <2>3, <2>9, <2>10
<1> QED BY <1>3, <1>4, <1>5

\* addSplit with a new blank tab.
LEMMA SplitWithBlankKeeps ==
  ASSUME NEW v, Live(v), CanSplit(v), Selectable(v, v.active), NEW b \in Tab \ DOMAIN v.tab
  PROVE  LET w == SplitWithBlank(v, b)
         IN  Live(w) /\ DOMAIN w.tab = DOMAIN v.tab \cup {b}
<1> DEFINE l == v.active
           rec == NewTab(FALSE)
           row == Row(v, l) + 1
           i == Insert(v, b, rec, row)
           o == [i EXCEPT !.active = b]
           q == Pair(o, l, b)
           f == FolderOf(v, l)
<1>1. /\ Body(v) /\ Listed(v) /\ Paired(v) /\ Filed(v) /\ Described(v)
      /\ l \in DOMAIN v.tab /\ l # None /\ ~v.tab[l].pinned /\ v.tab[l].partner = None
      /\ ~v.tab[l].popped
  BY DEF Live, Body, Listed, CanSplit, Selectable
<1>2. l \in Tab /\ b \in Id /\ b \in Tab /\ b \notin DOMAIN v.tab
  BY <1>1 DEF Described, Id
<1>3. SplitWithBlank(v, b) = JoinFolder(q, f, l, b)
  BY DEF SplitWithBlank
<1>4. rec \in Records /\ rec.partner = None /\ ~rec.pinned /\ ~rec.popped
  BY NewTabs
<1> HIDE DEF l, rec
<1>5. row \in 1 .. Len(v.rows) + 1 /\ row > Len(Pins(v))
  <2>1. /\ Len(v.rows) \in Nat
        /\ Row(v, l) \in 1 .. Len(v.rows) /\ v.rows[Row(v, l)] = l
    BY <1>1, RowIs
  <2>2. l \notin Pinned(v)
    BY <1>1 DEF Pinned
  <2>3. ~(Row(v, l) <= Len(Pins(v))) /\ Len(Pins(v)) \in Nat
    <3>1. \A k \in 1 .. Len(v.rows) : v.rows[k] \in Pinned(v) <=> k <= Len(Pins(v))
      BY <1>1, SortedPins
    <3>2. Pins(v) \in Seq(DOMAIN v.tab)
      BY <1>1, AmongMembers DEF Pins, Listed, Lists
    <3> QED BY <2>1, <2>2, <3>1, <3>2
  <2> QED BY <2>1, <2>3
<1> HIDE DEF row
<1>6. /\ Listed(i) /\ Paired(i) /\ Filed(i) /\ FirstIn(i.rows, Pinned(i))
      /\ DOMAIN i.tab = DOMAIN v.tab \cup {b} /\ i.tab[b] = rec
      /\ \A u \in DOMAIN v.tab : i.tab[u] = v.tab[u]
      /\ i.folders = v.folders
  BY <1>1, <1>2, <1>4, <1>5, InsertingBelow
<1> HIDE DEF i
<1>7. /\ Described(o) /\ o.rows = i.rows /\ o.tab = i.tab /\ o.active = b
      /\ o.folders = i.folders
  BY <1>6, WithActive DEF Listed
<1> HIDE DEF o
<1>8. Listed(o) /\ Paired(o) /\ Filed(o) /\ Pinned(o) = Pinned(i)
  <2>1. Listed(o) /\ Pinned(o) = Pinned(i)
    BY <1>6, <1>7 DEF Listed, Pinned
  <2>2. Paired(o)
    BY <1>6, <1>7 DEF Paired, WholeSplit, Has
  <2>3. Filed(o)
    BY <1>6, <1>7 DEF Filed, InFolder, Has
  <2> QED BY <2>1, <2>2, <2>3
<1>9. /\ Listed(q) /\ Paired(q) /\ Filed(LeaveFolders(q, {l, b}))
      /\ Pinned(q) = Pinned(o) /\ q.rows = o.rows /\ DOMAIN q.tab = DOMAIN o.tab
      /\ q.active = o.active /\ q.folders = o.folders
      /\ q.tab[l].partner = b /\ q.tab[b].partner = l
  <2>1. /\ l # b /\ Has(o, l) /\ Has(o, b) /\ ~o.tab[l].pinned /\ ~o.tab[b].pinned
        /\ o.tab[l].partner = None /\ o.tab[b].partner = None /\ o.active \in {l, b}
        /\ ~o.tab[l].popped /\ ~o.tab[b].popped
    BY <1>1, <1>2, <1>4, <1>6, <1>7 DEF Has
  <2> QED BY <1>2, <1>8, <2>1, Pairing
<1> HIDE DEF q
<1>10. LET w == JoinFolder(q, f, l, b) IN Body(w) /\ w.tab = q.tab /\ w.active = q.active
  <2>1. l # b /\ Has(q, l) /\ Has(q, b) /\ ~q.tab[l].pinned /\ ~q.tab[b].pinned
    <3>1. l \in DOMAIN q.tab /\ b \in DOMAIN q.tab /\ l # b
      BY <1>1, <1>2, <1>6, <1>7, <1>9
    <3>2. WholeSplit(q, l) /\ WholeSplit(q, b) /\ l # None /\ b # None
      BY <1>1, <1>2, <1>9, <3>1, TabAssumption DEF Paired
    <3> QED BY <1>9, <3>1, <3>2 DEF Has, WholeSplit
  <2>2. \A g \in DOMAIN q.folders : Once(q.folders[g].tabs)
    BY <1>6, <1>7, <1>9 DEF Filed
  <2>3. q.folders = v.folders /\ Held(q) = Held(v) /\ \A g : InFolder(q, g) = InFolder(v, g)
    BY <1>6, <1>7, <1>9, SameParts
  <2>4. b \notin Held(v)
    BY <1>1, <1>2, HeldLists
  <2>5. f = 0 => l \notin Held(q) /\ b \notin Held(q)
    <3>1. ASSUME l \in Held(v) PROVE f # 0
      <4>1. PICK g \in DOMAIN v.folders : l \in InFolder(v, g)
        BY <3>1 DEF Held, InFolder
      <4>2. FolderOf(v, l) = g /\ g # 0
        BY <1>1, <4>1, FolderIs, FolderTabs
      <4> QED BY <4>2
    <3> QED BY <2>3, <2>4, <3>1
  <2>6. f # 0 => f \in DOMAIN q.folders /\ (l \in InFolder(q, f) \/ b \in InFolder(q, f))
    BY <1>1, <2>3, FolderIs
  <2>7. FirstIn(q.rows, Pinned(q))
    BY <1>6, <1>7, <1>8, <1>9
  <2> HIDE DEF f
  <2> QED BY <1>2, <1>9, <2>1, <2>2, <2>5, <2>6, <2>7, JoinKeeps
<1>11. b \in DOMAIN q.tab /\ DOMAIN q.tab = DOMAIN v.tab \cup {b} /\ q.active = b
  BY <1>6, <1>7, <1>9
<1> QED BY <1>3, <1>10, <1>11 DEF Live

-----------------------------------------------------------------------------
(* Moving rows                                                             *)

\* A tab that is held is in a Folder.
LEMMA HeldIn ==
  ASSUME NEW v, Described(v), Filed(v), NEW t \in Held(v)
  PROVE  FolderOf(v, t) # 0
<1>1. PICK g \in DOMAIN v.folders : t \in InFolder(v, g)
  BY DEF Held, InFolder
<1>2. FolderOf(v, t) = g /\ g # 0
  BY <1>1, FolderIs, FolderTabs
<1> QED BY <1>2

\* How many pins there are, and where the rows below them begin.
LEMMA PinCount ==
  ASSUME NEW v, Body(v)
  PROVE  /\ Len(v.rows) \in Nat /\ Len(Pins(v)) \in 0 .. Len(v.rows)
         /\ Len(Unpinned(v)) = Len(v.rows) - Len(Pins(v))
         /\ DOMAIN Pins(v) = 1 .. Len(Pins(v)) /\ DOMAIN Unpinned(v) = 1 .. Len(Unpinned(v))
         /\ \A t \in DOMAIN v.tab : v.tab[t].pinned <=> Row(v, t) <= Len(Pins(v))
<1>1. v.rows \in Seq(Id) /\ Listed(v)
  BY ListsIn DEF Body, Listed, Described
<1>2. Pins(v) \in Seq(Id) /\ Unpinned(v) \in Seq(Id)
  BY <1>1, AmongMembers, WithoutMembers DEF Pins, Unpinned
<1>3. Len(v.rows) = Len(Pins(v)) + Len(Unpinned(v))
  BY <1>2, SortedPins, ConcatProperties
<1>4. Len(Pins(v)) \in Nat /\ Len(Unpinned(v)) \in Nat
      /\ DOMAIN Pins(v) = 1 .. Len(Pins(v)) /\ DOMAIN Unpinned(v) = 1 .. Len(Unpinned(v))
  BY <1>2
<1>5. \A t \in DOMAIN v.tab : v.tab[t].pinned <=> Row(v, t) <= Len(Pins(v))
  <2>1. \A t \in DOMAIN v.tab : Row(v, t) \in 1 .. Len(v.rows) /\ v.rows[Row(v, t)] = t
    BY <1>1, RowIs
  <2>2. \A i \in 1 .. Len(v.rows) : v.rows[i] \in Pinned(v) <=> i <= Len(Pins(v))
    BY SortedPins
  <2> QED BY <2>1, <2>2 DEF Pinned
<1> QED BY <1>3, <1>4, <1>5

\* The pins other than t.
PinsBut(v, t) == Len(Pins(v)) - (IF v.tab[t].pinned THEN 1 ELSE 0)

\* The rows other than t, the pins first.
LEMMA PinsWithout ==
  ASSUME NEW v, Body(v), NEW t \in DOMAIN v.tab
  PROVE  LET s == Without(v.rows, {t})
             m == PinsBut(v, t)
         IN  /\ Lists(s, DOMAIN v.tab \ {t}) /\ Len(s) = Len(v.rows) - 1
             /\ m \in 0 .. Len(s) /\ \A i \in 1 .. Len(s) : s[i] \in Pinned(v) <=> i <= m
<1> DEFINE P == Pinned(v)
           x == Pins(v)
           u == Unpinned(v)
           T == {t}
           s == Without(v.rows, T)
           x1 == Without(x, T)
           u1 == Without(u, T)
<1>1. Listed(v) /\ Lists(v.rows, DOMAIN v.tab) /\ DOMAIN v.tab \subseteq Id
  BY DEF Body, Listed, Described
<1>2. Lists(s, DOMAIN v.tab \ T) /\ Len(s) = Len(v.rows) - 1
  BY <1>1, WithoutLen
<1>3. Lists(x, P) /\ Lists(u, DOMAIN v.tab \ P) /\ P \subseteq DOMAIN v.tab
  BY RowParts DEF Body
<1>4. Joined(v.rows, x, u)
  BY SortedPins DEF Joined
<1>4a. t \in P <=> v.tab[t].pinned
  BY DEF Pinned
<1> HIDE DEF P, x, u
<1>5. x \in Seq(Id) /\ u \in Seq(Id) /\ ToSet(x) = P /\ ToSet(u) \cap P = {}
  <2>1. P \subseteq Id /\ DOMAIN v.tab \ P \subseteq Id
    BY <1>1, <1>3
  <2>2. x \in Seq(Id) /\ u \in Seq(Id)
    BY <1>3, <2>1, ListsIn
  <2> QED BY <1>3, <2>2 DEF Lists
<1>6. Without(x \o u, T) = x1 \o u1
  BY <1>5, WithoutConcat
<1>7. s = x1 \o u1
  BY <1>4, <1>6 DEF Joined
<1>8. x1 \in Seq(Id) /\ u1 \in Seq(Id) /\ ToSet(x1) \subseteq P /\ ToSet(u1) \cap P = {}
  BY <1>5, WithoutMembers
<1>9. Len(x1) = Len(x) - (IF v.tab[t].pinned THEN 1 ELSE 0)
  <2>1. CASE t \in P
    <3>1. Len(x1) = Len(x) - 1
      BY <1>3, <2>1, WithoutLen
    <3> QED BY <1>4a, <2>1, <3>1
  <2>2. CASE t \notin P
    <3>1. ToSet(x) \cap T = {} /\ Len(x) \in Nat
      BY <1>5, <2>2
    <3> HIDE DEF T
    <3>2. x1 = x
      BY <1>5, <3>1, WithoutMembers
    <3> QED BY <1>4a, <2>2, <3>1, <3>2
  <2> QED BY <2>1, <2>2
<1> HIDE DEF s, x1, u1
<1>10. \A i \in 1 .. Len(x1) + Len(u1) : (x1 \o u1)[i] \in P <=> i <= Len(x1)
  BY <1>8, PartsFirst
<1>11. Len(x1 \o u1) = Len(x1) + Len(u1) /\ Len(x1) \in Nat /\ Len(u1) \in Nat
  BY <1>8, ConcatProperties
<1>12. PinsBut(v, t) = Len(x1)
  BY <1>9 DEF PinsBut, x
<1> DEFINE c == x1 \o u1
           m == PinsBut(v, t)
<1>13. s = c /\ m \in 0 .. Len(c) /\ \A i \in 1 .. Len(c) : c[i] \in P <=> i <= m
  BY <1>7, <1>10, <1>11, <1>12
<1> HIDE DEF c, m
<1>14. m \in 0 .. Len(s) /\ \A i \in 1 .. Len(s) : s[i] \in P <=> i <= m
  BY <1>13
<1> QED BY <1>2, <1>14 DEF s, T, P, m

\* moveTab's own move of a row: the pins, P, are first still.
LEMMA Moving ==
  ASSUME NEW v, Body(v), NEW t \in DOMAIN v.tab, NEW row \in 1 .. Len(v.rows),
         NEW P, P \ {t} = Pinned(v) \ {t},
         IF t \in P THEN row <= PinsBut(v, t) + 1 ELSE row > PinsBut(v, t)
  PROVE  LET w == MoveRow(v, t, row)
         IN  /\ Listed(w) /\ Paired(w) /\ Filed(w) /\ FirstIn(w.rows, P)
             /\ w.tab = v.tab /\ w.active = v.active /\ w.folders = v.folders
<1> DEFINE T == {t}
           s == Without(v.rows, T)
           r == InsertAt(s, row, t)
           m == PinsBut(v, t)
           w == MoveRow(v, t, row)
<1>1. Described(v) /\ Listed(v) /\ Paired(v) /\ Filed(v) /\ DOMAIN v.tab \subseteq Id
  BY DEF Body, Listed, Described
<1>2. /\ Lists(s, DOMAIN v.tab \ T) /\ Len(s) = Len(v.rows) - 1
      /\ m \in 0 .. Len(s) /\ \A i \in 1 .. Len(s) : s[i] \in Pinned(v) <=> i <= m
  BY PinsWithout
<1>3. w = [v EXCEPT !.rows = r]
  BY DEF MoveRow
<1>4. Len(v.rows) \in Nat
  BY PinCount
<1>5. row \in 1 .. Len(s) + 1
  BY <1>2, <1>4
<1>6. s \in Seq(Id) /\ \A i \in 1 .. Len(s) : s[i] \in DOMAIN v.tab \ T
  <2>1. DOMAIN v.tab \ T \subseteq Id
    BY <1>1
  <2> HIDE DEF s
  <2> QED BY <1>2, <2>1, ListsIn
<1>7. \A i \in 1 .. Len(s) : s[i] \in P <=> i <= m
  BY <1>2, <1>6
<1> HIDE DEF s, m
<1>8. Lists(r, DOMAIN v.tab)
  <2> DEFINE S == DOMAIN v.tab \ T
  <2>1. t \notin S /\ S \cup {t} = DOMAIN v.tab /\ Lists(s, S)
    BY <1>2
  <2> HIDE DEF S
  <2>2. Lists(r, S \cup {t})
    BY <1>5, <2>1, InsertLists
  <2> QED BY <2>1, <2>2
<1>9. FirstIn(r, P)
  <2>1. t \in Id /\ IF t \in P THEN row <= m + 1 ELSE row > m
    BY <1>1 DEF m
  <2> QED BY <1>2, <1>5, <1>6, <1>7, <2>1, InsertFirst
<1> HIDE DEF r, w
<1>10. /\ Described(w) /\ w.rows = r /\ w.tab = v.tab /\ w.active = v.active
       /\ w.folders = v.folders
  <2>1. Described(v)
    BY <1>1
  <2>2. LET x == [v EXCEPT !.rows = r]
        IN  /\ Described(x) /\ x.rows = r /\ x.tab = v.tab /\ x.active = v.active
            /\ x.folders = v.folders
    BY <2>1, WithRows
  <2> QED BY <1>3, <2>2
<1>11. Listed(w)
  BY <1>8, <1>10 DEF Listed
<1>12. Paired(w) /\ Filed(w)
  BY <1>1, <1>10 DEF Paired, WholeSplit, Has, Filed, InFolder
<1> QED BY <1>9, <1>10, <1>11, <1>12 DEF w

\* moveTab
LEMMA MoveTabKeeps ==
  ASSUME NEW v, Live(v), NEW t \in DOMAIN v.tab, NEW place
  PROVE  LET w == MoveTab(v, t, place)
         IN  Live(w) /\ w.tab = v.tab
<1> DEFINE section == IF v.tab[t].pinned THEN Pins(v) ELSE Unpinned(v)
           start == IF v.tab[t].pinned THEN 0 ELSE Len(Pins(v))
           row == start + place
           u == MoveRow(v, t, row)
           w == MoveTab(v, t, place)
<1>1. Body(v) /\ v.active \in DOMAIN v.tab \cup {None}
  BY DEF Live
<1>2. CASE v.tab[t].partner # None \/ place \notin DOMAIN section
  <2>1. w = v
    BY <1>2 DEF MoveTab
  <2> QED BY <2>1
<1>3. CASE ~(v.tab[t].partner # None \/ place \notin DOMAIN section)
  <2>1. w = Settle(u) /\ place \in DOMAIN section
    BY <1>3 DEF MoveTab
  <2>2. /\ Len(v.rows) \in Nat /\ Len(Pins(v)) \in 0 .. Len(v.rows)
        /\ Len(Unpinned(v)) = Len(v.rows) - Len(Pins(v))
        /\ DOMAIN Pins(v) = 1 .. Len(Pins(v)) /\ DOMAIN Unpinned(v) = 1 .. Len(Unpinned(v))
    BY <1>1, PinCount
  <2>3. row \in 1 .. Len(v.rows)
        /\ IF t \in Pinned(v) THEN row <= PinsBut(v, t) + 1 ELSE row > PinsBut(v, t)
    <3>1. t \in Pinned(v) <=> v.tab[t].pinned
      BY DEF Pinned
    <3>2. CASE v.tab[t].pinned
      <4>1. place \in 1 .. Len(Pins(v)) /\ row = 0 + place /\ PinsBut(v, t) = Len(Pins(v)) - 1
        BY <2>1, <2>2, <3>2 DEF PinsBut
      <4> HIDE DEF row
      <4> QED BY <2>2, <3>1, <3>2, <4>1
    <3>3. CASE ~v.tab[t].pinned
      <4>1. place \in 1 .. Len(Unpinned(v)) /\ row = Len(Pins(v)) + place
            /\ PinsBut(v, t) = Len(Pins(v)) - 0
        BY <2>1, <2>2, <3>3 DEF PinsBut
      <4> HIDE DEF row
      <4> QED BY <2>2, <3>1, <3>3, <4>1
    <3> QED BY <3>2, <3>3
  <2> HIDE DEF row
  <2>4. /\ Listed(u) /\ Paired(u) /\ Filed(u) /\ FirstIn(u.rows, Pinned(v))
        /\ u.tab = v.tab /\ u.active = v.active
    BY <1>1, <2>3, Moving
  <2> HIDE DEF u
  <2>5. FirstIn(u.rows, Pinned(u))
    BY <2>4 DEF Pinned
  <2>6. LET x == Settle(u) IN Body(x) /\ x.tab = u.tab /\ x.active = u.active
    BY <2>4, <2>5, SettleSorts
  <2> QED BY <1>1, <2>1, <2>4, <2>6 DEF Live
<1> QED BY <1>2, <1>3

\* setTabPinned
LEMMA SetPinnedKeeps ==
  ASSUME NEW v, Live(v), NEW t \in DOMAIN v.tab, v.tab[t].partner = None,
         NEW pinned \in BOOLEAN, v.tab[t].pinned # pinned
  PROVE  LET w == SetPinned(v, t, pinned)
         IN  Live(w) /\ DOMAIN w.tab = DOMAIN v.tab
<1> DEFINE row == IF pinned THEN Len(Pins(v)) + 1 ELSE Len(Pins(v))
           P == IF pinned THEN Pinned(v) \cup {t} ELSE Pinned(v) \ {t}
           y == MoveRow(v, t, row)
           rec == [v.tab[t] EXCEPT !.pinned = pinned, !.keep = v.tab[t].keep /\ pinned]
           q == [v.tab EXCEPT ![t] = rec]
           m == [y EXCEPT !.tab = q]
           T == {t}
           x == LeaveFolders(m, T)
           w == SetPinned(v, t, pinned)
<1>1. /\ Body(v) /\ v.active \in DOMAIN v.tab \cup {None} /\ Described(v) /\ Listed(v)
      /\ Paired(v) /\ Filed(v) /\ v.tab \in [DOMAIN v.tab -> Records] /\ DOMAIN v.tab \subseteq Id
  BY DEF Live, Body, Listed, Described
<1>2. /\ row \in 1 .. Len(v.rows) /\ P \ {t} = Pinned(v) \ {t}
      /\ IF t \in P THEN row <= PinsBut(v, t) + 1 ELSE row > PinsBut(v, t)
  <2> DEFINE n == Len(v.rows)
             k == Len(Pins(v))
             r == Row(v, t)
  <2>1. n \in Nat /\ k \in 0 .. n /\ (v.tab[t].pinned <=> r <= k) /\ r \in 1 .. n
    BY <1>1, PinCount, RowIs
  <2>2. PinsBut(v, t) = k - (IF v.tab[t].pinned THEN 1 ELSE 0)
    BY DEF PinsBut
  <2>3. row = (IF pinned THEN k + 1 ELSE k) /\ (t \in P <=> pinned)
    OBVIOUS
  <2>4. P \ {t} = Pinned(v) \ {t}
    OBVIOUS
  <2> HIDE DEF n, k, r, row, P
  <2>5. CASE pinned
    <3>1. ~v.tab[t].pinned /\ row = k + 1 /\ t \in P
      BY <2>3, <2>5
    <3>2. PinsBut(v, t) = k - 0
      BY <2>2, <3>1
    <3>3. row \in 1 .. n /\ row <= PinsBut(v, t) + 1
      BY <2>1, <3>1, <3>2
    <3> QED BY <2>4, <3>1, <3>3 DEF n
  <2>6. CASE ~pinned
    <3>1. v.tab[t].pinned /\ row = k /\ t \notin P
      BY <1>1, <2>3, <2>6 DEF Records, TabRecords
    <3>2. PinsBut(v, t) = k - 1
      BY <2>2, <3>1
    <3>3. row \in 1 .. n /\ row > PinsBut(v, t)
      BY <2>1, <3>1, <3>2
    <3> QED BY <2>4, <3>1, <3>3 DEF n
  <2> QED BY <2>5, <2>6
<1>3. w = Settle(LeaveFolders([MoveRow(v, t, row) EXCEPT !.tab[t].pinned = pinned,
                                                         !.tab[t].keep = @ /\ pinned], {t}))
  BY DEF SetPinned
<1>3a. \A u \in DOMAIN v.tab : u \in P <=> IF u = t THEN pinned ELSE v.tab[u].pinned
  BY DEF Pinned
<1> HIDE DEF row, P
<1>4. /\ Listed(y) /\ Paired(y) /\ Filed(y) /\ FirstIn(y.rows, P)
      /\ y.tab = v.tab /\ y.active = v.active /\ y.folders = v.folders
  BY <1>1, <1>2, Moving
<1>5. w = Settle(x)
  <2> HIDE DEF y, w
  <2>1. [y EXCEPT !.tab[t].pinned = pinned, !.tab[t].keep = @ /\ pinned]
        = [y EXCEPT !.tab = [y.tab EXCEPT ![t] =
             [y.tab[t] EXCEPT !.pinned = pinned, !.keep = y.tab[t].keep /\ pinned]]]
    <3>1. y = [rows |-> y.rows, tab |-> y.tab, active |-> y.active, folders |-> y.folders,
               closed |-> y.closed, away |-> y.away]
          /\ y.tab \in [DOMAIN y.tab -> Records] /\ t \in DOMAIN y.tab
      BY <1>4 DEF Listed, Described
    <3>2. y.tab[t] \in Records
      BY <3>1
    <3> QED BY <3>1, <3>2 DEF Records, TabRecords
  <2>2. [y EXCEPT !.tab[t].pinned = pinned, !.tab[t].keep = @ /\ pinned] = m
    BY <1>4, <2>1
  <2> QED BY <1>3, <2>2 DEF y
<1> HIDE DEF y, w
<1>6. rec \in Records /\ rec.pinned = pinned /\ rec.partner = None
  <2>1. v.tab[t] \in Records
    BY <1>1
  <2> QED BY <2>1 DEF Records, TabRecords
<1> HIDE DEF rec
<1>7. /\ q \in [DOMAIN q -> Records] /\ DOMAIN q = DOMAIN v.tab /\ q[t] = rec
      /\ \A u \in DOMAIN v.tab \ {t} : q[u] = v.tab[u]
  BY <1>1, <1>6
<1> HIDE DEF q
<1>8. /\ Described(m) /\ m.rows = y.rows /\ m.tab = q /\ m.active = y.active
      /\ m.folders = y.folders
  <2>1. Described(y) /\ DOMAIN q \subseteq Id
    BY <1>1, <1>4, <1>7 DEF Listed
  <2> QED BY <1>7, <2>1, WithTab
<1> HIDE DEF m
<1>9. Listed(m)
  BY <1>4, <1>7, <1>8 DEF Listed
<1>10. \A u \in DOMAIN v.tab : v.tab[u].partner # None => v.tab[u].partner # t
  <2> SUFFICES ASSUME NEW u \in DOMAIN v.tab, v.tab[u].partner # None, v.tab[u].partner = t
               PROVE  FALSE
    OBVIOUS
  <2>1. WholeSplit(v, u)
    BY <1>1 DEF Paired
  <2> QED BY <2>1 DEF WholeSplit
<1>11. Paired(m)
  <2> SUFFICES ASSUME NEW u \in DOMAIN v.tab PROVE WholeSplit(m, u)
    BY <1>7, <1>8 DEF Paired
  <2>1. CASE u = t
    BY <1>6, <1>7, <1>8, <2>1 DEF WholeSplit
  <2>2. CASE u # t
    <3>1. WholeSplit(v, u) /\ m.tab[u] = v.tab[u] /\ (v.tab[u].partner # None => v.tab[u].partner # t)
      BY <1>1, <1>7, <1>8, <1>10, <2>2 DEF Paired
    <3>2. v.tab[u].partner # None => v.tab[u].partner \in DOMAIN v.tab
                                     /\ m.tab[v.tab[u].partner] = v.tab[v.tab[u].partner]
      BY <1>7, <1>8, <3>1 DEF WholeSplit, Has
    <3> QED BY <1>7, <1>8, <3>1, <3>2 DEF WholeSplit, Has
  <2> QED BY <2>1, <2>2
<1>12. Filed(x)
  <2>1. Described(y) /\ Filed(y) /\ Described(m) /\ m.folders = y.folders
        /\ DOMAIN y.tab \subseteq DOMAIN m.tab
        /\ \A u \in DOMAIN y.tab \ T : m.tab[u] = y.tab[u]
    BY <1>4, <1>7, <1>8 DEF Listed
  <2>2. Apart(y, T)
    BY <1>4, <1>10 DEF Apart
  <2> HIDE DEF T
  <2> QED BY <2>1, <2>2, FiledBut
<1>13. /\ Described(x) /\ x.rows = m.rows /\ x.tab = m.tab /\ x.active = m.active
  <2> HIDE DEF T
  <2> QED BY <1>8, Leaving
<1> HIDE DEF x
<1>14. Listed(x) /\ Paired(x)
  BY <1>9, <1>11, <1>13 DEF Listed, Paired, WholeSplit, Has
<1>15. FirstIn(x.rows, Pinned(x))
  <2>1. Pinned(x) = P \cap DOMAIN v.tab
    BY <1>3a, <1>6, <1>7, <1>8, <1>13 DEF Pinned
  <2>2. \A i \in 1 .. Len(y.rows) : y.rows[i] \in DOMAIN v.tab
    BY <1>4, RowIs
  <2>3. FirstIn(y.rows, P \cap DOMAIN v.tab)
    BY <1>4, <2>2 DEF FirstIn
  <2> QED BY <1>8, <1>13, <2>1, <2>3
<1>16. LET z == Settle(x) IN Body(z) /\ z.tab = x.tab /\ z.active = x.active
  BY <1>12, <1>14, <1>15, SettleSorts
<1>17. Body(w) /\ DOMAIN w.tab = DOMAIN v.tab /\ w.active = v.active
  BY <1>4, <1>5, <1>7, <1>8, <1>13, <1>16
<1> QED BY <1>1, <1>17 DEF Live, w

\* addSplit with a tab of the Space.
LEMMA SplitWithKeeps ==
  ASSUME NEW v, Live(v), NEW t \in DOMAIN v.tab, CanSplitWith(v, t), t # None,
         Selectable(v, v.active)
  PROVE  LET w == SplitWith(v, t)
         IN  Live(w) /\ DOMAIN w.tab = DOMAIN v.tab
<1> DEFINE l == v.active
           row == IF Row(v, t) < Row(v, l) THEN Row(v, l) ELSE Row(v, l) + 1
           f == IF FolderOf(v, l) # 0 THEN FolderOf(v, l) ELSE FolderOf(v, t)
           y == MoveRow(v, t, row)
           q == Pair(y, l, t)
           P == Pinned(v)
<1>1. /\ Body(v) /\ Listed(v) /\ Paired(v) /\ Filed(v) /\ Described(v)
      /\ l \in DOMAIN v.tab /\ l # None /\ ~v.tab[l].pinned /\ v.tab[l].partner = None
      /\ t # l /\ ~v.tab[t].pinned /\ v.tab[t].partner = None
      /\ ~v.tab[l].popped /\ ~v.tab[t].popped
  BY DEF Live, Body, Listed, CanSplit, CanSplitWith, Selectable
<1>2. l \in Tab /\ t \in Tab
  BY <1>1 DEF Described, Id
<1>3. SplitWith(v, t) = JoinFolder(q, f, l, t)
  BY DEF SplitWith
<1>3a. y.active = v.active => y.active = l
  OBVIOUS
<1> HIDE DEF l
<1>4. /\ row \in 1 .. Len(v.rows) /\ P \ {t} = Pinned(v) \ {t}
      /\ IF t \in P THEN row <= PinsBut(v, t) + 1 ELSE row > PinsBut(v, t)
  <2> DEFINE n == Len(v.rows)
             k == Len(Pins(v))
             a == Row(v, t)
             c == Row(v, l)
  <2>1. /\ n \in Nat /\ k \in 0 .. n /\ a \in 1 .. n /\ c \in 1 .. n
        /\ ~(c <= k) /\ v.rows[a] = t /\ v.rows[c] = l
    BY <1>1, PinCount, RowIs
  <2>2. PinsBut(v, t) = k - 0 /\ t \notin P
    BY <1>1 DEF PinsBut, Pinned
  <2>3. row = (IF a < c THEN c ELSE c + 1) /\ a # c
    BY <1>1, <2>1
  <2> HIDE DEF n, k, a, c, row
  <2>4. row \in 1 .. n /\ row > k - 0
    BY <2>1, <2>3
  <2> QED BY <2>2, <2>4 DEF n
<1> HIDE DEF row, P
<1>5. /\ Listed(y) /\ Paired(y) /\ Filed(y) /\ FirstIn(y.rows, P)
      /\ y.tab = v.tab /\ y.active = v.active /\ y.folders = v.folders
  BY <1>1, <1>4, Moving
<1> HIDE DEF y
<1>6. /\ Listed(q) /\ Paired(q) /\ Filed(LeaveFolders(q, {l, t}))
      /\ Pinned(q) = Pinned(y) /\ q.rows = y.rows /\ DOMAIN q.tab = DOMAIN y.tab
      /\ q.active = y.active /\ q.folders = y.folders
      /\ q.tab[l].partner = t /\ q.tab[t].partner = l
  <2>1. /\ l # t /\ Has(y, l) /\ Has(y, t) /\ ~y.tab[l].pinned /\ ~y.tab[t].pinned
        /\ y.tab[l].partner = None /\ y.tab[t].partner = None /\ y.active \in {l, t}
        /\ ~y.tab[l].popped /\ ~y.tab[t].popped
    BY <1>1, <1>3a, <1>5 DEF Has
  <2> QED BY <1>2, <1>5, <2>1, Pairing
<1> HIDE DEF q
<1>7. LET w == JoinFolder(q, f, l, t) IN Body(w) /\ w.tab = q.tab /\ w.active = q.active
  <2>1. l # t /\ Has(q, l) /\ Has(q, t) /\ ~q.tab[l].pinned /\ ~q.tab[t].pinned
    <3>1. l \in DOMAIN q.tab /\ t \in DOMAIN q.tab /\ l # t
      BY <1>1, <1>5, <1>6
    <3>2. WholeSplit(q, l) /\ WholeSplit(q, t) /\ l # None /\ t # None
      BY <1>1, <1>6, <3>1 DEF Paired
    <3> QED BY <1>6, <3>1, <3>2 DEF Has, WholeSplit
  <2>2. \A g \in DOMAIN q.folders : Once(q.folders[g].tabs)
    BY <1>5, <1>6 DEF Filed
  <2>3. q.folders = v.folders /\ Held(q) = Held(v) /\ \A g : InFolder(q, g) = InFolder(v, g)
    BY <1>5, <1>6, SameParts
  <2>4. f = 0 => l \notin Held(q) /\ t \notin Held(q)
    <3>1. f = 0 => FolderOf(v, l) = 0 /\ FolderOf(v, t) = 0
      OBVIOUS
    <3> QED BY <1>1, <2>3, <3>1, HeldIn
  <2>5. f # 0 => f \in DOMAIN q.folders /\ (l \in InFolder(q, f) \/ t \in InFolder(q, f))
    BY <1>1, <2>3, FolderIs
  <2>6. FirstIn(q.rows, Pinned(q))
    <3>1. Pinned(y) = P
      BY <1>5 DEF Pinned, P
    <3> QED BY <1>5, <1>6, <3>1
  <2> HIDE DEF f
  <2> QED BY <1>2, <1>6, <2>1, <2>2, <2>4, <2>5, <2>6, JoinKeeps
<1>8. l \in DOMAIN q.tab /\ DOMAIN q.tab = DOMAIN v.tab /\ q.active = l
  BY <1>1, <1>3a, <1>5, <1>6
<1> QED BY <1>3, <1>7, <1>8 DEF Live

-----------------------------------------------------------------------------
(* Whole rows                                                              *)

\* C holds both halves of a split or none.
Rowwise(v, C) == \A t \in C : v.tab[t].partner # None => v.tab[t].partner \in C

\* wholeRows: the rows of some tabs, each once.
LEMMA RowsOfIs ==
  ASSUME NEW v, Listed(v), Paired(v), NEW ts \in Seq(Tab), NEW C, C \subseteq DOMAIN v.tab,
         Rowwise(v, C)
  PROVE  LET r == RowsOf(v, ts, C)
         IN  /\ Lists(r, ToSet(r)) /\ r \in Seq(Tab) /\ ToSet(r) \subseteq C
             /\ Rowwise(v, ToSet(r))
<1> DEFINE n == Len(ts)
           D == {s \in Seq(Tab) : Once(s) /\ ToSet(s) \subseteq C /\ Rowwise(v, ToSet(s))}
           Next1(s, i) == IF ts[i] \in C \ ToSet(s) THEN s \o WholeRow(v, ts[i]) ELSE s
           g == [p \in D \X (1 .. n) |-> Next1(p[1], p[2])]
           upTo == CHOOSE f : f = [i \in 0 .. n |->
                      IF i = 0 THEN <<>>
                      ELSE IF ts[i] \in C \ ToSet(f[i - 1])
                      THEN f[i - 1] \o WholeRow(v, ts[i]) ELSE f[i - 1]]
<1>1. n \in Nat /\ \A i \in 1 .. n : ts[i] \in Tab
  OBVIOUS
<1>2. <<>> \in D
  <2>1. <<>> \in Seq(Tab) /\ Lists(<<>>, {})
    BY SmallLists
  <2> QED BY <2>1 DEF Lists, Rowwise
<1>3. ASSUME NEW s \in D, NEW i \in 1 .. n
      PROVE  Next1(s, i) \in D
  <2>1. CASE ts[i] \notin C \ ToSet(s)
    BY <2>1
  <2>2. CASE ts[i] \in C \ ToSet(s)
    <3> DEFINE t == ts[i]
               R == Row2(v, t)
               w == WholeRow(v, t)
               A == ToSet(s)
               c == s \o w
    <3>1. t \in Tab /\ t \in C /\ t \notin A /\ t \in DOMAIN v.tab
      BY <1>1, <2>2
    <3>2. Next1(s, i) = c
      BY <2>2
    <3>3. s \in Seq(Tab) /\ Once(s) /\ A \subseteq C /\ Rowwise(v, A)
      OBVIOUS
    <3> HIDE DEF t
    <3>4. /\ Lists(w, R) /\ R \subseteq DOMAIN v.tab /\ t \in R
          /\ \A u \in R : u # t => /\ u \in Tab /\ v.tab[u].partner = t
                                   /\ v.tab[t].partner = u
      <4>1. t \in R
        BY DEF Row2
      <4> QED BY <3>1, <4>1, WholeRowIs
    <3>5. t # None /\ \A u \in R : u # t => u = v.tab[t].partner /\ u # None
      BY <3>1, TabAssumption DEF Row2
    <3>6. R \subseteq Tab /\ R \subseteq C
      BY <3>1, <3>4, <3>5 DEF Rowwise
    <3>7. A \cap R = {}
      BY <3>1, <3>3, <3>4, <3>5 DEF Rowwise
    <3>8. Lists(s, A)
      BY <3>3, Members DEF Lists
    <3>8a. v.tab[t].partner # None => v.tab[t].partner \in R
      BY DEF Row2
    <3> HIDE DEF R, w, A
    <3>9. Lists(c, A \cup R)
      BY <3>4, <3>7, <3>8, ConcatLists
    <3> HIDE DEF c
    <3>10. A \cup R \subseteq Tab
      BY <3>3, <3>6, <3>8, Members DEF Lists
    <3> DEFINE U == A \cup R
    <3>11. Lists(c, U) /\ U \subseteq Tab /\ U \subseteq C
      BY <3>3, <3>6, <3>9, <3>10
    <3>12. Rowwise(v, U)
      <4> SUFFICES ASSUME NEW u \in U, v.tab[u].partner # None PROVE v.tab[u].partner \in U
        BY DEF Rowwise
      <4>1. CASE u \in A
        BY <3>3, <4>1 DEF Rowwise
      <4>2. CASE u = t
        BY <3>8a, <4>2
      <4>3. CASE u \in R /\ u # t
        BY <3>4, <4>3
      <4> QED BY <4>1, <4>2, <4>3
    <3> HIDE DEF U
    <3>13. c \in Seq(Tab)
      BY <3>11, ListsIn
    <3>14. Once(c) /\ ToSet(c) = U
      BY <3>11 DEF Lists
    <3> HIDE DEF Next1
    <3> QED BY <3>2, <3>11, <3>12, <3>13, <3>14
  <2> HIDE DEF Next1
  <2> QED BY <2>1, <2>2
<1>4. RowsOf(v, ts, C) = upTo[n]
  BY DEF RowsOf
<1>5. g \in [D \X (1 .. n) -> D]
  <2> HIDE DEF D, Next1
  <2> QED BY <1>3
<1>6. PICK f : Unfolds(f, D, n, <<>>, g)
  <2> HIDE DEF n, D, g, upTo
  <2> QED BY <1>1, <1>2, <1>5, Unfolding
<1>7. f \in [0 .. n -> D] /\ f[0] = <<>> /\ \A i \in 1 .. n : f[i] = g[<<f[i - 1], i>>]
  BY <1>6 DEF Unfolds
<1>8. ASSUME NEW i \in 1 .. n
      PROVE  f[i] = Next1(f[i - 1], i)
  <2> HIDE DEF D, n, Next1
  <2>1. i - 1 \in 0 .. n
    BY <1>1
  <2>2. <<f[i - 1], i>> \in D \X (1 .. n)
    BY <1>7, <2>1
  <2> QED BY <1>7, <2>2
<1> HIDE DEF D, g
<1>9. f = [i \in 0 .. n |-> IF i = 0 THEN <<>>
                      ELSE IF ts[i] \in C \ ToSet(f[i - 1])
                      THEN f[i - 1] \o WholeRow(v, ts[i]) ELSE f[i - 1]]
  <2> DEFINE h == [i \in 0 .. n |-> IF i = 0 THEN <<>>
                      ELSE IF ts[i] \in C \ ToSet(f[i - 1])
                      THEN f[i - 1] \o WholeRow(v, ts[i]) ELSE f[i - 1]]
  <2> HIDE DEF n
  <2>1. ASSUME NEW i \in 0 .. n PROVE f[i] = h[i]
    <3>1. i = 0 \/ i \in 1 .. n
      BY <1>1
    <3> QED BY <1>7, <1>8, <3>1
  <2> QED BY <1>7, <2>1
<1>10. upTo = [i \in 0 .. n |-> IF i = 0 THEN <<>>
                      ELSE IF ts[i] \in C \ ToSet(upTo[i - 1])
                      THEN upTo[i - 1] \o WholeRow(v, ts[i]) ELSE upTo[i - 1]]
  BY <1>9
<1>11. \A i \in 0 .. n : upTo[i] = IF i = 0 THEN <<>> ELSE Next1(upTo[i - 1], i)
  <2> HIDE DEF upTo, n
  <2> QED BY <1>10
<1> HIDE DEF upTo, n, Next1
<1>12. \A i \in 0 .. n : upTo[i] \in D
  <2> DEFINE Q == {i \in 0 .. n : upTo[i] \in D}
  <2>1. 0 \in Q
    BY <1>1, <1>2, <1>11
  <2>2. ASSUME NEW i \in 0 .. n - 1, i \in Q
        PROVE  i + 1 \in Q
    <3>1. i + 1 \in 1 .. n /\ (i + 1) - 1 = i /\ i + 1 # 0 /\ i + 1 \in 0 .. n
      BY <1>1
    <3>2. upTo[i + 1] = Next1(upTo[i], i + 1)
      BY <1>11, <3>1
    <3> QED BY <1>3, <2>2, <3>1, <3>2
  <2> HIDE DEF Q
  <2>3. \A i \in 0 .. n : i \in Q
    BY <1>1, <2>1, <2>2, UpTo
  <2> QED BY <2>3 DEF Q
<1>13. upTo[n] \in D
  BY <1>1, <1>12
<1>14. LET r == upTo[n]
       IN  r \in Seq(Tab) /\ Once(r) /\ ToSet(r) \subseteq C /\ Rowwise(v, ToSet(r))
  BY <1>13 DEF D
<1>15. upTo[n] \in Seq(ToSet(upTo[n]))
  BY <1>14, Members
<1> QED BY <1>4, <1>14, <1>15 DEF Lists

\* Rows that leave the Folders: nothing is broken, and they can be put elsewhere.
LEMMA LeavingRows ==
  ASSUME NEW v, Body(v), NEW R, R \subseteq Tab, R \subseteq DOMAIN v.tab, Rowwise(v, R)
  PROVE  LET x == LeaveFolders(v, R)
         IN  /\ Listed(x) /\ Paired(x) /\ Filed(x) /\ FirstIn(x.rows, Pinned(x))
             /\ x.rows = v.rows /\ x.tab = v.tab /\ x.active = v.active
             /\ DOMAIN x.folders = DOMAIN v.folders /\ Pinned(x) = Pinned(v)
             /\ R \cap Held(x) = {}
             /\ R \cap Pinned(v) = {} => FreeRows(x, R)
<1> DEFINE x == LeaveFolders(v, R)
<1>1. Described(v) /\ Listed(v) /\ Paired(v) /\ Filed(v) /\ None \notin Tab
  BY TabAssumption DEF Body, Listed
<1>2. Apart(v, R)
  <2> SUFFICES ASSUME NEW t \in DOMAIN v.tab \ R, v.tab[t].partner # None,
                      v.tab[t].partner \in R
               PROVE  FALSE
    BY DEF Apart
  <2>1. v.tab[v.tab[t].partner].partner = t /\ t # None
    BY <1>1 DEF Paired, WholeSplit
  <2>2. t \in R
    BY <2>1 DEF Rowwise
  <2> QED BY <2>2
<1>3. /\ Described(x) /\ x.rows = v.rows /\ x.tab = v.tab /\ x.active = v.active
      /\ DOMAIN x.folders = DOMAIN v.folders /\ Held(x) = Held(v) \ R
  BY <1>1, Leaving
<1>4. Filed(x)
  BY <1>1, <1>2, LeavingFiled
<1> HIDE DEF x
<1>5. Listed(x) /\ Paired(x) /\ Pinned(x) = Pinned(v)
  BY <1>1, <1>3 DEF Listed, Paired, WholeSplit, Has, Pinned
<1>6. FirstIn(x.rows, Pinned(x))
  BY <1>3, <1>5, SortedPins
<1>7. R \cap Pinned(v) = {} => FreeRows(x, R)
  BY <1>3 DEF FreeRows, Pinned, Rowwise
<1> QED BY <1>3, <1>4, <1>5, <1>6, <1>7 DEF x

\* placeTabs
LEMMA PlaceTabsKeeps ==
  ASSUME NEW v, Live(v), NEW ts \in Seq(Tab), NEW f \in {0} \cup DOMAIN v.folders,
         NEW before
  PROVE  LET w == PlaceTabs(v, ts, f, before)
         IN  Live(w) /\ w.tab = v.tab
<1> DEFINE D == DOMAIN v.tab
           rows == WholeRows(v, ts)
           R == ToSet(rows)
           first == IF Has(v, before) THEN Head(WholeRow(v, before)) ELSE None
           x == LeaveFolders(v, R)
           loose == Without(Loose(x), R)
           w == PlaceTabs(v, ts, f, before)
<1>1. /\ Body(v) /\ v.active \in D \cup {None} /\ Described(v) /\ Listed(v)
      /\ Paired(v) /\ Filed(v)
  BY DEF Live, Body, Listed
<1>2. w = IF rows = <<>> \/ \E t \in R : v.tab[t].pinned THEN v
          ELSE IF f # 0
          THEN Settle([x EXCEPT !.folders[f].tabs = InsertRows(@, rows, first)])
          ELSE SettleAs(x, InsertRows(loose, rows, first))
  BY DEF PlaceTabs
<1>3. Lists(rows, R) /\ rows \in Seq(Tab) /\ R \subseteq D /\ Rowwise(v, R)
  <2>1. Rowwise(v, D)
    BY <1>1 DEF Rowwise, Paired, WholeSplit, Has
  <2>2. rows = RowsOf(v, ts, D)
    BY DEF WholeRows
  <2> HIDE DEF D, rows
  <2>3. D \subseteq DOMAIN v.tab
    BY DEF D
  <2> QED BY <1>1, <2>1, <2>2, <2>3, RowsOfIs
<1>4. R \subseteq Tab
  <2> HIDE DEF rows
  <2> QED BY <1>3, Members
<1> HIDE DEF rows, first, w
<1>5. /\ Listed(x) /\ Paired(x) /\ Filed(x) /\ FirstIn(x.rows, Pinned(x))
      /\ x.tab = v.tab /\ x.active = v.active
      /\ DOMAIN x.folders = DOMAIN v.folders /\ Pinned(x) = Pinned(v)
      /\ R \cap Held(x) = {} /\ (R \cap Pinned(v) = {} => FreeRows(x, R))
  <2> HIDE DEF R
  <2> QED BY <1>1, <1>3, <1>4, LeavingRows
<1> HIDE DEF x
<1>6. CASE rows = <<>> \/ \E t \in R : v.tab[t].pinned
  <2>1. w = v
    BY <1>2, <1>6
  <2> QED BY <2>1 DEF w
<1>7. CASE ~(rows = <<>> \/ \E t \in R : v.tab[t].pinned) /\ f # 0
  <2> DEFINE s == x.folders[f].tabs
             ts2 == InsertRows(s, rows, first)
             A == InFolder(x, f) \cup R
             u == [x EXCEPT !.folders[f].tabs = ts2]
  <2>1. w = Settle(u)
    BY <1>2, <1>7
  <2>2. R \cap Pinned(v) = {} /\ FreeRows(x, R) /\ f \in DOMAIN x.folders
    BY <1>5, <1>7 DEF Pinned
  <2>3. Lists(s, InFolder(x, f))
    <3>1. s \in Seq(Tab) /\ Once(s)
      BY <1>5, <2>2, FolderTabs DEF Filed, Listed
    <3>2. s \in Seq(ToSet(s))
      BY <3>1, Members
    <3> QED BY <3>1, <3>2 DEF Lists, InFolder
  <2>4. InFolder(x, f) \cap R = {}
    BY <1>5, <2>2 DEF Held, InFolder
  <2> HIDE DEF s
  <2>5. Lists(ts2, A)
    <3> DEFINE B == InFolder(x, f)
    <3> HIDE DEF B, R
    <3> QED BY <1>3, <2>3, <2>4, InsertRowsLists DEF B
  <2> HIDE DEF ts2
  <2>6. Listed(u) /\ Paired(u) /\ Filed(u) /\ FoldersHeld(u) /\ u.tab = x.tab /\ u.active = x.active
    <3>1. /\ Listed(x) /\ Paired(x) /\ Filed(x) /\ f \in DOMAIN x.folders
          /\ FreeRows(x, R) /\ A = InFolder(x, f) \cup R /\ Lists(ts2, A)
      BY <1>5, <2>2, <2>5
    <3> HIDE DEF A, R
    <3>2. LET y == [x EXCEPT !.folders[f].tabs = ts2]
          IN  /\ Listed(y) /\ Paired(y) /\ Filed(y) /\ FoldersHeld(y)
              /\ y.rows = x.rows /\ y.tab = x.tab /\ y.active = x.active
              /\ DOMAIN y.folders = DOMAIN x.folders
      BY ONLY SMTT(30), <3>1, Filling
    <3> QED BY <3>2
  <2> HIDE DEF u
  <2>7. LET z == Settle(u) IN Body(z) /\ z.tab = u.tab /\ z.active = u.active
    BY <2>6, SettleSorts
  <2> QED BY <1>1, <1>5, <2>1, <2>6, <2>7 DEF Live, w
<1>8. CASE ~(rows = <<>> \/ \E t \in R : v.tab[t].pinned) /\ f = 0
  <2> DEFINE l == InsertRows(loose, rows, first)
             L == D \ (Pinned(x) \cup Held(x))
  <2>1. w = SettleAs(x, l)
    BY <1>2, <1>8
  <2>2. R \cap Pinned(x) = {}
    BY <1>5, <1>8 DEF Pinned
  <2>3. Lists(Loose(x), L)
    BY <1>5, RowParts
  <2>4. Lists(loose, L \ R)
    <3> HIDE DEF L, R
    <3> QED BY <2>3, PartLists
  <2>5. (L \ R) \cup R = L /\ (L \ R) \cap R = {}
    BY <1>3, <1>5, <2>2
  <2> HIDE DEF loose
  <2>6. Lists(l, L)
    <3> DEFINE M == L \ R
    <3>1. Lists(loose, M) /\ M \cap R = {} /\ M \cup R = L
      BY <2>4, <2>5
    <3> HIDE DEF M, L, R
    <3>2. Lists(l, M \cup R)
      BY <1>3, <3>1, InsertRowsLists
    <3> QED BY <3>1, <3>2
  <2> HIDE DEF l
  <2>7. LET z == SettleAs(x, l) IN Body(z) /\ z.tab = x.tab /\ z.active = x.active
    <3>1. Lists(l, DOMAIN x.tab \ (Pinned(x) \cup Held(x)))
      BY <1>5, <2>6
    <3> QED BY <1>5, <3>1, SettleAsSorts
  <2> QED BY <1>1, <1>5, <2>1, <2>7 DEF Live, w
<1> QED BY <1>6, <1>7, <1>8

\* A step past the end of a list leads to a Folder that is there, or to none.
LEMMA StepFolder ==
  ASSUME NEW n \in Nat, NEW f \in 0 .. n
  PROVE  /\ (IF f # 0 THEN f ELSE n + 1) - 1 > 0 => (IF f # 0 THEN f ELSE n + 1) - 1 \in 1 .. n
         /\ f # 0 /\ f # n => f + 1 \in 1 .. n
OBVIOUS

\* stepRowAcrossFolders
LEMMA StepRowKeeps ==
  ASSUME NEW v, Live(v), NEW t \in DOMAIN v.tab, t # None, NEW d
  PROVE  LET w == StepRow(v, t, d)
         IN  Live(w) /\ w.tab = v.tab
<1> DEFINE f == FolderOf(v, t)
           n == Len(v.folders)
           starts(ts) == Among(ts, {u \in DOMAIN v.tab : Head(WholeRow(v, u)) = u})
           list == starts(IF f # 0 THEN v.folders[f].tabs ELSE Loose(v))
           row == WholeRow(v, t)
           next == SelectInSeq(list, LAMBDA u : u = Head(row)) + d
           first(ts) == IF ts = <<>> THEN None ELSE Head(ts)
           above == (IF f # 0 THEN f ELSE n + 1) - 1
           w == StepRow(v, t, d)
<1>1. Described(v) /\ Listed(v) /\ Paired(v) /\ Filed(v) /\ DOMAIN v.tab \subseteq Id
  BY DEF Live, Body, Listed, Described
<1>2. DOMAIN v.folders = 1 .. n /\ n \in Nat /\ (f # 0 => f \in 1 .. n)
  BY <1>1, FolderTabs, FolderIs
<1>3. row \in Seq(Tab)
  <2>1. /\ Lists(row, Row2(v, t)) /\ \A u \in Row2(v, t) : u # t => u \in Tab
    BY <1>1, WholeRowIs
  <2>2. t \in Tab
    BY <1>1 DEF Id
  <2>3. Row2(v, t) \subseteq Tab
    BY <2>1, <2>2
  <2> HIDE DEF row
  <2> QED BY <2>1, <2>3, ListsIn
<1>4. \A g, before : (g # 0 => g \in 1 .. n) =>
         Live(PlaceTabs(v, row, g, before)) /\ PlaceTabs(v, row, g, before).tab = v.tab
  <2> SUFFICES ASSUME NEW g, NEW before, g # 0 => g \in 1 .. n
               PROVE  /\ Live(PlaceTabs(v, row, g, before))
                      /\ PlaceTabs(v, row, g, before).tab = v.tab
    OBVIOUS
  <2> HIDE DEF row, n
  <2>1. Live(v) /\ row \in Seq(Tab) /\ g \in {0} \cup DOMAIN v.folders
    BY <1>2, <1>3
  <2>2. LET z == PlaceTabs(v, row, g, before) IN Live(z) /\ z.tab = v.tab
    BY ONLY <2>1, PlaceTabsKeeps
  <2> QED BY <2>2
<1>5. w = IF next \in DOMAIN list
          THEN IF v.tab[t].partner # None THEN v
               ELSE PlaceTabs(v, row, f, IF d < 0 THEN list[next]
                                         ELSE IF next < Len(list) THEN list[next + 1] ELSE None)
          ELSE IF d < 0
          THEN IF above > 0 THEN PlaceTabs(v, row, above, None) ELSE v
          ELSE IF f = 0 THEN v
          ELSE IF f = n THEN PlaceTabs(v, row, 0, first(starts(Loose(v))))
          ELSE PlaceTabs(v, row, f + 1, IF v.folders[f + 1].collapsed THEN None
                                        ELSE first(v.folders[f + 1].tabs))
  BY DEF StepRow
<1>6. (above > 0 => above \in 1 .. n) /\ (f # 0 /\ f # n => f + 1 \in 1 .. n)
  <2>1. f = 0 \/ f \in 1 .. n
    BY <1>2
  <2> HIDE DEF f, n
  <2>2. f \in 0 .. n /\ n \in Nat
    BY <1>2, <2>1
  <2> QED BY <2>2, StepFolder
<1>7. \E g, before : w = v \/ (w = PlaceTabs(v, row, g, before) /\ (g # 0 => g \in 1 .. n))
  <2> HIDE DEF row, f, n, list, next, above, first, starts
  <2> QED BY <1>2, <1>5, <1>6
<1> HIDE DEF w, row, n
<1> QED BY <1>4, <1>7 DEF w

\* moveTabBy
LEMMA MoveTabByKeeps ==
  ASSUME NEW v, Live(v), NEW t \in DOMAIN v.tab, t # None, NEW d
  PROVE  LET w == MoveTabBy(v, t, d)
         IN  Live(w) /\ w.tab = v.tab
BY StepRowKeeps, MoveTabKeeps DEF MoveTabBy

-----------------------------------------------------------------------------
(* Folders that come and go                                                *)

\* A Folder of rows that are in none is put after the others.
LEMMA AppendingFolder ==
  ASSUME NEW x, Listed(x), Paired(x), Filed(x), NEW R, FreeRows(x, R),
         NEW rec \in FolderRecords, Lists(rec.tabs, R)
  PROVE  LET u == [x EXCEPT !.folders = Append(x.folders, rec)]
         IN  /\ Listed(u) /\ Paired(u) /\ Filed(u) /\ FoldersHeld(u)
             /\ u.rows = x.rows /\ u.tab = x.tab /\ u.active = x.active
<1> DEFINE F == Append(x.folders, rec)
           n == Len(x.folders)
           u == [x EXCEPT !.folders = F]
<1>1. /\ x.folders \in Seq(FolderRecords) /\ Described(x)
      /\ DOMAIN x.folders = 1 .. n /\ n \in Nat
  BY FolderTabs DEF Listed, Described
<1>2. F \in Seq(FolderRecords) /\ DOMAIN F = 1 .. n + 1 /\ F[n + 1] = rec
      /\ \A g \in 1 .. n : F[g] = x.folders[g]
  <2> DEFINE G == FolderRecords
             y == x.folders
  <2>1. y \in Seq(G) /\ rec \in G
    BY <1>1
  <2> HIDE DEF G, y
  <2>2. Append(y, rec) \in Seq(G) /\ DOMAIN Append(y, rec) = 1 .. Len(y) + 1
        /\ Append(y, rec)[Len(y) + 1] = rec /\ \A g \in 1 .. Len(y) : Append(y, rec)[g] = y[g]
    BY <2>1
  <2> QED BY <2>2 DEF G, y
<1> HIDE DEF F
<1>3. /\ Described(u) /\ u.rows = x.rows /\ u.tab = x.tab /\ u.active = x.active
      /\ u.folders = F
  BY <1>1, <1>2, WithFolders
<1> HIDE DEF u
<1>4. Listed(u) /\ Paired(u) /\ FoldersHeld(u)
  <2>1. Listed(u) /\ Paired(u)
    BY <1>3 DEF Listed, Paired, WholeSplit, Has
  <2>2. F # <<>>
    <3>1. n + 1 \in 1 .. n + 1
      BY <1>1
    <3> HIDE DEF n
    <3> QED BY <1>2, <3>1
  <2> QED BY <1>3, <2>1, <2>2 DEF FoldersHeld
<1>5. /\ \A g \in 1 .. n : u.folders[g] = x.folders[g] /\ InFolder(u, g) = InFolder(x, g)
      /\ u.folders[n + 1].tabs = rec.tabs /\ InFolder(u, n + 1) = R
  BY <1>2, <1>3 DEF InFolder, Lists
<1>6. Filed(u)
  <2> HIDE DEF n
  <2>1. DOMAIN u.folders = 1 .. n + 1 /\ \A g \in 1 .. n + 1 : g \in 1 .. n \/ g = n + 1
    BY <1>1, <1>2, <1>3
  <2>2. ASSUME NEW g \in 1 .. n + 1
        PROVE  /\ Once(u.folders[g].tabs)
               /\ \A t \in InFolder(u, g) :
                    /\ Has(u, t) /\ ~u.tab[t].pinned
                    /\ u.tab[t].partner # None => u.tab[t].partner \in InFolder(u, g)
    <3>1. CASE g \in 1 .. n
      <4>1. /\ Once(x.folders[g].tabs)
            /\ \A t \in InFolder(x, g) :
                    /\ Has(x, t) /\ ~x.tab[t].pinned
                    /\ x.tab[t].partner # None => x.tab[t].partner \in InFolder(x, g)
        BY <1>1, <3>1 DEF Filed
      <4> QED BY <1>3, <1>5, <3>1, <4>1 DEF Has
    <3>2. CASE g = n + 1
      BY <1>3, <1>5, <3>2 DEF FreeRows, Has, Lists
    <3> QED BY <2>1, <3>1, <3>2
  <2>3. ASSUME NEW g \in 1 .. n PROVE InFolder(x, g) \cap R = {}
    BY <1>1 DEF Held, InFolder, FreeRows
  <2>4. ASSUME NEW g \in 1 .. n + 1, NEW h \in 1 .. n + 1, h # g
        PROVE  InFolder(u, g) \cap InFolder(u, h) = {}
    <3>1. \A i, j \in 1 .. n : j # i => InFolder(x, i) \cap InFolder(x, j) = {}
      BY <1>1 DEF Filed
    <3> QED BY <1>5, <2>1, <2>3, <2>4, <3>1
  <2> QED BY <2>1, <2>2, <2>4 DEF Filed
<1> QED BY <1>3, <1>4, <1>6 DEF u, F

\* createFolder
LEMMA CreateFolderKeeps ==
  ASSUME NEW v, Live(v), NEW ts \in Seq(Tab)
  PROVE  LET w == CreateFolder(v, ts)
         IN  Live(w) /\ w.tab = v.tab
<1> DEFINE D == DOMAIN v.tab
           rows == WholeRows(v, ts)
           R == ToSet(rows)
           x == LeaveFolders(v, R)
           rec == [tabs |-> rows, collapsed |-> FALSE]
           u == [x EXCEPT !.folders = Append(x.folders, rec)]
           w == CreateFolder(v, ts)
<1>1. /\ Body(v) /\ v.active \in D \cup {None} /\ Described(v) /\ Listed(v)
      /\ Paired(v) /\ Filed(v)
  BY DEF Live, Body, Listed
<1>2. w = IF \E t \in R : v.tab[t].pinned THEN v
          ELSE Settle([LeaveFolders(v, R) EXCEPT !.folders = Append(@, rec)])
  BY DEF CreateFolder
<1>3. Lists(rows, R) /\ rows \in Seq(Tab) /\ R \subseteq D /\ Rowwise(v, R)
  <2>1. Rowwise(v, D)
    BY <1>1 DEF Rowwise, Paired, WholeSplit, Has
  <2>2. rows = RowsOf(v, ts, D)
    BY DEF WholeRows
  <2> HIDE DEF D, rows
  <2>3. D \subseteq DOMAIN v.tab
    BY DEF D
  <2> QED BY <1>1, <2>1, <2>2, <2>3, RowsOfIs
<1>4. R \subseteq Tab /\ rec \in FolderRecords /\ rec.tabs = rows
  <2> HIDE DEF rows
  <2> QED BY <1>3, Members DEF FolderRecords
<1> HIDE DEF rec, w, rows
<1>5. /\ Listed(x) /\ Paired(x) /\ Filed(x)
      /\ x.tab = v.tab /\ x.active = v.active
      /\ R \cap Held(x) = {} /\ (R \cap Pinned(v) = {} => FreeRows(x, R))
  <2> HIDE DEF R
  <2> QED BY <1>1, <1>3, <1>4, LeavingRows
<1>6. CASE \E t \in R : v.tab[t].pinned
  <2>1. w = v
    BY <1>2, <1>6
  <2> QED BY <2>1 DEF w
<1>7. CASE ~\E t \in R : v.tab[t].pinned
  <2>1. w = Settle(u) /\ FreeRows(x, R)
    BY <1>2, <1>3, <1>5, <1>7 DEF Pinned
  <2> HIDE DEF x
  <2>2. Lists(rec.tabs, R)
    BY <1>3, <1>4
  <2> HIDE DEF R
  <2>3. Listed(u) /\ Paired(u) /\ Filed(u) /\ FoldersHeld(u)
        /\ u.tab = x.tab /\ u.active = x.active
    BY <1>4, <1>5, <2>1, <2>2, AppendingFolder
  <2> HIDE DEF u
  <2>4. LET z == Settle(u) IN Body(z) /\ z.tab = u.tab /\ z.active = u.active
    BY <2>3, SettleSorts
  <2> QED BY <1>1, <1>5, <2>1, <2>3, <2>4 DEF Live, w
<1> QED BY <1>6, <1>7

\* The Folders of F hold what Folders of v held, each what the one h says did.
Refolds(v, F, h) ==
  /\ \A g \in 1 .. Len(F) : /\ h[g] \in DOMAIN v.folders
                            /\ F[g].tabs = v.folders[h[g]].tabs
  /\ \A g, k \in 1 .. Len(F) : h[g] = h[k] => g = k

\* The Folders in another order, or fewer of them.
LEMMA Refolding ==
  ASSUME NEW v, Live(v), NEW F, F \in Seq(FolderRecords), NEW h, Refolds(v, F, h)
  PROVE  LET w == Settle([v EXCEPT !.folders = F])
         IN  Live(w) /\ w.tab = v.tab /\ w.active = v.active
<1> DEFINE u == [v EXCEPT !.folders = F]
           n == Len(F)
           w == Settle(u)
<1>1. /\ Body(v) /\ v.active \in DOMAIN v.tab \cup {None} /\ Described(v) /\ Listed(v)
      /\ Paired(v) /\ Filed(v)
  BY DEF Live, Body, Listed
<1>2. /\ Described(u) /\ u.rows = v.rows /\ u.tab = v.tab /\ u.active = v.active
      /\ u.folders = F
  BY <1>1, WithFolders
<1>3. DOMAIN F = 1 .. n
  OBVIOUS
<1> HIDE DEF u, n, w
<1>4. Listed(u) /\ Paired(u) /\ Pinned(u) = Pinned(v)
  BY <1>1, <1>2 DEF Listed, Paired, WholeSplit, Has, Pinned
<1>5. FirstIn(u.rows, Pinned(u))
  BY <1>1, <1>2, <1>4, SortedPins
<1>6. Filed(u)
  <2>1. \A g \in 1 .. n : h[g] \in DOMAIN v.folders /\ u.folders[g].tabs = v.folders[h[g]].tabs
                          /\ InFolder(u, g) = InFolder(v, h[g])
    BY <1>2 DEF InFolder, n, Refolds
  <2>2. \A g, k \in 1 .. n : k # g => h[k] # h[g]
    BY DEF n, Refolds
  <2>3. DOMAIN u.folders = 1 .. n
    BY <1>2, <1>3
  <2>4. ASSUME NEW g \in 1 .. n
        PROVE  /\ Once(u.folders[g].tabs)
               /\ \A t \in InFolder(u, g) :
                    /\ Has(u, t) /\ ~u.tab[t].pinned
                    /\ u.tab[t].partner # None => u.tab[t].partner \in InFolder(u, g)
    BY <1>1, <1>2, <2>1 DEF Filed, Has
  <2>5. ASSUME NEW g \in 1 .. n, NEW k \in 1 .. n, k # g
        PROVE  InFolder(u, g) \cap InFolder(u, k) = {}
    BY <1>1, <2>1, <2>2, <2>5 DEF Filed
  <2> QED BY <2>3, <2>4, <2>5 DEF Filed
<1>7. LET z == Settle(u) IN Body(z) /\ z.tab = u.tab /\ z.active = u.active
  BY <1>4, <1>5, <1>6, SettleSorts
<1> QED BY <1>1, <1>2, <1>7 DEF Live, u

\* deleteFolder
LEMMA RemoveFolderKeeps ==
  ASSUME NEW v, Live(v), NEW f \in DOMAIN v.folders
  PROVE  LET w == RemoveFolder(v, f)
         IN  Live(w) /\ w.tab = v.tab /\ w.active = v.active
<1> DEFINE s == v.folders
           n == Len(s)
           F == RemoveAt(s, f)
           h == [g \in 1 .. n |-> IF g < f THEN g ELSE g + 1]
<1>1. s \in Seq(FolderRecords)
  BY DEF Live, Body, Listed, Described
<1>2. n \in Nat /\ DOMAIN s = 1 .. n /\ f \in 1 .. n
  BY <1>1
<1>3. F \in Seq(FolderRecords) /\ Len(F) = n - 1
      /\ \A i \in 1 .. n - 1 : F[i] = IF i < f THEN s[i] ELSE s[i + 1]
  BY <1>1, <1>2, Removed
<1> HIDE DEF F, n
<1>4. ASSUME NEW g \in 1 .. Len(F)
      PROVE  h[g] \in 1 .. n /\ F[g].tabs = s[h[g]].tabs /\ h[g] = IF g < f THEN g ELSE g + 1
  <2>1. g \in 1 .. n - 1 /\ g \in 1 .. n
    BY <1>2, <1>3
  <2> QED BY <1>2, <1>3, <2>1
<1>5. ASSUME NEW g \in 1 .. Len(F), NEW k \in 1 .. Len(F), h[g] = h[k] PROVE g = k
  BY <1>2, <1>3, <1>4, <1>5
<1> HIDE DEF h
<1>6. LET w == Settle([v EXCEPT !.folders = F])
      IN  Live(w) /\ w.tab = v.tab /\ w.active = v.active
  <2>1. Refolds(v, F, h)
    BY <1>2, <1>4, <1>5 DEF Refolds
  <2> QED BY <1>3, <2>1, Refolding
<1> QED BY <1>6 DEF RemoveFolder, F

\* moveFolder
LEMMA MoveFolderKeeps ==
  ASSUME NEW v, Live(v), NEW f \in DOMAIN v.folders, NEW place \in 1 .. Len(v.folders)
  PROVE  LET w == MoveFolder(v, f, place)
         IN  Live(w) /\ w.tab = v.tab /\ w.active = v.active
<1> DEFINE s == v.folders
           n == Len(s)
           r == RemoveAt(s, f)
           x == s[f]
           F == InsertAt(r, place, x)
           k(i) == IF i < f THEN i ELSE i + 1
           h == [g \in 1 .. n |-> IF g < place THEN k(g) ELSE IF g = place THEN f ELSE k(g - 1)]
<1>1. s \in Seq(FolderRecords)
  BY DEF Live, Body, Listed, Described
<1>2. n \in Nat /\ DOMAIN s = 1 .. n /\ f \in 1 .. n /\ place \in 1 .. n /\ x \in FolderRecords
  BY <1>1
<1>3. r \in Seq(FolderRecords) /\ Len(r) = n - 1
      /\ \A i \in 1 .. n - 1 : r[i] = IF i < f THEN s[i] ELSE s[i + 1]
  BY <1>1, <1>2, Removed
<1> HIDE DEF r, n, x
<1>4. F \in Seq(FolderRecords) /\ Len(F) = n
      /\ \A i \in 1 .. n : F[i] = IF i < place THEN r[i] ELSE IF i = place THEN x ELSE r[i - 1]
  <2>1. place \in 1 .. Len(r) + 1 /\ Len(r) + 1 = n
    BY <1>2, <1>3
  <2>2. F \in Seq(FolderRecords) /\ Len(F) = Len(r) + 1
        /\ \A i \in 1 .. Len(r) + 1 :
             F[i] = IF i < place THEN r[i] ELSE IF i = place THEN x ELSE r[i - 1]
    <3> DEFINE G == FolderRecords
    <3>1. r \in Seq(G) /\ x \in G /\ place \in 1 .. Len(r) + 1
      BY <1>2, <1>3, <2>1
    <3> HIDE DEF G, h
    <3>2. InsertAt(r, place, x) \in Seq(G) /\ Len(InsertAt(r, place, x)) = Len(r) + 1
      BY ONLY <3>1, Inserted
    <3>3. ASSUME NEW i \in 1 .. Len(r) + 1
          PROVE  InsertAt(r, place, x)[i] =
                   IF i < place THEN r[i] ELSE IF i = place THEN x ELSE r[i - 1]
      BY ONLY <3>1, i \in 1 .. Len(r) + 1, Inserted
    <3> QED BY <3>2, <3>3 DEF G
  <2> QED BY <2>1, <2>2
<1> HIDE DEF F
<1>5. ASSUME NEW g \in 1 .. n
      PROVE  /\ h[g] \in 1 .. n /\ F[g].tabs = s[h[g]].tabs
             /\ h[g] = IF g < place THEN IF g < f THEN g ELSE g + 1
                       ELSE IF g = place THEN f
                       ELSE IF g - 1 < f THEN g - 1 ELSE g
  <2>1. CASE g < place
    BY <1>2, <1>3, <1>4, <2>1
  <2>2. CASE g = place
    BY <1>2, <1>3, <1>4, <2>2 DEF x
  <2>3. CASE g > place
    <3>1. g - 1 \in 1 .. n - 1 /\ ~(g < place) /\ g # place /\ (g - 1) + 1 = g
      BY <1>2, <2>3
    <3>2. F[g] = r[g - 1] /\ r[g - 1] = IF g - 1 < f THEN s[g - 1] ELSE s[g]
      BY <1>3, <1>4, <3>1
    <3>3. h[g] = IF g - 1 < f THEN g - 1 ELSE g
      BY <3>1
    <3>4. h[g] \in 1 .. n
      BY <1>2, <3>1, <3>3
    <3> QED BY <3>1, <3>2, <3>3, <3>4
  <2> QED BY <1>2, <2>1, <2>2, <2>3
<1> HIDE DEF h
<1>6. ASSUME NEW g \in 1 .. n, NEW j \in 1 .. n, h[g] = h[j] PROVE g = j
  BY <1>2, <1>5, <1>6
<1>7. LET w == Settle([v EXCEPT !.folders = F])
      IN  Live(w) /\ w.tab = v.tab /\ w.active = v.active
  <2>1. Refolds(v, F, h)
    BY <1>2, <1>4, <1>5, <1>6 DEF Refolds
  <2> QED BY <1>4, <2>1, Refolding
<1> QED BY <1>7 DEF MoveFolder, F, r, x

\* setFolderCollapsed
LEMMA CollapseKeeps ==
  ASSUME NEW v, Live(v), NEW f \in DOMAIN v.folders, NEW yes \in BOOLEAN
  PROVE  LET w == [v EXCEPT !.folders[f].collapsed = yes]
         IN  Live(w) /\ w.tab = v.tab
<1> DEFINE s == v.folders
           rec == [v.folders[f] EXCEPT !.collapsed = yes]
           F == [s EXCEPT ![f] = rec]
           w == [v EXCEPT !.folders = F]
<1>1. Body(v) /\ Described(v) /\ s \in Seq(FolderRecords) /\ Paired(v)
  BY DEF Live, Body, Listed, Described
<1>2. rec \in FolderRecords /\ rec.tabs = v.folders[f].tabs
  <2>1. v.folders[f] \in FolderRecords
    BY <1>1
  <2> QED BY <2>1 DEF FolderRecords
<1>3. [v EXCEPT !.folders[f].collapsed = yes] = w
  OBVIOUS
<1> HIDE DEF rec
<1>4. /\ F \in Seq(FolderRecords) /\ DOMAIN F = DOMAIN s /\ F[f] = rec
      /\ \A g \in DOMAIN s : g # f => F[g] = s[g]
  BY <1>1, <1>2
<1> HIDE DEF F
<1>5. /\ Described(w) /\ w.rows = v.rows /\ w.tab = v.tab /\ w.active = v.active
      /\ w.folders = F
  BY <1>1, <1>4, WithFolders
<1> HIDE DEF w
<1>6. Marked(v, w) /\ Paired(w)
  BY <1>1, <1>2, <1>4, <1>5 DEF Marked, SameFolders, Paired, WholeSplit, Has
<1>7. Body(w)
  BY <1>1, <1>6, Remarked
<1> QED BY <1>3, <1>5, <1>7 DEF Live

-----------------------------------------------------------------------------
(* Marks, and tabs in windows of their own                                 *)

\* navigateTab, setTabKeepActive and putBackTab mark one tab.
LEMMA MarksKeep ==
  ASSUME NEW v, Live(v), NEW t \in DOMAIN v.tab, NEW yes \in BOOLEAN
  PROVE  LET w == [v EXCEPT !.tab[t].page = yes]
             x == [v EXCEPT !.tab[t].keep = yes]
             y == [v EXCEPT !.tab[t].popped = FALSE]
         IN  /\ Live(w) /\ DOMAIN w.tab = DOMAIN v.tab
             /\ Live(x) /\ DOMAIN x.tab = DOMAIN v.tab
             /\ Live(y) /\ DOMAIN y.tab = DOMAIN v.tab
<1>1. Body(v) /\ Described(v) /\ v.tab[t] \in Records
  BY DEF Live, Body, Listed, Described
<1>2. ASSUME NEW rec \in Records, rec.pinned = v.tab[t].pinned,
             rec.partner = v.tab[t].partner, rec.focused = v.tab[t].focused
      PROVE  LET w == [v EXCEPT !.tab[t] = rec]
             IN  Live(w) /\ DOMAIN w.tab = DOMAIN v.tab
  <2> DEFINE w == [v EXCEPT !.tab[t] = rec]
  <2>1. Body(w) /\ Retabbed(v, w) /\ w.active = v.active
    BY <1>1, <1>2, MarkingOne
  <2> HIDE DEF w
  <2>2. Live(w) /\ DOMAIN w.tab = DOMAIN v.tab
    BY <2>1 DEF Live, Retabbed
  <2> QED BY <2>2 DEF w
<1> DEFINE r1 == [v.tab[t] EXCEPT !.page = yes]
           r2 == [v.tab[t] EXCEPT !.keep = yes]
           r3 == [v.tab[t] EXCEPT !.popped = FALSE]
<1>3. /\ [v EXCEPT !.tab[t].page = yes] = [v EXCEPT !.tab[t] = r1]
      /\ [v EXCEPT !.tab[t].keep = yes] = [v EXCEPT !.tab[t] = r2]
      /\ [v EXCEPT !.tab[t].popped = FALSE] = [v EXCEPT !.tab[t] = r3]
  OBVIOUS
<1>4. /\ r1 \in Records /\ r2 \in Records /\ r3 \in Records
      /\ r1.pinned = v.tab[t].pinned /\ r1.partner = v.tab[t].partner
      /\ r1.focused = v.tab[t].focused
      /\ r2.pinned = v.tab[t].pinned /\ r2.partner = v.tab[t].partner
      /\ r2.focused = v.tab[t].focused
      /\ r3.pinned = v.tab[t].pinned /\ r3.partner = v.tab[t].partner
      /\ r3.focused = v.tab[t].focused
  BY <1>1 DEF Records, TabRecords
<1> HIDE DEF r1, r2, r3
<1> QED BY <1>2, <1>3, <1>4

\* putBackTab, and showing the tab that is back.
LEMMA PutBackKeeps ==
  ASSUME NEW v, Live(v), NEW t \in DOMAIN v.tab
  PROVE  LET w == Show([v EXCEPT !.tab[t].popped = FALSE], t)
         IN  Live(w) /\ DOMAIN w.tab = DOMAIN v.tab
<1> DEFINE y == [v EXCEPT !.tab[t].popped = FALSE]
<1>1. Live(y) /\ DOMAIN y.tab = DOMAIN v.tab
  BY MarksKeep
<1> HIDE DEF y
<1>2. Body(y) /\ t \in DOMAIN y.tab
  BY <1>1 DEF Live
<1>3. LET w == Show(y, t) IN Live(w) /\ Retabbed(y, w)
  BY <1>2, ShowKeeps
<1> QED BY <1>1, <1>3 DEF Retabbed, y

\* What a Space is left on when the tab on show goes: one of its tabs, or b.
LEMMA RestOn ==
  ASSUME NEW v, Live(v), NEW next, next # None => next \in DOMAIN v.tab,
         NEW b \in Id \ DOMAIN v.tab
  PROVE  LET w == IF next = None THEN Show(AppendTab(v, b, NewTab(FALSE)), b) ELSE Show(v, next)
         IN  /\ Live(w) /\ DOMAIN w.tab \subseteq DOMAIN v.tab \cup {b} /\ Restable(w, b)
             /\ w.folders = v.folders
<1> DEFINE rec == NewTab(FALSE)
           w == IF next = None THEN Show(AppendTab(v, b, NewTab(FALSE)), b) ELSE Show(v, next)
<1>1. Body(v)
  BY DEF Live
<1>2. CASE next = None
  <2> DEFINE a == AppendTab(v, b, rec)
  <2>1. rec \in Records /\ rec.partner = None /\ ~rec.pinned
    BY NewTabs
  <2>2. w = Show(a, b)
    BY <1>2
  <2> HIDE DEF rec, w
  <2>3. Body(a) /\ DOMAIN a.tab = DOMAIN v.tab \cup {b} /\ a.folders = v.folders
    BY <1>1, <2>1, Appending
  <2> HIDE DEF a
  <2>4. b \in DOMAIN a.tab
    BY <2>3
  <2>5. Live(w) /\ Retabbed(a, w) /\ w.active = b
    BY <2>2, <2>3, <2>4, ShowKeeps
  <2> QED BY <2>3, <2>5 DEF Retabbed, Restable, w
<1>3. CASE next # None
  <2>1. w = Show(v, next) /\ next \in DOMAIN v.tab
    BY <1>3
  <2> HIDE DEF w
  <2>2. Live(w) /\ Retabbed(v, w)
    BY <1>1, <2>1, ShowKeeps
  <2> QED BY <2>2 DEF Retabbed, Restable, w
<1> QED BY <1>2, <1>3

\* closeFolder
LEMMA CloseFolderKeeps ==
  ASSUME NEW v, Live(v), NEW f \in DOMAIN v.folders, NEW b \in Id \ DOMAIN v.tab
  PROVE  LET w == CloseFolder(v, f, b)
         IN  Live(w) /\ DOMAIN w.tab \subseteq DOMAIN v.tab \cup {b}
<1> DEFINE ts == v.folders[f].tabs
           T == ToSet(ts)
           next == AfterLeaving(v, T)
           off == IF v.active \notin T THEN v
                  ELSE IF next = None THEN Show(AppendTab(v, b, NewTab(FALSE)), b)
                  ELSE Show(v, next)
           x == RemoveFolder(off, f)
<1>1. Listed(v) /\ Described(v) /\ Filed(v)
  BY DEF Live, Body, Listed
<1>2. ts \in Seq(Tab) /\ T \subseteq DOMAIN v.tab
  BY <1>1, FolderTabs DEF Filed, InFolder, Has
<1>3. ts \in Seq(T)
  BY <1>2, Members
<1>4. CloseFolder(v, f, b) = CloseAll(x, ts, b)
  BY DEF CloseFolder
<1> HIDE DEF T, ts
<1>5. next # None => next \in DOMAIN v.tab
  BY <1>1, AfterLeavingIs
<1> HIDE DEF next
<1>6. /\ Live(off) /\ DOMAIN off.tab \subseteq DOMAIN v.tab \cup {b} /\ Restable(off, b)
      /\ off.folders = v.folders
  <2>1. CASE v.active \notin T
    BY <2>1 DEF Restable
  <2>2. CASE v.active \in T
    <3> DEFINE w == IF next = None THEN Show(AppendTab(v, b, NewTab(FALSE)), b)
                    ELSE Show(v, next)
    <3>1. /\ Live(w) /\ DOMAIN w.tab \subseteq DOMAIN v.tab \cup {b} /\ Restable(w, b)
          /\ w.folders = v.folders
      BY <1>5, RestOn
    <3>2. off = w
      BY <2>2
    <3> HIDE DEF w, off
    <3> QED BY <3>1, <3>2
  <2> QED BY <2>1, <2>2
<1> HIDE DEF off
<1>7. Live(x) /\ x.tab = off.tab /\ x.active = off.active
  BY <1>6, RemoveFolderKeeps
<1> HIDE DEF x
<1>8. Restable(x, b) /\ b \notin T /\ b \in Id
  BY <1>2, <1>6, <1>7 DEF Restable
<1>9. LET w == CloseAll(x, ts, b)
      IN  Live(w) /\ DOMAIN w.tab \subseteq DOMAIN x.tab \cup {b}
  BY <1>3, <1>7, <1>8, CloseAllKeeps
<1> QED BY <1>4, <1>6, <1>7, <1>9

\* popOutTab
LEMMA PopOutKeeps ==
  ASSUME NEW v, Live(v), NEW t \in DOMAIN v.tab, NEW b \in Id \ DOMAIN v.tab
  PROVE  LET w == PopOut(v, t, b)
         IN  Live(w) /\ DOMAIN w.tab \subseteq DOMAIN v.tab \cup {b}
<1> DEFINE next == IF FoldersHeld(v) /\ v.tab[t].partner = None THEN AfterLeaving(v, {t})
                   ELSE Successor(v, t)
           u == Unpair(v, t)
           rec == [u.tab[t] EXCEPT !.popped = TRUE]
           out == [u EXCEPT !.tab[t] = rec]
           rest == IF next = None THEN Show(AppendTab(out, b, NewTab(FALSE)), b)
                   ELSE Show(out, next)
           w == PopOut(v, t, b)
<1>1. Body(v) /\ Listed(v) /\ v.active \in DOMAIN v.tab \cup {None}
  BY DEF Live, Body
<1>2. next # None => next \in DOMAIN v.tab
  <2> DEFINE T == {t}
  <2> HIDE DEF T
  <2>1. AfterLeaving(v, T) # None => AfterLeaving(v, T) \in DOMAIN v.tab
    BY <1>1, AfterLeavingIs
  <2>2. Successor(v, t) # None => Successor(v, t) \in DOMAIN v.tab
    BY <1>1, SuccessorIs
  <2> QED BY <2>1, <2>2 DEF T
<1>3. w = IF t # v.active THEN out ELSE rest
  <2>1. [Unpair(v, t) EXCEPT !.tab[t].popped = TRUE] = out
    OBVIOUS
  <2> HIDE DEF u
  <2> QED BY <2>1 DEF PopOut
<1> HIDE DEF next, w
<1>4. Body(u) /\ Retabbed(v, u) /\ u.tab[t].partner = None /\ u.active = v.active
  BY <1>1, UnpairKeeps
<1> HIDE DEF u
<1>5. t \in DOMAIN u.tab /\ DOMAIN u.tab = DOMAIN v.tab /\ u.tab[t] \in Records
  BY <1>4 DEF Retabbed, Body, Listed, Described
<1>6. /\ rec \in Records /\ rec.pinned = u.tab[t].pinned /\ rec.partner = u.tab[t].partner
      /\ rec.focused = u.tab[t].focused
  BY <1>4, <1>5 DEF Records, TabRecords
<1> HIDE DEF rec
<1>7. Body(out) /\ Retabbed(u, out) /\ out.active = u.active
  BY <1>4, <1>5, <1>6, MarkingOne
<1> HIDE DEF out
<1>8. DOMAIN out.tab = DOMAIN v.tab /\ Live(out)
  BY <1>1, <1>4, <1>5, <1>7 DEF Retabbed, Live
<1>9. CASE t # v.active
  BY <1>3, <1>8, <1>9 DEF w
<1>10. CASE t = v.active
  <2>1. (next # None => next \in DOMAIN out.tab) /\ b \in Id \ DOMAIN out.tab
    BY <1>2, <1>8
  <2>2. Live(rest) /\ DOMAIN rest.tab \subseteq DOMAIN out.tab \cup {b}
    BY <1>8, <2>1, RestOn
  <2>3. w = rest
    BY <1>3, <1>10
  <2> HIDE DEF rest
  <2> QED BY <1>8, <2>2, <2>3 DEF w
<1> QED BY <1>9, <1>10

-----------------------------------------------------------------------------
(* Spaces that are not on show                                             *)

\* A Space in the store: its rows list its tabs, and one of them is active.
Parked(v) == Listed(v) /\ v.active \in DOMAIN v.tab \cup {None}

\* Other records of the same tabs.
LEMMA Remaking ==
  ASSUME NEW v, Listed(v), NEW r, r \in [DOMAIN v.tab -> Records]
  PROVE  LET w == [v EXCEPT !.tab = r]
         IN  /\ Listed(w) /\ w.rows = v.rows /\ w.tab = r /\ w.active = v.active
             /\ w.folders = v.folders /\ w.closed = v.closed /\ w.away = v.away
<1> DEFINE w == [v EXCEPT !.tab = r]
<1>1. DOMAIN r = DOMAIN v.tab /\ r \in [DOMAIN r -> Records] /\ DOMAIN r \subseteq Id /\ Described(v)
  BY DEF Listed, Described
<1>2. /\ Described(w) /\ w.rows = v.rows /\ w.tab = r /\ w.active = v.active
      /\ w.folders = v.folders /\ w.closed = v.closed /\ w.away = v.away
  BY <1>1, WithTab
<1> QED BY <1>1, <1>2 DEF Listed

\* One of them.
LEMMA RemakingOne ==
  ASSUME NEW v, Listed(v), NEW t \in DOMAIN v.tab, NEW rec \in Records
  PROVE  LET w == [v EXCEPT !.tab[t] = rec]
         IN  /\ Listed(w) /\ DOMAIN w.tab = DOMAIN v.tab /\ w.rows = v.rows
             /\ w.active = v.active /\ w.folders = v.folders
<1> DEFINE r == [v.tab EXCEPT ![t] = rec]
           w == [v EXCEPT !.tab = r]
<1>1. v.tab \in [DOMAIN v.tab -> Records]
  BY DEF Listed, Described
<1>2. r \in [DOMAIN v.tab -> Records]
  BY <1>1
<1>3. [v EXCEPT !.tab[t] = rec] = w
  OBVIOUS
<1> HIDE DEF r
<1>4. /\ Listed(w) /\ w.rows = v.rows /\ w.tab = r /\ w.active = v.active
      /\ w.folders = v.folders
  BY <1>2, Remaking
<1> QED BY <1>2, <1>3, <1>4

\* saveTabs: the pins come first.
LEMMA StoredKeeps ==
  ASSUME NEW v, Listed(v)
  PROVE  LET w == Stored(v)
         IN  /\ Listed(w) /\ w.tab = v.tab /\ w.active = v.active /\ w.folders = v.folders
             /\ w.closed = v.closed /\ w.away = v.away
<1> DEFINE P == Pinned(v)
           D == DOMAIN v.tab
           U == D \ P
           a == Pins(v)
           b == Unpinned(v)
           r == a \o b
           w == [v EXCEPT !.rows = r]
<1>1. Described(v) /\ Lists(v.rows, D) /\ P \subseteq D
  BY DEF Listed, Pinned
<1>2. Lists(a, D \cap P) /\ Lists(b, U)
  BY <1>1, PartLists DEF Pins, Unpinned
<1>3. D \cap P = P /\ P \cap U = {} /\ P \cup U = D
  BY <1>1
<1> HIDE DEF a, b, P, U, D
<1>4. Lists(r, P \cup U)
  BY <1>2, <1>3, ConcatLists
<1> HIDE DEF r
<1>5. /\ Described(w) /\ w.rows = r /\ w.tab = v.tab /\ w.active = v.active
      /\ w.folders = v.folders /\ w.closed = v.closed /\ w.away = v.away
  BY <1>1, WithRows
<1>6. Listed(w)
  BY <1>3, <1>4, <1>5 DEF Listed, D
<1> QED BY <1>5, <1>6 DEF Stored, r, a, b

\* A tab is opened at the end of a Space in the store.
LEMMA OpeningThere ==
  ASSUME NEW v, Listed(v), NEW t \in Id \ DOMAIN v.tab, NEW rec \in Records
  PROVE  LET w == AppendTab(v, t, rec)
             x == [w EXCEPT !.active = t]
         IN  /\ Listed(w) /\ DOMAIN w.tab = DOMAIN v.tab \cup {t} /\ w.tab[t] = rec
             /\ \A u \in DOMAIN v.tab : w.tab[u] = v.tab[u]
             /\ w.active = v.active /\ w.folders = v.folders
             /\ Listed(x) /\ x.tab = w.tab /\ x.rows = w.rows /\ x.active = t
             /\ x.folders = v.folders
             /\ w.rows # <<>>
<1> DEFINE w == AppendTab(v, t, rec)
           row == Len(v.rows) + 1
           x == [w EXCEPT !.active = t]
<1>1. row \in 1 .. Len(v.rows) + 1
  BY RowIs
<1>2. w = Insert(v, t, rec, row)
  BY DEF AppendTab
<1> HIDE DEF row, w
<1>3. /\ Listed(w) /\ DOMAIN w.tab = DOMAIN v.tab \cup {t} /\ w.tab[t] = rec
      /\ \A u \in DOMAIN v.tab : w.tab[u] = v.tab[u]
      /\ w.active = v.active /\ w.folders = v.folders
  BY <1>1, <1>2, Inserting
<1>4. /\ Described(x) /\ x.rows = w.rows /\ x.tab = w.tab /\ x.active = t
      /\ x.folders = w.folders
  BY <1>3, WithActive DEF Listed
<1>5. Listed(x)
  BY <1>3, <1>4 DEF Listed
<1>6. w.rows # <<>>
  <2>1. Row(w, t) \in 1 .. Len(w.rows)
    BY <1>3, RowIs
  <2> QED BY <2>1
<1> QED BY <1>3, <1>4, <1>5, <1>6 DEF w

\* saveAwayTabs
LEMMA SaveAwayKeeps ==
  ASSUME NEW v, Listed(v), NEW b \in Id
  PROVE  LET w == SaveAway(v, b)
         IN  /\ Parked(w) /\ DOMAIN w.tab \subseteq DOMAIN v.tab \cup {b}
             /\ w.folders = v.folders
             /\ b \notin DOMAIN w.tab \/ v.rows # <<>> => w.tab = v.tab
<1> DEFINE rec == NewTab(FALSE)
           w == SaveAway(v, b)
           a == IF Has(v, v.active) THEN v.active ELSE v.rows[1]
           x == [v EXCEPT !.active = a]
<1>1. rec \in Records
  BY NewTabs
<1>2. CASE v.rows = <<>>
  <2>0. b \in Id \ DOMAIN v.tab
    BY <1>2, RowIs
  <2>1. w = [AppendTab(v, b, rec) EXCEPT !.active = b]
    BY <1>2 DEF SaveAway, OpenTab
  <2> HIDE DEF rec, w
  <2>2. /\ Listed(w) /\ DOMAIN w.tab = DOMAIN v.tab \cup {b} /\ w.active = b
        /\ w.folders = v.folders
    BY <1>1, <2>0, <2>1, OpeningThere
  <2> QED BY <1>2, <2>0, <2>2 DEF Parked, w
<1>3. CASE v.rows # <<>>
  <2>1. a \in DOMAIN v.tab
    <3>1. 1 \in 1 .. Len(v.rows)
      BY <1>3 DEF Listed, Lists
    <3>2. v.rows[1] \in DOMAIN v.tab
      BY <3>1, RowIs
    <3> QED BY <3>2 DEF Has
  <2>2. w = Stored(x)
    BY <1>3 DEF SaveAway
  <2> HIDE DEF a, w
  <2>3. /\ Described(x) /\ x.rows = v.rows /\ x.tab = v.tab /\ x.active = a
        /\ x.folders = v.folders
    BY WithActive DEF Listed
  <2> HIDE DEF x
  <2>4. Listed(x)
    BY <2>3 DEF Listed
  <2>5. Listed(w) /\ w.tab = x.tab /\ w.active = x.active /\ w.folders = x.folders
    BY <2>2, <2>4, StoredKeeps
  <2> QED BY <2>1, <2>3, <2>5 DEF Parked, w
<1> QED BY <1>2, <1>3

\* unpairTab and setActiveTab, for a Space in the store.
LEMMA MarkingThere ==
  ASSUME NEW v, Listed(v), NEW t
  PROVE  LET u == Unpair(v, t)
             s == Show(v, t)
         IN  /\ Listed(u) /\ DOMAIN u.tab = DOMAIN v.tab /\ u.rows = v.rows
             /\ u.active = v.active /\ u.folders = v.folders
             /\ v.tab[t].partner # None => u.tab = [x \in DOMAIN v.tab |->
                  IF x \in {t, v.tab[t].partner}
                  THEN [v.tab[x] EXCEPT !.partner = None, !.focused = FALSE] ELSE v.tab[x]]
             /\ v.tab[t].partner = None => u.tab = v.tab
             /\ Listed(s) /\ DOMAIN s.tab = DOMAIN v.tab /\ s.rows = v.rows
             /\ s.active = t /\ s.folders = v.folders
<1> DEFINE p == v.tab[t].partner
           r == [x \in DOMAIN v.tab |->
                   IF p # None /\ x \in {t, p}
                   THEN [v.tab[x] EXCEPT !.partner = None, !.focused = FALSE] ELSE v.tab[x]]
           q == [x \in DOMAIN v.tab |->
                   IF p # None /\ x \in {t, p} THEN [v.tab[x] EXCEPT !.focused = x = t]
                                               ELSE v.tab[x]]
           u == [v EXCEPT !.tab = r]
           a == [v EXCEPT !.active = t]
           s == [a EXCEPT !.tab = q]
<1>1. v.tab \in [DOMAIN v.tab -> Records] /\ Described(v)
  BY DEF Listed, Described
<1>2. ASSUME NEW x \in DOMAIN v.tab
      PROVE  r[x] \in Records /\ q[x] \in Records
  <2>1. v.tab[x] \in Records
    BY <1>1
  <2> QED BY <2>1 DEF Records, TabRecords
<1>3. r \in [DOMAIN v.tab -> Records] /\ q \in [DOMAIN v.tab -> Records]
  BY <1>2
<1>4. Unpair(v, t) = u
  BY DEF Unpair
<1>5. Show(v, t) = s
  BY <1>1 DEF Show, Described
<1>6. (p = None => r = v.tab) /\ DOMAIN r = DOMAIN v.tab /\ DOMAIN q = DOMAIN v.tab
  BY <1>1
<1>7. p # None => r = [x \in DOMAIN v.tab |->
                         IF x \in {t, p} THEN [v.tab[x] EXCEPT !.partner = None, !.focused = FALSE]
                         ELSE v.tab[x]]
  OBVIOUS
<1> HIDE DEF r, q
<1>8. /\ Listed(u) /\ u.tab = r /\ u.rows = v.rows /\ u.active = v.active
      /\ u.folders = v.folders
  BY <1>3, Remaking
<1>9. /\ Described(a) /\ a.rows = v.rows /\ a.tab = v.tab /\ a.active = t
      /\ a.folders = v.folders
  BY <1>1, WithActive
<1> HIDE DEF a
<1>10. Listed(a) /\ q \in [DOMAIN a.tab -> Records]
  BY <1>3, <1>9 DEF Listed
<1>11. /\ Listed(s) /\ s.tab = q /\ s.rows = a.rows /\ s.active = a.active
       /\ s.folders = a.folders
  BY <1>10, Remaking
<1> HIDE DEF u, s
<1> QED BY <1>4, <1>5, <1>6, <1>7, <1>8, <1>9, <1>11

-----------------------------------------------------------------------------
(* Coming on show                                                          *)

\* What repairSplits reads as a split.
Split2(v, t) ==
  LET p == v.tab[t].partner
  IN  /\ p # None /\ p # t /\ Has(v, p)
      /\ v.tab[p].partner = t
      /\ ~v.tab[t].pinned /\ ~v.tab[p].pinned

\* The half that stands first.
LeftHalf(v, t) == Row(v, t) < Row(v, v.tab[t].partner)

\* What stands where t stood.
Stands(v, t) ==
  IF ~Split2(v, t) THEN <<t>>
  ELSE IF LeftHalf(v, t) THEN <<t, v.tab[t].partner>> ELSE <<>>

\* Which half is entered.
Focus(v, t) ==
  LET p == v.tab[t].partner
  IN  IF v.active \in {t, p} THEN t = v.active
      ELSE IF v.tab[t].focused = v.tab[p].focused THEN LeftHalf(v, t)
      ELSE v.tab[t].focused

\* A tab without an id is in no split.
NoneAlone(v) == None \in DOMAIN v.tab => v.tab[None].partner = None

\* The halves of a split name each other, and one of them stands first.
LEMMA HalvesOf ==
  ASSUME NEW v, Listed(v), NoneAlone(v), NEW t \in DOMAIN v.tab, Split2(v, t)
  PROVE  LET p == v.tab[t].partner
         IN  /\ p \in DOMAIN v.tab /\ p # t /\ p # None /\ t # None /\ v.tab[p].partner = t
             /\ Split2(v, p) /\ (LeftHalf(v, t) <=> ~LeftHalf(v, p))
<1> DEFINE p == v.tab[t].partner
           a == Row(v, t)
           c == Row(v, p)
<1>1. /\ p # None /\ p # t /\ p \in DOMAIN v.tab /\ v.tab[p].partner = t
      /\ ~v.tab[t].pinned /\ ~v.tab[p].pinned
  BY DEF Split2, Has
<1>2. t # None
  BY <1>1 DEF NoneAlone
<1>3. Split2(v, p)
  BY <1>1, <1>2 DEF Split2, Has
<1>4. a \in Nat /\ c \in Nat /\ a # c
  <2>1. /\ a \in 1 .. Len(v.rows) /\ v.rows[a] = t
        /\ c \in 1 .. Len(v.rows) /\ v.rows[c] = p
    BY <1>1, RowIs
  <2> HIDE DEF a, c
  <2> QED BY <1>1, <2>1
<1>5. (LeftHalf(v, t) <=> a < c) /\ (LeftHalf(v, p) <=> c < a)
  BY <1>1 DEF LeftHalf
<1>6. LeftHalf(v, t) <=> ~LeftHalf(v, p)
  <2> HIDE DEF a, c, p
  <2> QED BY <1>4, <1>5
<1> QED BY <1>1, <1>2, <1>3, <1>6

\* What stands for a tab.
LEMMA StandsIs ==
  ASSUME NEW v, Listed(v), NoneAlone(v), NEW t \in DOMAIN v.tab
  PROVE  LET s == Stands(v, t)
         IN  /\ s \in Seq(DOMAIN v.tab) /\ Once(s)
             /\ ToSet(s) = IF ~Split2(v, t) THEN {t}
                           ELSE IF LeftHalf(v, t) THEN {t, v.tab[t].partner} ELSE {}
<1> DEFINE p == v.tab[t].partner
           s == Stands(v, t)
<1>1. CASE ~Split2(v, t)
  <2> DEFINE y == <<t>>
             T == {t}
  <2>1. s = y /\ Lists(y, T) /\ T \subseteq DOMAIN v.tab
    BY <1>1, SmallLists DEF Stands
  <2> HIDE DEF y, T, s
  <2>2. s \in Seq(DOMAIN v.tab) /\ Once(s) /\ ToSet(s) = T
    BY <2>1, ListsIn DEF Lists
  <2> QED BY <1>1, <2>2 DEF T, s
<1>2. CASE Split2(v, t) /\ LeftHalf(v, t)
  <2> DEFINE D == DOMAIN v.tab
             y == <<t, p>>
  <2>1. p \in D /\ p # t /\ t \in D
    BY <1>2, HalvesOf
  <2> HIDE DEF p, D
  <2>2. /\ <<t, p>> \in Seq(D) /\ Len(<<t, p>>) = 2
        /\ <<t, p>>[1] = t /\ <<t, p>>[2] = p
    BY <2>1
  <2>3. y \in Seq(D) /\ Len(y) = 2 /\ y[1] = t /\ y[2] = p
    BY <2>2
  <2>4. s = y
    BY <1>2 DEF Stands, p
  <2> HIDE DEF y, s
  <2>5. \A i \in 1 .. Len(y) : i = 1 \/ i = 2
    BY <2>3
  <2>6. Once(y)
    BY <2>1, <2>3, <2>5 DEF Once
  <2>7. ToSet(y) = {t, p}
    <3>1. \A x : x \in ToSet(y) <=> \E i \in 1 .. Len(y) : y[i] = x
      BY <2>3, Members
    <3>2. 1 \in 1 .. Len(y) /\ 2 \in 1 .. Len(y)
      BY <2>3
    <3> QED BY <2>3, <2>5, <3>1, <3>2
  <2> QED BY <1>2, <2>3, <2>4, <2>6, <2>7 DEF p, s, D
<1>3. CASE Split2(v, t) /\ ~LeftHalf(v, t)
  <2>1. s = <<>> /\ Lists(<<>>, {})
    BY <1>3, SmallLists DEF Stands
  <2> QED BY <1>3, <2>1 DEF Lists
<1> QED BY <1>1, <1>2, <1>3

\* The rows repairSplits makes list the same tabs.
LEMMA RepairedRows ==
  ASSUME NEW v, Listed(v), NoneAlone(v)
  PROVE  Lists(FlattenSeq([r \in DOMAIN v.rows |-> Stands(v, v.rows[r])]), DOMAIN v.tab)
<1> DEFINE D == DOMAIN v.tab
           n == Len(v.rows)
           ss == [r \in DOMAIN v.rows |-> Stands(v, v.rows[r])]
           U == UNION {ToSet(ss[i]) : i \in DOMAIN ss}
<1>1. /\ n \in Nat /\ DOMAIN v.rows = 1 .. n
      /\ \A i \in 1 .. n : v.rows[i] \in D
      /\ \A i, j \in 1 .. n : v.rows[i] = v.rows[j] => i = j
      /\ \A t \in D : \E i \in 1 .. n : v.rows[i] = t
  <2>1. n \in Nat /\ DOMAIN v.rows = 1 .. n
    BY DEF Listed, Lists
  <2>2. ASSUME NEW t \in D PROVE \E i \in 1 .. n : v.rows[i] = t
    <3>1. Row(v, t) \in 1 .. n /\ v.rows[Row(v, t)] = t
      BY RowIs
    <3> QED BY <3>1
  <2>3. /\ \A i \in 1 .. n : v.rows[i] \in D
        /\ \A i, j \in 1 .. n : v.rows[i] = v.rows[j] => i = j
    BY RowIs
  <2> QED BY <2>1, <2>2, <2>3
<1>2. DOMAIN ss = 1 .. n /\ \A i \in 1 .. n : ss[i] = Stands(v, v.rows[i])
  BY <1>1
<1> HIDE DEF ss, n
<1>3. ASSUME NEW i \in 1 .. n
      PROVE  /\ ss[i] \in Seq(D) /\ Once(ss[i])
             /\ ToSet(ss[i]) = IF ~Split2(v, v.rows[i]) THEN {v.rows[i]}
                               ELSE IF LeftHalf(v, v.rows[i])
                               THEN {v.rows[i], v.tab[v.rows[i]].partner} ELSE {}
  <2> DEFINE t == v.rows[i]
  <2>1. t \in DOMAIN v.tab /\ ss[i] = Stands(v, t)
    BY <1>1, <1>2
  <2> HIDE DEF t
  <2>2. /\ Stands(v, t) \in Seq(DOMAIN v.tab) /\ Once(Stands(v, t))
        /\ ToSet(Stands(v, t)) = IF ~Split2(v, t) THEN {t}
                           ELSE IF LeftHalf(v, t) THEN {t, v.tab[t].partner} ELSE {}
    BY <2>1, StandsIs
  <2> QED BY <2>1, <2>2 DEF t
<1>4. ASSUME NEW i \in 1 .. n, NEW j \in 1 .. n, i # j
      PROVE  ToSet(ss[i]) \cap ToSet(ss[j]) = {}
  <2> DEFINE t == v.rows[i]
             u == v.rows[j]
             p == v.tab[t].partner
             q == v.tab[u].partner
  <2>1. t # u /\ t \in D /\ u \in D
    BY <1>1, <1>4
  <2>2. /\ Split2(v, t) => p # t /\ v.tab[p].partner = t /\ Split2(v, p)
                           /\ (LeftHalf(v, t) <=> ~LeftHalf(v, p))
        /\ Split2(v, u) => q # u /\ v.tab[q].partner = u /\ Split2(v, q)
                           /\ (LeftHalf(v, u) <=> ~LeftHalf(v, q))
    BY <2>1, HalvesOf
  <2>3. /\ ToSet(ss[i]) = IF ~Split2(v, t) THEN {t} ELSE IF LeftHalf(v, t) THEN {t, p} ELSE {}
        /\ ToSet(ss[j]) = IF ~Split2(v, u) THEN {u} ELSE IF LeftHalf(v, u) THEN {u, q} ELSE {}
    BY <1>3
  <2>4. ASSUME NEW x \in ToSet(ss[i]), x \in ToSet(ss[j]) PROVE FALSE
    <3> HIDE DEF p, q, t, u
    <3>1. CASE x = t /\ x = q /\ Split2(v, u) /\ LeftHalf(v, u)
      BY <2>1, <2>2, <2>3, <2>4, <3>1 DEF p
    <3>2. CASE x = p /\ x = u /\ Split2(v, t) /\ LeftHalf(v, t)
      BY <2>1, <2>2, <2>3, <2>4, <3>2 DEF q
    <3>3. CASE x = p /\ x = q /\ Split2(v, t) /\ Split2(v, u)
      BY <2>1, <2>2, <3>3
    <3> QED BY <2>1, <2>3, <2>4, <3>1, <3>2, <3>3
  <2> QED BY <2>4
<1>5. ASSUME NEW t \in D
      PROVE  \E i \in 1 .. n : t \in ToSet(ss[i])
  <2> DEFINE p == v.tab[t].partner
  <2>1. PICK i \in 1 .. n : v.rows[i] = t
    BY <1>1
  <2>2. CASE ~Split2(v, t) \/ LeftHalf(v, t)
    BY <1>3, <2>1, <2>2
  <2>3. CASE Split2(v, t) /\ ~LeftHalf(v, t)
    <3>1. p \in D /\ v.tab[p].partner = t /\ Split2(v, p) /\ LeftHalf(v, p)
      BY <2>3, HalvesOf
    <3>2. PICK j \in 1 .. n : v.rows[j] = p
      BY <1>1, <3>1
    <3> HIDE DEF p
    <3>3. ToSet(ss[j]) = {p, v.tab[p].partner}
      BY <1>3, <3>1, <3>2
    <3> QED BY <3>1, <3>3
  <2> QED BY <2>2, <2>3
<1>6. ss \in Seq(Seq(D))
  <2>1. n \in Nat
    BY <1>1
  <2>2. ss = [i \in 1 .. n |-> ss[i]]
    BY <1>2 DEF ss
  <2>3. ss \in [1 .. n -> Seq(D)]
    BY <1>3, <2>2
  <2> HIDE DEF D
  <2> QED BY <2>1, <2>3
<1>7. U = D
  <2>1. U \subseteq D
    <3> SUFFICES ASSUME NEW i \in 1 .. n, NEW x \in ToSet(ss[i]) PROVE x \in D
      BY <1>2
    <3>1. ss[i] \in Seq(D)
      BY <1>3
    <3> QED BY <3>1, Members
  <2>2. D \subseteq U
    BY <1>2, <1>5
  <2> QED BY <2>1, <2>2
<1> HIDE DEF D
<1>8. Lists(FlattenSeq(ss), U)
  BY <1>2, <1>3, <1>4, <1>6, FlattenLists
<1> QED BY <1>7, <1>8 DEF ss, D

\* repairSplits: every split is whole, and the rows list the same tabs.
LEMMA RepairKeeps ==
  ASSUME NEW v, Listed(v), NoneAlone(v)
  PROVE  LET w == RepairSplits(v)
         IN  /\ Listed(w) /\ Paired(w) /\ DOMAIN w.tab = DOMAIN v.tab
             /\ w.active = v.active /\ w.folders = v.folders
<1> DEFINE D == DOMAIN v.tab
           rows == FlattenSeq([r \in DOMAIN v.rows |-> Stands(v, v.rows[r])])
           q == [t \in D |-> IF Split2(v, t) THEN [v.tab[t] EXCEPT !.focused = Focus(v, t)]
                             ELSE [v.tab[t] EXCEPT !.partner = None, !.focused = FALSE]]
           x == [v EXCEPT !.rows = rows]
           w == [x EXCEPT !.tab = q]
<1>1. Described(v) /\ v.tab \in [D -> Records]
  BY DEF Listed, Described
<1>2. RepairSplits(v) = w
  BY <1>1 DEF RepairSplits, Described, Stands, Split2, LeftHalf, Focus
<1>3. Lists(rows, D)
  BY RepairedRows
<1>4. ASSUME NEW t \in D
      PROVE  /\ q[t] \in Records /\ q[t].pinned = v.tab[t].pinned
             /\ q[t].partner = IF Split2(v, t) THEN v.tab[t].partner ELSE None
             /\ Split2(v, t) => q[t].focused = Focus(v, t)
  <2>1. v.tab[t] \in Records
    BY <1>1
  <2>2. Split2(v, t) => Focus(v, t) \in BOOLEAN
    <3> SUFFICES ASSUME Split2(v, t) PROVE Focus(v, t) \in BOOLEAN
      OBVIOUS
    <3>1. v.tab[t].focused \in BOOLEAN
      BY <2>1 DEF Records, TabRecords
    <3>2. LeftHalf(v, t) \in BOOLEAN
      BY DEF LeftHalf
    <3> QED BY <3>1, <3>2 DEF Focus
  <2> QED BY <2>1, <2>2 DEF Records, TabRecords
<1>5. q \in [D -> Records]
  BY <1>4
<1> HIDE DEF rows, q, D
<1>6. /\ Described(x) /\ x.rows = rows /\ x.tab = v.tab /\ x.active = v.active
      /\ x.folders = v.folders
  BY <1>1, WithRows
<1> HIDE DEF x
<1>7. Listed(x)
  BY <1>3, <1>6 DEF Listed, D
<1>8. /\ Listed(w) /\ w.tab = q /\ w.active = v.active /\ w.folders = v.folders
  BY <1>5, <1>6, <1>7, Remaking DEF D
<1> HIDE DEF w
<1>9. DOMAIN w.tab = D
  BY <1>5, <1>8
<1>10. Paired(w)
  <2> SUFFICES ASSUME NEW t \in D, w.tab[t].partner # None PROVE WholeSplit(w, t)
    BY <1>9 DEF Paired, WholeSplit
  <2> DEFINE p == v.tab[t].partner
  <2>1. Split2(v, t) /\ w.tab[t].partner = p
    BY <1>4, <1>8
  <2>2. /\ p \in D /\ p # t /\ p # None /\ t # None /\ v.tab[p].partner = t
        /\ Split2(v, p) /\ (LeftHalf(v, t) <=> ~LeftHalf(v, p))
    BY <2>1, HalvesOf DEF D
  <2>3. ~v.tab[t].pinned
    BY <2>1 DEF Split2
  <2>4. Focus(v, t) # Focus(v, p)
    <3>1. v.tab[t].focused \in BOOLEAN /\ v.tab[p].focused \in BOOLEAN
      <4>1. v.tab[t] \in Records /\ v.tab[p] \in Records
        BY <1>1, <2>2
      <4> QED BY <4>1 DEF Records, TabRecords
    <3>2. /\ Focus(v, t) = IF v.active \in {t, p} THEN t = v.active
                           ELSE IF v.tab[t].focused = v.tab[p].focused THEN LeftHalf(v, t)
                           ELSE v.tab[t].focused
          /\ Focus(v, p) = IF v.active \in {t, p} THEN p = v.active
                           ELSE IF v.tab[t].focused = v.tab[p].focused THEN LeftHalf(v, p)
                           ELSE v.tab[p].focused
      BY <2>2 DEF Focus
    <3> QED BY <2>2, <3>1, <3>2
  <2>5. w.tab[t].focused # w.tab[p].focused /\ w.tab[p].partner = t
    BY <1>4, <1>8, <2>1, <2>2, <2>4
  <2>6. ~w.tab[t].pinned
    BY <1>4, <1>8, <2>3
  <2> QED BY <1>9, <2>1, <2>2, <2>5, <2>6 DEF WholeSplit, Has
<1> QED BY <1>2, <1>8, <1>9, <1>10 DEF w, D

\* What Folders hold together.
HeldBy(F) == UNION {ToSet(F[g].tabs) : g \in DOMAIN F}

\* Folder f as arrangeTabsInFolders takes it, after the Folders of F.
Keeping(v, F, f) ==
  Append(F, [v.folders[f] EXCEPT !.tabs = KeptIn(v, HeldBy(F), v.folders[f].tabs)])

\* A Folder takes rows that are in none before it.
LEMMA KeepingFiled ==
  ASSUME NEW v, Listed(v), Paired(v), NEW f \in DOMAIN v.folders,
         NEW F, F \in Seq(FolderRecords), Filed([v EXCEPT !.folders = F])
  PROVE  /\ Keeping(v, F, f) \in Seq(FolderRecords)
         /\ Filed([v EXCEPT !.folders = Keeping(v, F, f)])
<1> DEFINE x == [v EXCEPT !.folders = F]
           s == v.folders[f].tabs
           H == HeldBy(F)
           C == DOMAIN v.tab \ (Pinned(v) \cup H)
           r == RowsOf(v, s, C)
           R == ToSet(r)
           rec == [v.folders[f] EXCEPT !.tabs = r]
           K == Keeping(v, F, f)
<1>1. Described(v) /\ None \notin Tab
  BY TabAssumption DEF Listed
<1>2. /\ Described(x) /\ x.rows = v.rows /\ x.tab = v.tab /\ x.active = v.active
      /\ x.folders = F /\ x.closed = v.closed /\ x.away = v.away
  BY <1>1, WithFolders
<1>3. K = Append(F, rec)
  BY DEF Keeping, KeptIn
<1>4. Filed(x)
  OBVIOUS
<1> HIDE DEF x
<1>5. Listed(x) /\ Paired(x) /\ Held(x) = H /\ Pinned(x) = Pinned(v)
  BY <1>2 DEF Listed, Paired, WholeSplit, Has, Held, HeldBy, Pinned
<1> HIDE DEF H
<1>6. Rowwise(v, C)
  <2> SUFFICES ASSUME NEW t \in C, v.tab[t].partner # None PROVE v.tab[t].partner \in C
    BY DEF Rowwise
  <2> DEFINE p == v.tab[t].partner
  <2>1. /\ p \in DOMAIN v.tab /\ v.tab[p].partner = t /\ t # None /\ ~v.tab[p].pinned
    <3>1. WholeSplit(v, t)
      BY DEF Paired
    <3>2. p \in DOMAIN v.tab /\ v.tab[p].partner = t /\ t # None
      BY <3>1 DEF WholeSplit, Has
    <3>3. WholeSplit(v, p)
      BY <3>2 DEF Paired
    <3> QED BY <3>2, <3>3 DEF WholeSplit
  <2>2. p \notin H
    <3> SUFFICES ASSUME p \in H PROVE FALSE
      OBVIOUS
    <3>1. PICK g \in DOMAIN x.folders : p \in InFolder(x, g)
      BY <1>5 DEF Held, InFolder
    <3>2. x.tab[p].partner \in InFolder(x, g)
      BY <1>2, <1>4, <2>1, <3>1 DEF Filed
    <3>3. t \in H
      BY <1>2, <1>5, <2>1, <3>1, <3>2 DEF Held, InFolder
    <3> QED BY <3>3
  <2> QED BY <2>1, <2>2 DEF Pinned
<1>7. v.folders[f] \in FolderRecords /\ s \in Seq(Tab) /\ C \subseteq DOMAIN v.tab
  BY <1>1, FolderTabs
<1>8. Lists(r, R) /\ r \in Seq(Tab) /\ R \subseteq C /\ Rowwise(v, R)
  <2> HIDE DEF s, C
  <2> QED BY <1>6, <1>7, RowsOfIs
<1>9. R \subseteq Tab
  BY <1>8, Members
<1> HIDE DEF r
<1>10. FreeRows(x, R)
  BY <1>2, <1>5, <1>8, <1>9 DEF FreeRows, Rowwise, Pinned
<1>11. rec \in FolderRecords /\ rec.tabs = r
  BY <1>7, <1>8 DEF FolderRecords
<1> HIDE DEF rec, R
<1> DEFINE u == [x EXCEPT !.folders = Append(x.folders, rec)]
<1>12. Filed(u) /\ Listed(u)
  BY <1>4, <1>5, <1>8, <1>10, <1>11, AppendingFolder
<1>13. [v EXCEPT !.folders = K] = u
  BY <1>1, <1>2, <1>3 DEF Described
<1>14. K \in Seq(FolderRecords)
  <2> DEFINE G == FolderRecords
  <2>1. F \in Seq(G) /\ rec \in G
    BY <1>11
  <2> HIDE DEF G
  <2>2. Append(F, rec) \in Seq(G)
    BY <2>1
  <2> QED BY <1>3, <2>2 DEF G
<1> QED BY <1>12, <1>13, <1>14

\* arrangeTabsInFolders: the Folders hold rows, and the sidebar follows them.
LEMMA ArrangeKeeps ==
  ASSUME NEW v, Listed(v), Paired(v)
  PROVE  LET w == ArrangeInFolders(v)
         IN  /\ Body(w) /\ w.tab = v.tab /\ w.active = v.active
             /\ w.closed = v.closed /\ w.away = v.away
<1> DEFINE n == Len(v.folders)
           D == {F \in Seq(FolderRecords) : Filed([v EXCEPT !.folders = F])}
           g == [p \in D \X (1 .. n) |-> Keeping(v, p[1], p[2])]
           step(F, f) ==
             LET held == UNION {ToSet(F[k].tabs) : k \in DOMAIN F}
             IN  Append(F, [v.folders[f] EXCEPT !.tabs = KeptIn(v, held, @)])
           arranged == CHOOSE a : a = [f \in 0 .. n |->
                         IF f = 0 THEN <<>> ELSE step(a[f - 1], f)]
           w == [v EXCEPT !.folders = arranged[n]]
<1>1. Described(v) /\ DOMAIN v.folders = 1 .. n /\ n \in Nat
  BY FolderTabs DEF Listed
<1>2. ArrangeInFolders(v) = SettleAs(w, Loose(w))
  BY DEF ArrangeInFolders
<1>3. \A F, f : step(F, f) = Keeping(v, F, f)
  BY DEF Keeping, HeldBy
<1> HIDE DEF step, n
<1>4. <<>> \in D
  <2>1. <<>> \in Seq(FolderRecords)
    OBVIOUS
  <2> DEFINE e == <<>>
             y == [v EXCEPT !.folders = e]
  <2>2. e \in Seq(FolderRecords) /\ DOMAIN e = {}
    BY <2>1
  <2> HIDE DEF e
  <2>3. y.folders = e
    BY <1>1, <2>2, WithFolders
  <2> HIDE DEF y
  <2>4. Filed(y)
    BY <2>2, <2>3 DEF Filed
  <2> QED BY <2>1, <2>4 DEF y, e
<1>5. ASSUME NEW F \in D, NEW f \in 1 .. n
      PROVE  Keeping(v, F, f) \in D
  <2>1. F \in Seq(FolderRecords) /\ Filed([v EXCEPT !.folders = F]) /\ f \in DOMAIN v.folders
    BY <1>1
  <2> QED BY <2>1, KeepingFiled
<1>6. g \in [D \X (1 .. n) -> D]
  BY <1>5
<1>7. PICK a : Unfolds(a, D, n, <<>>, g)
  <2> DEFINE e == <<>>
  <2> HIDE DEF D, g, e
  <2>1. e \in D
    BY <1>4 DEF e
  <2>2. \E a : Unfolds(a, D, n, e, g)
    BY <1>1, <1>6, <2>1, Unfolding
  <2> QED BY <2>2 DEF e
<1>8. a \in [0 .. n -> D] /\ a[0] = <<>> /\ \A i \in 1 .. n : a[i] = g[<<a[i - 1], i>>]
  BY <1>7 DEF Unfolds
<1>9. ASSUME NEW i \in 1 .. n
      PROVE  a[i] = step(a[i - 1], i)
  <2> HIDE DEF D
  <2>1. i - 1 \in 0 .. n
    BY <1>1
  <2>2. <<a[i - 1], i>> \in D \X (1 .. n)
    BY <1>8, <2>1
  <2> QED BY <1>3, <1>8, <2>2
<1> HIDE DEF D, g
<1>10. a = [i \in 0 .. n |-> IF i = 0 THEN <<>> ELSE step(a[i - 1], i)]
  <2> DEFINE h == [i \in 0 .. n |-> IF i = 0 THEN <<>> ELSE step(a[i - 1], i)]
  <2>1. ASSUME NEW i \in 0 .. n PROVE a[i] = h[i]
    <3>1. i = 0 \/ i \in 1 .. n
      BY <1>1
    <3> QED BY <1>8, <1>9, <3>1
  <2> QED BY <1>8, <2>1
<1>11. arranged = [i \in 0 .. n |-> IF i = 0 THEN <<>> ELSE step(arranged[i - 1], i)]
  BY <1>10
<1>12. \A i \in 0 .. n : arranged[i] = IF i = 0 THEN <<>> ELSE step(arranged[i - 1], i)
  <2> HIDE DEF arranged
  <2> QED BY <1>11
<1> HIDE DEF arranged
<1>13. \A i \in 0 .. n : arranged[i] \in D
  <2> DEFINE Q == {i \in 0 .. n : arranged[i] \in D}
  <2>1. 0 \in Q
    BY <1>1, <1>4, <1>12
  <2>2. ASSUME NEW i \in 0 .. n - 1, i \in Q
        PROVE  i + 1 \in Q
    <3>1. i + 1 \in 1 .. n /\ (i + 1) - 1 = i /\ i + 1 # 0 /\ i + 1 \in 0 .. n
      BY <1>1
    <3>2. arranged[i + 1] = Keeping(v, arranged[i], i + 1)
      BY <1>3, <1>12, <3>1
    <3> QED BY <1>5, <2>2, <3>1, <3>2
  <2> HIDE DEF Q
  <2>3. \A i \in 0 .. n : i \in Q
    BY <1>1, <2>1, <2>2, UpTo
  <2> QED BY <2>3 DEF Q
<1>14. arranged[n] \in Seq(FolderRecords) /\ Filed(w)
  <2>1. arranged[n] \in D
    BY <1>1, <1>13
  <2> DEFINE F == arranged[n]
  <2>2. F \in D /\ w = [v EXCEPT !.folders = F]
    BY <2>1
  <2> HIDE DEF F, w
  <2>3. F \in Seq(FolderRecords) /\ Filed(w)
    BY <2>2 DEF D
  <2> QED BY <2>3 DEF F, w
<1> DEFINE F == arranged[n]
<1>15. F \in Seq(FolderRecords)
  BY <1>14
<1> HIDE DEF F
<1>16. w = [v EXCEPT !.folders = F]
  BY DEF F
<1>17. /\ Described(w) /\ w.rows = v.rows /\ w.tab = v.tab /\ w.active = v.active
       /\ w.closed = v.closed /\ w.away = v.away
  BY <1>1, <1>15, <1>16, WithFolders
<1> HIDE DEF w
<1>18. Listed(w) /\ Paired(w)
  BY <1>17 DEF Listed, Paired, WholeSplit, Has
<1>19. Lists(Loose(w), DOMAIN w.tab \ (Pinned(w) \cup Held(w)))
  BY <1>14, <1>18, RowParts
<1>20. LET z == SettleAs(w, Loose(w))
       IN  /\ Body(z) /\ z.tab = w.tab /\ z.active = w.active
           /\ z.closed = w.closed /\ z.away = w.away
  BY <1>14, <1>18, <1>19, SettleAsSorts
<1> QED BY <1>2, <1>17, <1>20

\* A Space that is loaded: its splits and Folders are put in order.
LEMMA LoadKeeps ==
  ASSUME NEW v, Parked(v), NoneAlone(v)
  PROVE  LET w == ArrangeInFolders(RepairSplits(v))
         IN  Live(w) /\ DOMAIN w.tab = DOMAIN v.tab
<1> DEFINE r == RepairSplits(v)
<1>1. /\ Listed(r) /\ Paired(r) /\ DOMAIN r.tab = DOMAIN v.tab
      /\ r.active = v.active
  BY RepairKeeps DEF Parked
<1> HIDE DEF r
<1>2. LET w == ArrangeInFolders(r) IN Body(w) /\ w.tab = r.tab /\ w.active = r.active
  BY <1>1, ArrangeKeeps
<1> QED BY <1>1, <1>2 DEF Live, Parked, r

\* v has the fields of a view.
Fields(v) ==
  v = [rows |-> v.rows, tab |-> v.tab, active |-> v.active, folders |-> v.folders,
       closed |-> v.closed, away |-> v.away]

\* What is loaded has the tabs that are there.
LEMMA LoadedTabs ==
  ASSUME NEW v, Fields(v)
  PROVE  LET w == ArrangeInFolders(RepairSplits(v))
         IN  Fields(w) /\ DOMAIN w.tab = DOMAIN v.tab /\ w.active = v.active
<1> DEFINE r == RepairSplits(v)
           w == ArrangeInFolders(r)
<1>1. Fields(r) /\ DOMAIN r.tab = DOMAIN v.tab /\ r.active = v.active
  <2> DEFINE R == FlattenSeq([i \in DOMAIN v.rows |-> Stands(v, v.rows[i])])
             Q == [t \in DOMAIN v.tab |->
                     IF Split2(v, t) THEN [v.tab[t] EXCEPT !.focused = Focus(v, t)]
                     ELSE [v.tab[t] EXCEPT !.partner = None, !.focused = FALSE]]
  <2>1. r = [v EXCEPT !.rows = R, !.tab = Q]
    BY DEF RepairSplits, Stands, Split2, LeftHalf, Focus
  <2>2. DOMAIN Q = DOMAIN v.tab
    OBVIOUS
  <2> HIDE DEF R, Q, r
  <2> QED BY <2>1, <2>2 DEF Fields
<1> HIDE DEF r
<1>2. Fields(w) /\ w.tab = r.tab /\ w.active = r.active
  <2>1. PICK F, R : w = [[r EXCEPT !.folders = F] EXCEPT !.rows = R]
    BY DEF ArrangeInFolders, SettleAs
  <2> HIDE DEF w
  <2> DEFINE x == [r EXCEPT !.folders = F]
  <2>2. Fields(x) /\ x.tab = r.tab /\ x.active = r.active
    BY <1>1 DEF Fields
  <2>3. w = [x EXCEPT !.rows = R]
    BY <2>1
  <2> HIDE DEF x
  <2>4. Fields(w) /\ w.tab = x.tab /\ w.active = x.active
    BY <2>2, <2>3 DEF Fields
  <2> QED BY <2>2, <2>4
<1> QED BY <1>1, <1>2 DEF w, r

\* What the Space coming on show holds before its splits and Folders are read.
Arriving(v, b) ==
  LET some == IF v.rows = <<>> THEN OpenTab(v, b, FALSE) ELSE v
      left == IF Has(some, some.active) THEN some.active ELSE some.rows[1]
      next == IF Selectable(some, left) THEN left ELSE Successor(some, left)
  IN  IF next = None THEN OpenTab(some, b, FALSE) ELSE [some EXCEPT !.active = next]

\* It has one of its tabs on show, or is on a blank tab that has no id.
LEMMA ArrivingIs ==
  ASSUME NEW v, Parked(v), NEW b \in Id \ DOMAIN v.tab, None \notin DOMAIN v.tab
  PROVE  LET w == Arriving(v, b)
         IN  /\ Fields(w) /\ DOMAIN w.tab \subseteq DOMAIN v.tab \cup {b}
             /\ None \in DOMAIN w.tab => w.active = None
             /\ None \notin DOMAIN w.tab => Parked(w) /\ NoneAlone(w)
<1> DEFINE rec == NewTab(FALSE)
           B == DOMAIN v.tab \cup {b}
           some == IF v.rows = <<>> THEN OpenTab(v, b, FALSE) ELSE v
           left == IF Has(some, some.active) THEN some.active ELSE some.rows[1]
           next == IF Selectable(some, left) THEN left ELSE Successor(some, left)
           w == IF next = None THEN OpenTab(some, b, FALSE)
                ELSE [some EXCEPT !.active = next]
<1>1. rec \in Records /\ rec.partner = None /\ ~rec.popped /\ Listed(v)
  BY NewTabs DEF Parked
<1>2. Arriving(v, b) = w
  BY DEF Arriving
<1>3. /\ \A x : OpenTab(x, b, FALSE) = [AppendTab(x, b, rec) EXCEPT !.active = b]
      /\ \A x, y : Selectable(x, y) = ~x.tab[y].popped
  BY DEF OpenTab, Selectable
<1> HIDE DEF rec
<1>4. /\ Listed(some) /\ DOMAIN some.tab \subseteq B /\ NoneAlone(some)
      /\ some.rows # <<>>
      /\ b \in DOMAIN some.tab => /\ some.active = b /\ ~some.tab[b].popped
  <2>1. CASE v.rows # <<>>
    BY <1>1, <2>1 DEF NoneAlone
  <2>2. CASE v.rows = <<>>
    <3> DEFINE a == AppendTab(v, b, rec)
               o == [a EXCEPT !.active = b]
    <3>1. some = o
      BY <1>3, <2>2
    <3>2. /\ Listed(o) /\ DOMAIN a.tab = DOMAIN v.tab \cup {b} /\ a.tab[b] = rec
          /\ o.tab = a.tab /\ o.rows = a.rows /\ o.active = b /\ a.rows # <<>>
          /\ \A u \in DOMAIN v.tab : a.tab[u] = v.tab[u]
      BY <1>1, OpeningThere
    <3> HIDE DEF a, o
    <3> QED BY <1>1, <3>1, <3>2 DEF NoneAlone
  <2> QED BY <2>1, <2>2
<1> HIDE DEF some
<1>5. left \in DOMAIN some.tab /\ (b \in DOMAIN some.tab => left = b)
  <2>1. some.rows[1] \in DOMAIN some.tab
    <3>1. 1 \in 1 .. Len(some.rows)
      BY <1>4 DEF Listed, Lists
    <3> QED BY <1>4, <3>1, RowIs
  <2> QED BY <1>4, <2>1 DEF Has
<1> HIDE DEF left
<1>6. next # None => next \in DOMAIN some.tab
  <2>1. Successor(some, left) # None => Successor(some, left) \in DOMAIN some.tab
    BY <1>4, SuccessorIs
  <2> QED BY <1>5, <2>1
<1>7. next = None /\ b \in DOMAIN some.tab => b = None
  BY <1>3, <1>4, <1>5
<1>8. /\ Fields(w) /\ DOMAIN w.tab \subseteq B
      /\ None \in DOMAIN w.tab => w.active = None
      /\ None \notin DOMAIN w.tab => Parked(w) /\ NoneAlone(w)
  <2>1. CASE next # None
    <3>1. w = [some EXCEPT !.active = next]
      BY <2>1
    <3>2. None \notin DOMAIN some.tab
      BY <1>3, <1>4, <1>5, <2>1
    <3> HIDE DEF w, next
    <3>3. /\ Described(w) /\ w.rows = some.rows /\ w.tab = some.tab
          /\ w.active = next
      BY <1>4, <3>1, WithActive DEF Listed
    <3> QED BY <1>4, <1>6, <2>1, <3>2, <3>3 DEF Listed, Parked, NoneAlone, Described, Fields
  <2>2. CASE next = None /\ b \notin DOMAIN some.tab
    <3> DEFINE a == AppendTab(some, b, rec)
               o == [a EXCEPT !.active = b]
    <3>1. w = o
      BY <1>3, <2>2
    <3> HIDE DEF w, next
    <3>2. /\ Listed(o) /\ DOMAIN a.tab = DOMAIN some.tab \cup {b} /\ a.tab[b] = rec
          /\ o.tab = a.tab /\ o.active = b
          /\ \A u \in DOMAIN some.tab : a.tab[u] = some.tab[u]
      BY <1>1, <1>4, <2>2, OpeningThere
    <3> HIDE DEF a, o
    <3>3. None \notin DOMAIN v.tab /\ (None \in DOMAIN w.tab => w.active = None)
      BY <1>4, <3>1, <3>2
    <3> QED BY <1>1, <1>4, <3>1, <3>2, <3>3 DEF NoneAlone, Parked, Listed, Described, Fields
  <2>3. CASE next = None /\ b \in DOMAIN some.tab
    <3>1. b = None /\ w = [AppendTab(some, b, rec) EXCEPT !.active = b]
      BY <1>3, <1>7, <2>3
    <3>2. Described(some)
      BY <1>4 DEF Listed
    <3> HIDE DEF w
    <3>3. /\ Fields(w) /\ DOMAIN w.tab = DOMAIN some.tab \cup {b} /\ w.active = b
      BY <3>1, <3>2 DEF Described, AppendTab, Insert, Fields
    <3> QED BY <1>4, <3>1, <3>3
  <2> QED BY <2>1, <2>2, <2>3
<1> QED BY <1>2, <1>8 DEF w

\* ensureActiveTab, when the Space gets an id for a blank tab it needs.
LEMMA ArriveKeeps ==
  ASSUME NEW v, Parked(v), NEW b \in Id \ DOMAIN v.tab, None \notin DOMAIN v.tab
  PROVE  LET w == Arrive(v, b)
         IN  /\ Fields(w) /\ DOMAIN w.tab \subseteq DOMAIN v.tab \cup {b}
             /\ None \in DOMAIN w.tab => w.active = None
             /\ None \notin DOMAIN w.tab => Live(w)
<1> DEFINE x == Arriving(v, b)
           w == ArrangeInFolders(RepairSplits(x))
<1>1. Arrive(v, b) = w
  BY DEF Arrive, Arriving
<1>2. /\ Fields(x) /\ DOMAIN x.tab \subseteq DOMAIN v.tab \cup {b}
      /\ None \in DOMAIN x.tab => x.active = None
      /\ None \notin DOMAIN x.tab => Parked(x) /\ NoneAlone(x)
  BY ArrivingIs
<1> HIDE DEF x
<1>3. Fields(w) /\ DOMAIN w.tab = DOMAIN x.tab /\ w.active = x.active
  BY <1>2, LoadedTabs
<1>4. None \notin DOMAIN x.tab => Live(w)
  BY <1>2, LoadKeeps
<1> QED BY <1>1, <1>2, <1>3, <1>4

-----------------------------------------------------------------------------
(* Putting unused tabs away                                                *)

\* Other counts.
LEMMA CountingThere ==
  ASSUME NEW v, Listed(v), NEW c \in 0 .. MaxClosed, NEW a \in Nat
  PROVE  LET w == [v EXCEPT !.closed = c]
             x == [v EXCEPT !.away = a]
         IN  /\ Listed(w) /\ w.rows = v.rows /\ w.tab = v.tab /\ w.active = v.active
             /\ w.folders = v.folders
             /\ Listed(x) /\ x.rows = v.rows /\ x.tab = v.tab /\ x.active = v.active
             /\ x.folders = v.folders
BY DEF Listed, Described

\* rememberClosedTab
LEMMA RememberThere ==
  ASSUME NEW v, Listed(v), NEW t
  PROVE  LET w == Remember(v, t)
         IN  /\ Listed(w) /\ w.rows = v.rows /\ w.tab = v.tab /\ w.active = v.active
             /\ w.folders = v.folders
<1> DEFINE m == Min({v.closed + 1, MaxClosed})
<1>1. v.closed \in 0 .. MaxClosed /\ MaxClosed \in Nat
  BY TabAssumption DEF Listed, Described
<1>2. m \in 0 .. MaxClosed
  <2> DEFINE M == {v.closed + 1, MaxClosed}
  <2>1. M \subseteq Nat /\ M # {} /\ MaxClosed \in M
    BY <1>1
  <2> HIDE DEF M
  <2>2. Min(M) \in M /\ \A i \in M : Min(M) <= i
    BY <2>1, Least
  <2> QED BY <1>1, <2>1, <2>2 DEF M
<1> HIDE DEF m
<1>3. LET w == [v EXCEPT !.closed = m]
      IN  /\ Listed(w) /\ w.rows = v.rows /\ w.tab = v.tab /\ w.active = v.active
          /\ w.folders = v.folders
  <2>1. 0 \in Nat
    OBVIOUS
  <2> QED BY <1>2, <2>1, CountingThere
<1>4. Remember(v, t) \in {v, [v EXCEPT !.closed = m]}
  BY DEF Remember, m
<1> QED BY <1>3, <1>4

\* Tabs in no Folder leave none.
LEMMA UnheldGone ==
  ASSUME NEW v, Listed(v), NEW T, T \cap Held(v) = {}
  PROVE  RemoveTabs(v, T) = RemoveRows(v, T)
<1> DEFINE u == RemoveRows(v, T)
           w == LeaveFolders(u, T)
           s == v.folders
<1>1. Listed(u) /\ Described(u) /\ u.folders = s /\ Described(v)
  BY RowsGone DEF Listed
<1> HIDE DEF u
<1>2. /\ Described(w) /\ w.rows = u.rows /\ w.tab = u.tab /\ w.active = u.active
      /\ w.closed = u.closed /\ w.away = u.away
      /\ DOMAIN w.folders = DOMAIN s
      /\ \A f \in DOMAIN s : /\ w.folders[f].tabs = Without(s[f].tabs, T)
                             /\ w.folders[f].collapsed = s[f].collapsed
  BY <1>1, Leaving
<1> HIDE DEF w
<1>3. ASSUME NEW f \in DOMAIN s
      PROVE  w.folders[f] = s[f]
  <2>1. s[f] \in FolderRecords /\ w.folders[f] \in FolderRecords /\ s[f].tabs \in Seq(Tab)
    BY <1>1, <1>2, FolderTabs
  <2>2. ToSet(s[f].tabs) \cap T = {}
    BY DEF Held
  <2>3. Without(s[f].tabs, T) = s[f].tabs
    BY <2>1, <2>2, WithoutMembers
  <2> QED BY <1>2, <2>1, <2>3 DEF FolderRecords
<1>4. w.folders = s
  <2>1. w.folders \in Seq(FolderRecords) /\ s \in Seq(FolderRecords)
    BY <1>1, <1>2 DEF Described
  <2> QED BY <1>2, <1>3, <2>1
<1>5. w = u
  BY <1>1, <1>2, <1>4 DEF Described
<1> QED BY <1>5 DEF RemoveTabs, w, u

\* The tabs that are put away.
PutAwayTabs(v, T) ==
  /\ T \subseteq DOMAIN v.tab /\ T \cap Held(v) = {} /\ v.active \notin T
  /\ \A t \in T : ~v.tab[t].pinned /\ ~v.tab[t].popped /\ v.tab[t].partner = None

\* putAwayUnusedTabsIn takes tabs that are not in use.
LEMMA PutAwayIs ==
  ASSUME NEW v, Listed(v), NEW old
  PROVE  \E T : /\ PutAwayTabs(v, T) /\ Cardinality(T) \in Nat
                /\ PutAway(v, old) = [RemoveRows(v, T) EXCEPT !.away = v.away + Cardinality(T)]
<1> DEFINE inUse(t) == \/ ~v.tab[t].page
                       \/ v.tab[t].pinned \/ v.tab[t].keep \/ v.tab[t].popped
                       \/ v.tab[t].partner # None
                       \/ t = v.active
           T == {t \in old \cap DOMAIN v.tab : ~inUse(t) /\ t \notin Held(v)}
           c == Cardinality(T)
           u == RemoveRows(v, T)
<1>1. PutAwayTabs(v, T)
  BY DEF PutAwayTabs
<1>2. c \in Nat
  <2>1. T \subseteq DOMAIN v.tab
    OBVIOUS
  <2> HIDE DEF T
  <2>2. IsFiniteSet(DOMAIN v.tab)
    BY ListsLen DEF Listed
  <2> QED BY <2>1, <2>2, FS_Subset, FS_CardinalityType
<1>3. PutAway(v, old) = [u EXCEPT !.away = @ + c]
  BY DEF PutAway
<1> HIDE DEF T, c
<1>4. /\ Described(u) /\ u.away = v.away
  BY RowsGone DEF Listed
<1> HIDE DEF u
<1>5. PutAway(v, old) = [u EXCEPT !.away = v.away + c]
  BY <1>3, <1>4
<1> QED BY <1>1, <1>2, <1>5 DEF u, c

\* What is put away of a Space takes nothing that is pinned or in a window.
LEMMA PutAwayKeeps ==
  ASSUME NEW v, Parked(v), NEW old
  PROVE  LET w == PutAway(v, old)
         IN  /\ Parked(w) /\ DOMAIN w.tab \subseteq DOMAIN v.tab /\ w.active = v.active
             /\ \A t \in DOMAIN w.tab : w.tab[t] = v.tab[t]
             /\ \A t \in DOMAIN v.tab \ DOMAIN w.tab : ~v.tab[t].pinned /\ ~v.tab[t].popped
             /\ Live(v) => Live(w)
             /\ w.away \in Nat
<1> DEFINE w == PutAway(v, old)
<1>1. Listed(v) /\ Described(v) /\ v.active \in DOMAIN v.tab \cup {None}
  BY DEF Parked, Listed
<1>2. PICK T : /\ PutAwayTabs(v, T) /\ Cardinality(T) \in Nat
               /\ w = [RemoveRows(v, T) EXCEPT !.away = v.away + Cardinality(T)]
  BY <1>1, PutAwayIs
<1> DEFINE u == RemoveRows(v, T)
           a == v.away + Cardinality(T)
<1>3. w = [u EXCEPT !.away = a] /\ a \in Nat
  BY <1>1, <1>2 DEF Described
<1> HIDE DEF w, a
<1>4. /\ Listed(u) /\ DOMAIN u.tab = DOMAIN v.tab \ T /\ u.active = v.active
      /\ \A t \in DOMAIN v.tab \ T : u.tab[t] = v.tab[t]
  BY <1>1, RowsGone
<1>5. Live(v) => Body(u)
  <2> SUFFICES ASSUME Live(v) PROVE Body(u)
    OBVIOUS
  <2>1. Body(v) /\ Paired(v)
    BY DEF Live, Body
  <2>2. Apart(v, T)
    <3> SUFFICES ASSUME NEW t \in DOMAIN v.tab, v.tab[t].partner # None, v.tab[t].partner \in T
                 PROVE  FALSE
      BY DEF Apart
    <3>1. v.tab[v.tab[t].partner].partner = t /\ t # None
      BY <2>1 DEF Paired, WholeSplit
    <3> QED BY <1>2, <3>1 DEF PutAwayTabs
  <2>3. RemoveTabs(v, T) = u
    BY <1>1, <1>2, UnheldGone DEF PutAwayTabs
  <2>4. Body(RemoveTabs(v, T))
    BY <2>1, <2>2, TabsGone
  <2> QED BY <2>3, <2>4
<1> HIDE DEF u
<1>6. 0 \in 0 .. MaxClosed
  BY TabAssumption
<1>7. Listed(w) /\ w.tab = u.tab /\ w.active = u.active
  BY <1>3, <1>4, <1>6, CountingThere
<1>8. Body(u) => Body(w)
  BY <1>3, <1>6, Counting
<1>9. w.active \in DOMAIN w.tab \cup {None}
  BY <1>1, <1>2, <1>4, <1>7 DEF PutAwayTabs
<1>10. w.away \in Nat
  BY <1>7 DEF Listed, Described
<1> QED BY <1>2, <1>4, <1>5, <1>7, <1>8, <1>9, <1>10 DEF Parked, Live, PutAwayTabs, w

\* The tab on show is not put away.
LEMMA ActiveStays ==
  ASSUME NEW v, Fields(v), v.active \in DOMAIN v.tab, NEW old
  PROVE  v.active \in DOMAIN PutAway(v, old).tab
<1> DEFINE inUse(t) == \/ ~v.tab[t].page
                       \/ v.tab[t].pinned \/ v.tab[t].keep \/ v.tab[t].popped
                       \/ v.tab[t].partner # None
                       \/ t = v.active
           T == {t \in old \cap DOMAIN v.tab : ~inUse(t) /\ t \notin Held(v)}
           c == Cardinality(T)
<1>1. v.active \notin T
  OBVIOUS
<1>2. PutAway(v, old) = [RemoveRows(v, T) EXCEPT !.away = @ + c]
  BY DEF PutAway
<1> HIDE DEF T, c
<1>3. PutAway(v, old).tab = Restrict(v.tab, DOMAIN v.tab \ T)
  BY <1>2 DEF RemoveRows, Fields
<1> QED BY <1>1, <1>3 DEF Restrict
=============================================================================
