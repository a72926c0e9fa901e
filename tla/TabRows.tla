------------------------------ MODULE TabRows ------------------------------
(***************************************************************************)
(* The rows of one Space's sidebar as src/core/BrowserController.cpp keeps *)
(* them, as pure operators: which tabs there are and in what order, which  *)
(* one is active, the splits, the Folders, and what closing, moving,       *)
(* pairing, sorting and loading do to them.                                *)
(*                                                                         *)
(* A view is a record of                                                   *)
(*   rows     the tabs in the order of the sidebar                         *)
(*   tab      what is known of each of them                                *)
(*   active   the tab on show (None in a Space without tabs)               *)
(*   folders  the Folders in order, each with its tabs and collapsed       *)
(*   closed   how many closed pages the Space can give back                *)
(*   away     how many pages it has put away                               *)
(* A tab's address is abstracted to whether it shows a page or is blank.   *)
(* Titles, icons, zoom and sound are left out, and so is the Agent         *)
(* activity page.                                                          *)
(***************************************************************************)
EXTENDS Integers, Sequences, FiniteSets, SequencesExt, Functions

CONSTANTS
  Tab,        \* tab ids (random UUIDs in the code)
  None,       \* no tab
  MaxClosed   \* pages a Space remembers closed (25 in the code)

ASSUME TabAssumption == None \notin Tab /\ MaxClosed \in Nat

NewTab(page) ==
  [page |-> page, pinned |-> FALSE, keep |-> FALSE, popped |-> FALSE,
   partner |-> None, focused |-> FALSE]

TabRecords ==
  [page : BOOLEAN, pinned : BOOLEAN, keep : BOOLEAN, popped : BOOLEAN,
   partner : Tab \cup {None}, focused : BOOLEAN]

\* A Space before its first tab.
EmptyView ==
  [rows |-> <<>>, tab |-> << >>, active |-> None, folders |-> <<>>, closed |-> 0, away |-> 0]

\* Those of s that are in S, in their order.
Among(s, S) ==
  LET first[i \in 0 .. Len(s)] ==
        IF i = 0 THEN <<>>
        ELSE IF s[i] \in S THEN Append(first[i - 1], s[i]) ELSE first[i - 1]
  IN  first[Len(s)]

\* s without those in S.
Without(s, S) == Among(s, ToSet(s) \ S)

-----------------------------------------------------------------------------
(* Reading a view                                                          *)

Has(v, t) == t \in DOMAIN v.tab
Row(v, t) == SelectInSeq(v.rows, LAMBDA u : u = t)
Selectable(v, t) == ~v.tab[t].popped
Popped(v) == {t \in DOMAIN v.tab : v.tab[t].popped}

FoldersHeld(v) == v.folders # <<>>
Held(v) == UNION {ToSet(v.folders[f].tabs) : f \in DOMAIN v.folders}
FolderOf(v, t) ==
  IF t \in Held(v) THEN CHOOSE f \in DOMAIN v.folders : t \in ToSet(v.folders[f].tabs) ELSE 0

Pinned(v) == {t \in DOMAIN v.tab : v.tab[t].pinned}

Pins(v) == Among(v.rows, Pinned(v))
Unpinned(v) == Without(v.rows, Pinned(v))
Loose(v) == Without(v.rows, Pinned(v) \cup Held(v))

\* What the Folders hold, in their order.
HeldRows(v) == FlattenSeq([f \in DOMAIN v.folders |-> v.folders[f].tabs])

\* splitEntryTab: the half of a split it is entered on.
EntryTab(v, t) ==
  LET p == v.tab[t].partner
  IN  IF p # None /\ ~v.tab[t].focused /\ v.tab[p].focused THEN p ELSE t

\* wholeRows: every tab named with the other half of its split, left one first.
WholeRow(v, t) ==
  LET p == v.tab[t].partner
  IN  IF p = None THEN <<t>> ELSE IF Row(v, p) < Row(v, t) THEN <<p, t>> ELSE <<t, p>>

\* Those of ts that are asked for, each row once.
RowsOf(v, ts, asked) ==
  LET upTo[i \in 0 .. Len(ts)] ==
        IF i = 0 THEN <<>>
        ELSE IF ts[i] \in asked \ ToSet(upTo[i - 1])
        THEN upTo[i - 1] \o WholeRow(v, ts[i]) ELSE upTo[i - 1]
  IN  upTo[Len(ts)]

WholeRows(v, ts) == RowsOf(v, ts, DOMAIN v.tab)

\* The tab of wanted nearest to a row, those above it first; None without one.
Nearest(v, from, wanted) ==
  LET above == {r \in 1 .. from - 1 : v.rows[r] \in wanted}
      below == {r \in from + 1 .. Len(v.rows) : v.rows[r] \in wanted}
  IN  IF above # {} THEN v.rows[Max(above)]
      ELSE IF below # {} THEN v.rows[Min(below)] ELSE None

\* successorRow: the tab shown in place of t, the other half of its split first.
Successor(v, t) ==
  LET p == v.tab[t].partner
  IN  IF p # None /\ Has(v, p) /\ Selectable(v, p) THEN p
      ELSE Nearest(v, Row(v, t), {u \in DOMAIN v.tab : Selectable(v, u)})

\* tabAfterLeaving, in a Space that holds Folders: the neighbour in the open
\* Folder of the active tab, else the nearest tab in no Folder, else None.
AfterLeaving(v, leaving) ==
  LET In(f) == {u \in DOMAIN v.tab \ leaving :
                  ~v.tab[u].pinned /\ Selectable(v, u) /\ FolderOf(v, u) = f}
      near(f) == Nearest(v, Row(v, v.active), In(f))
      folder == FolderOf(v, v.active)
  IN  IF folder # 0 /\ ~v.folders[folder].collapsed /\ near(folder) # None
      THEN near(folder) ELSE near(0)

-----------------------------------------------------------------------------
(* Rows                                                                    *)

Insert(v, t, rec, row) ==
  [v EXCEPT !.rows = InsertAt(@, row, t),
            !.tab = [u \in DOMAIN @ \cup {t} |-> IF u = t THEN rec ELSE @[u]]]

AppendTab(v, t, rec) == Insert(v, t, rec, Len(v.rows) + 1)

MoveRow(v, t, row) == [v EXCEPT !.rows = InsertAt(Without(@, {t}), row, t)]

LeaveFolders(v, leaving) ==
  [v EXCEPT !.folders =
     [f \in DOMAIN v.folders |->
        [v.folders[f] EXCEPT !.tabs = Without(@, leaving)]]]

\* Stored rows that go: the stored Folders go on naming the tabs.
RemoveRows(v, ts) ==
  [v EXCEPT !.rows = Without(@, ts), !.tab = Restrict(@, DOMAIN @ \ ts)]

\* A tab that leaves the list on show leaves its Folder, whichever route took it.
RemoveTabs(v, ts) == LeaveFolders(RemoveRows(v, ts), ts)
RemoveTab(v, t) == RemoveTabs(v, {t})

\* settleFolders: the pins, the Folders' tabs in Folder order, the loose tabs.
SettleAs(v, loose) == [v EXCEPT !.rows = Pins(v) \o HeldRows(v) \o loose]

Settle(v) == IF FoldersHeld(v) THEN SettleAs(v, Loose(v)) ELSE v

-----------------------------------------------------------------------------
(* Splits                                                                  *)

\* Bug variant of Unpair: the other half is not told.
UnpairOne(v, t) ==
  [v EXCEPT !.tab[t].partner = None, !.tab[t].focused = FALSE]

\* unpairTab: both halves forget each other.
Unpair(v, t) ==
  LET p == v.tab[t].partner
  IN  [v EXCEPT !.tab =
         [u \in DOMAIN @ |-> IF p # None /\ u \in {t, p}
                             THEN [@[u] EXCEPT !.partner = None, !.focused = FALSE]
                             ELSE @[u]]]

\* pairTabs: focus is with whichever half is the active tab.
Pair(v, l, r) ==
  [v EXCEPT !.tab =
     [u \in DOMAIN @ |->
        IF u \in {l, r}
        THEN [@[u] EXCEPT !.partner = IF u = l THEN r ELSE l, !.focused = u = v.active]
        ELSE @[u]]]

\* setActiveTab: entering a split's half is what the split is later entered on.
Show(v, t) ==
  LET p == v.tab[t].partner
  IN  [v EXCEPT !.active = t,
                !.tab = [u \in DOMAIN @ |->
                           IF p # None /\ u \in {t, p} THEN [@[u] EXCEPT !.focused = u = t]
                                                       ELSE @[u]]]

CanSplit(v) ==
  /\ v.active # None
  /\ ~v.tab[v.active].pinned
  /\ v.tab[v.active].partner = None

\* A split stands in one Folder, f, where the higher of its two tabs stood.
JoinFolder(v, f, l, r) ==
  IF ~FoldersHeld(v) THEN v
  ELSE IF f = 0 THEN Settle(v)
  ELSE LET at == SelectInSeq(v.folders[f].tabs, LAMBDA t : t \in {l, r})
           left == LeaveFolders(v, {l, r})
       IN  Settle([left EXCEPT !.folders[f].tabs = InsertAt(InsertAt(@, at, l), at + 1, r)])

\* addSplit with no tab named: a blank one opens beside the active tab.
SplitWithBlank(v, b) ==
  LET l == v.active
      opened == [Insert(v, b, NewTab(FALSE), Row(v, l) + 1) EXCEPT !.active = b]
  IN  JoinFolder(Pair(opened, l, b), FolderOf(v, l), l, b)

\* addSplit with a tab of the Space, which leaves its row for the active one's.
SplitWith(v, t) ==
  LET l == v.active
      row == IF Row(v, t) < Row(v, l) THEN Row(v, l) ELSE Row(v, l) + 1
      f == IF FolderOf(v, l) # 0 THEN FolderOf(v, l) ELSE FolderOf(v, t)
  IN  JoinFolder(Pair(MoveRow(v, t, row), l, t), f, l, t)

CanSplitWith(v, t) ==
  /\ CanSplit(v)
  /\ t # v.active
  /\ ~v.tab[t].pinned
  /\ Selectable(v, t)
  /\ v.tab[t].partner = None

\* Bug variant of RepairSplits: only halves that stand side by side are a split.
RepairAdjacentOnly(v) ==
  LET beside(t) == LET p == v.tab[t].partner
                   IN  p # None /\ Has(v, p) /\ Row(v, t) - Row(v, p) \in {-1, 1}
  IN  [v EXCEPT !.tab = [t \in DOMAIN @ |->
         IF beside(t) THEN @[t] ELSE [@[t] EXCEPT !.partner = None, !.focused = FALSE]]]

\* repairSplits, on every load: what does not add up to a whole split is read
\* as ordinary tabs, the right half stands after the left one, and exactly one
\* half is focused, the active tab if it is one of them.
RepairSplits(v) ==
  LET paired(t) == LET p == v.tab[t].partner
                   IN  /\ p # None /\ p # t /\ Has(v, p)
                       /\ v.tab[p].partner = t
                       /\ ~v.tab[t].pinned /\ ~v.tab[p].pinned
      isLeft(t) == Row(v, t) < Row(v, v.tab[t].partner)
      focus(t) == LET p == v.tab[t].partner
                  IN  IF v.active \in {t, p} THEN t = v.active
                      ELSE IF v.tab[t].focused = v.tab[p].focused THEN isLeft(t)
                      ELSE v.tab[t].focused
      stands(t) == IF ~paired(t) THEN <<t>>
                   ELSE IF isLeft(t) THEN <<t, v.tab[t].partner>> ELSE <<>>
  IN  [v EXCEPT
         !.rows = FlattenSeq([r \in DOMAIN v.rows |-> stands(v.rows[r])]),
         !.tab = [t \in DOMAIN @ |-> IF paired(t) THEN [@[t] EXCEPT !.focused = focus(t)]
                                     ELSE [@[t] EXCEPT !.partner = None, !.focused = FALSE]]]

-----------------------------------------------------------------------------
(* Opening, closing and giving back                                        *)

\* appendActiveTab, for an address, a search or the first tab of a Space.
OpenTab(v, t, page) == [AppendTab(v, t, NewTab(page)) EXCEPT !.active = t]

\* rememberClosedTab: a page that is closed can be asked for again.
Remember(v, t) ==
  IF v.tab[t].page THEN [v EXCEPT !.closed = Min({@ + 1, MaxClosed})] ELSE v

\* closeTab.  b is the id of the blank tab a Space comes to rest on.
CloseTab(v, t, b) ==
  IF ~Has(v, t) \/ v.tab[t].pinned THEN v
  ELSE IF Len(v.rows) = 1
  THEN \* The last tab is emptied rather than removed.
       Settle(LeaveFolders([Remember(v, t) EXCEPT !.tab[t].page = FALSE], {t}))
  ELSE LET p == v.tab[t].partner
           w == Unpair(Remember(v, t), t)
           next == IF p # None THEN p
                   ELSE IF FoldersHeld(v) THEN AfterLeaving(w, {t})
                   ELSE w.rows[IF Row(w, t) = 1 THEN 2 ELSE Row(w, t) - 1]
       IN  IF t # v.active THEN RemoveTab(w, t)
           ELSE IF next = None
           THEN Show(RemoveTab(AppendTab(w, b, NewTab(FALSE)), t), b)
           ELSE Show(RemoveTab(w, t), next)

CloseAll(v, ts, b) ==
  LET upTo[i \in 0 .. Len(ts)] == IF i = 0 THEN v ELSE CloseTab(upTo[i - 1], ts[i], b)
  IN  upTo[Len(ts)]

\* closeOtherTabs and closeTabsBelow: the loose rows other than the anchor's,
\* of the whole list or after the anchor.
Sweep(v, t, from) ==
  Without(SubSeq(v.rows, from, Len(v.rows)), Pinned(v) \cup Held(v) \cup {t, v.tab[t].partner})

CloseOthers(v, t, b) == CloseAll(v, Sweep(v, t, 1), b)
CloseBelow(v, t, b) == CloseAll(v, Sweep(v, t, Row(v, t) + 1), b)

\* reopenTab, from the closed pages or the pages put away.
Reopen(v, t) == OpenTab(v, t, TRUE)

\* duplicateTab: the copy stands after the whole row it was made of.
Duplicate(v, t, new) ==
  LET row == WholeRow(v, t)
      after == IF v.tab[t].pinned THEN Len(v.rows) ELSE Row(v, row[Len(row)])
  IN  Settle([Insert(v, new, NewTab(TRUE), after + 1) EXCEPT !.active = new])

\* putAwayUnusedTabsIn, for the tabs past the age: a tab in use stays, a
\* Folder's tab keeps its row, and the rest goes to the Space's list.
PutAway(v, old) ==
  LET inUse(t) == \/ ~v.tab[t].page
                  \/ v.tab[t].pinned \/ v.tab[t].keep \/ v.tab[t].popped
                  \/ v.tab[t].partner # None
                  \/ t = v.active
      gone == {t \in old \cap DOMAIN v.tab : ~inUse(t) /\ t \notin Held(v)}
  IN  [RemoveRows(v, gone) EXCEPT !.away = @ + Cardinality(gone)]

-----------------------------------------------------------------------------
(* Moving rows and sorting them into Folders                               *)

\* moveTab: to a place of the tab's own section, the pins or the others.  A
\* half of a split stays where it is.
MoveTab(v, t, place) ==
  LET section == IF v.tab[t].pinned THEN Pins(v) ELSE Unpinned(v)
      start == IF v.tab[t].pinned THEN 0 ELSE Len(Pins(v))
  IN  IF v.tab[t].partner # None \/ place \notin DOMAIN section THEN v
      ELSE Settle(MoveRow(v, t, start + place))

InsertRows(list, rows, before) ==
  LET at == SelectInSeq(list, LAMBDA t : t = before)
  IN  IF at = 0 THEN list \o rows
      ELSE SubSeq(list, 1, at - 1) \o rows \o SubSeq(list, at, Len(list))

\* Bug variant of PlaceTabs: one half of a split is placed without the other.
PlaceTabsAlone(v, ts, f, before) ==
  IF ts = <<>> \/ \E t \in ToSet(ts) : v.tab[t].pinned THEN v
  ELSE LET left == LeaveFolders(v, ToSet(ts))
       IN  IF f # 0
           THEN Settle([left EXCEPT !.folders[f].tabs = InsertRows(@, ts, before)])
           ELSE SettleAs(left, InsertRows(Without(Loose(left), ToSet(ts)), ts, before))

\* placeTabs: whole rows, into Folder f or, for 0, among the loose tabs, and
\* never between the halves of a split.
PlaceTabs(v, ts, f, before) ==
  LET rows == WholeRows(v, ts)
      first == IF Has(v, before) THEN Head(WholeRow(v, before)) ELSE None
      left == LeaveFolders(v, ToSet(rows))
      loose == Without(Loose(left), ToSet(rows))
  IN  IF rows = <<>> \/ \E t \in ToSet(rows) : v.tab[t].pinned THEN v
      ELSE IF f # 0
      THEN Settle([left EXCEPT !.folders[f].tabs = InsertRows(@, rows, first)])
      ELSE SettleAs(left, InsertRows(loose, rows, first))

\* stepRowAcrossFolders: one step up (-1) or down (1).  A row passes its
\* neighbour, and at the end of its list crosses into the list beside it.
StepRow(v, t, d) ==
  LET f == FolderOf(v, t)
      starts(ts) == Among(ts, {u \in DOMAIN v.tab : Head(WholeRow(v, u)) = u})
      list == starts(IF f # 0 THEN v.folders[f].tabs ELSE Loose(v))
      row == WholeRow(v, t)
      next == SelectInSeq(list, LAMBDA u : u = Head(row)) + d
      first(ts) == IF ts = <<>> THEN None ELSE Head(ts)
  IN  IF next \in DOMAIN list
      THEN IF v.tab[t].partner # None THEN v
           ELSE PlaceTabs(v, row, f, IF d < 0 THEN list[next]
                                     ELSE IF next < Len(list) THEN list[next + 1] ELSE None)
      ELSE IF d < 0
      THEN LET above == (IF f # 0 THEN f ELSE Len(v.folders) + 1) - 1
           IN  IF above > 0 THEN PlaceTabs(v, row, above, None) ELSE v
      ELSE IF f = 0 THEN v
      ELSE IF f = Len(v.folders) THEN PlaceTabs(v, row, 0, first(starts(Loose(v))))
      ELSE PlaceTabs(v, row, f + 1, IF v.folders[f + 1].collapsed THEN None
                                    ELSE first(v.folders[f + 1].tabs))

\* moveTabBy, by one step.
MoveTabBy(v, t, d) ==
  IF FoldersHeld(v) /\ ~v.tab[t].pinned THEN StepRow(v, t, d)
  ELSE MoveTab(v, t, Row(v, t) - (IF v.tab[t].pinned THEN 0 ELSE Len(Pins(v))) + d)

\* Bug variant of SetPinned: the tab stays on its row.
SetPinnedInPlace(v, t, pinned) ==
  Settle(LeaveFolders([v EXCEPT !.tab[t].pinned = pinned, !.tab[t].keep = @ /\ pinned], {t}))

\* setTabPinned, for a tab in no split.
SetPinned(v, t, pinned) ==
  LET row == IF pinned THEN Len(Pins(v)) + 1 ELSE Len(Pins(v))
      moved == [MoveRow(v, t, row) EXCEPT !.tab[t].pinned = pinned,
                                          !.tab[t].keep = @ /\ pinned]
  IN  Settle(LeaveFolders(moved, {t}))

CreateFolder(v, ts) ==
  LET rows == WholeRows(v, ts)
  IN  IF \E t \in ToSet(rows) : v.tab[t].pinned THEN v
      ELSE Settle([LeaveFolders(v, ToSet(rows)) EXCEPT
                     !.folders = Append(@, [tabs |-> rows, collapsed |-> FALSE])])

MoveFolder(v, f, place) ==
  Settle([v EXCEPT !.folders = InsertAt(RemoveAt(@, f), place, v.folders[f])])

RemoveFolder(v, f) == Settle([v EXCEPT !.folders = RemoveAt(@, f)])

\* closeFolder: what is on show moves off the Folder once, then its tabs close.
CloseFolder(v, f, b) ==
  LET ts == v.folders[f].tabs
      next == AfterLeaving(v, ToSet(ts))
      off == IF v.active \notin ToSet(ts) THEN v
             ELSE IF next = None THEN Show(AppendTab(v, b, NewTab(FALSE)), b)
             ELSE Show(v, next)
  IN  CloseAll(RemoveFolder(off, f), ts, b)

\* popOutTab: a tab in its own window is never on show here, and a Space left
\* with nothing else to show rests on a blank tab.
PopOut(v, t, b) ==
  LET next == IF FoldersHeld(v) /\ v.tab[t].partner = None THEN AfterLeaving(v, {t})
              ELSE Successor(v, t)
      out == [Unpair(v, t) EXCEPT !.tab[t].popped = TRUE]
  IN  IF t # v.active THEN out
      ELSE IF next = None THEN Show(AppendTab(out, b, NewTab(FALSE)), b)
      ELSE Show(out, next)

-----------------------------------------------------------------------------
(* Storing and loading                                                     *)

\* saveTabs and loadTabs: the pins come back first.
Stored(v) == [v EXCEPT !.rows = Pins(v) \o Unpinned(v)]

\* saveAwayTabs: a Space left with no tab rests on a blank one, and one whose
\* active tab went is left on the first.
SaveAway(v, b) ==
  IF v.rows = <<>> THEN OpenTab(v, b, FALSE)
  ELSE Stored([v EXCEPT !.active = IF Has(v, @) THEN @ ELSE v.rows[1]])

\* arrangeTabsInFolders: a Folder keeps the ids of tabs that are there,
\* unpinned and in no Folder before it, each with the other half of its split.
KeptIn(v, held, ts) == RowsOf(v, ts, DOMAIN v.tab \ (Pinned(v) \cup held))

ArrangeInFolders(v) ==
  LET arranged[f \in 0 .. Len(v.folders)] ==
        IF f = 0 THEN <<>>
        ELSE LET held == UNION {ToSet(arranged[f - 1][g].tabs) : g \in DOMAIN arranged[f - 1]}
             IN  Append(arranged[f - 1],
                        [v.folders[f] EXCEPT !.tabs = KeptIn(v, held, @)])
      w == [v EXCEPT !.folders = arranged[Len(v.folders)]]
  IN  SettleAs(w, Loose(w))

\* ensureActiveTab: the tabs of the Space coming on show, on its active tab
\* or, when that one is in a Tab window, on the nearest that can be shown.
Arrive(v, b) ==
  LET some == IF v.rows = <<>> THEN OpenTab(v, b, FALSE) ELSE v
      left == IF Has(some, some.active) THEN some.active ELSE some.rows[1]
      next == IF Selectable(some, left) THEN left ELSE Successor(some, left)
      shown == IF next = None THEN OpenTab(some, b, FALSE)
               ELSE [some EXCEPT !.active = next]
  IN  ArrangeInFolders(RepairSplits(shown))

=============================================================================
