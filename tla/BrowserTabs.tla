----------------------------- MODULE BrowserTabs -----------------------------
(***************************************************************************)
(* The tabs of a window's Spaces, as src/core/BrowserController.cpp keeps  *)
(* them: the Space on show in the live list, the others in the session     *)
(* store, and the two caches the window reads of the others: the pages     *)
(* that go on running there and the tabs shown in windows of their own.    *)
(*                                                                         *)
(* The store and the live list of the Space on show are one view here.     *)
(* The coalesced write that separates them is modelled in SyncController.  *)
(***************************************************************************)
EXTENDS TabRows

CONSTANTS
  Space,       \* Space ids
  MaxFolders,  \* bound: Folders of a Space
  MaxMarks,    \* bound: tabs, and what they and the Spaces are marked with, at one time
  WindowsSplit \* bound: whether a Tab window's tab that is on show is ever split

VARIABLES
  spaces,       \* m_spaces: the Spaces in order
  view,         \* the tabs of each of them
  shown,        \* m_activeSpaceId
  retained,     \* m_retainedTabs: tabs of other Spaces whose pages go on running
  awayWindows,  \* m_awayTabWindows: tabs of other Spaces in windows of their own
  windows       \* m_tabWindows: every tab in a window of its own

vars == <<spaces, view, shown, retained, awayWindows, windows>>
caches == <<retained, awayWindows, windows>>

Here == view[shown]
Away == ToSet(spaces) \ {shown}

Known(v) == DOMAIN v.tab \cup Held(v)
Unused == Tab \ UNION {Known(view[s]) : s \in DOMAIN view}

\* The id of a new tab.  Ids are random: one no Space knows stands for them all.
Fresh == IF Unused = {} THEN {} ELSE {CHOOSE t \in Unused : TRUE}

\* The id of a blank tab that may have to be made; None is out of bounds.
Spare == IF Fresh = {} THEN {None} ELSE Fresh

\* retains: a page that goes on running while its Space is not on show.  (The
\* inspected tab, which is retained too, is left out.)
Retains(v) ==
  {t \in DOMAIN v.tab :
     v.tab[t].page /\ ((v.tab[t].pinned /\ v.tab[t].keep) \/ v.tab[t].popped)}

\* refreshTabWindows: the live tabs and what was last read of the other Spaces.
TabWindows(v, others) == Popped(v) \cup others

\* Bug variant of RefreshRetained: the windows of other Spaces are not read again.
RefreshRetainedOnly(views, on) ==
  LET others == DOMAIN views \ {on}
  IN  /\ retained' = UNION {Retains(views[s]) : s \in others}
      /\ UNCHANGED awayWindows
      /\ windows' = TabWindows(views[on], awayWindows)

\* refreshRetainedTabs, with the Spaces as they are and the one now on show.
RefreshRetained(views, on) ==
  LET others == DOMAIN views \ {on}
  IN  /\ retained' = UNION {Retains(views[s]) : s \in others}
      /\ awayWindows' = UNION {Popped(views[s]) : s \in others}
      /\ windows' = TabWindows(views[on], awayWindows')

\* The tabs, and which are blank, pinned, kept, in windows and in splits, the
\* Folders, and the pages closed or put away.
Marks(v) ==
  LET marked(P(_)) == Cardinality({t \in DOMAIN v.tab : P(v.tab[t])})
  IN  Cardinality(DOMAIN v.tab) + marked(LAMBDA r : ~r.page) + marked(LAMBDA r : r.pinned)
      + marked(LAMBDA r : r.keep) + marked(LAMBDA r : r.popped) + marked(LAMBDA r : r.partner # None /\ r.focused)
      + Len(v.folders) + Cardinality({f \in DOMAIN v.folders : v.folders[f].collapsed})
      + v.closed + v.away

InBounds(views) ==
  /\ \A s \in DOMAIN views : None \notin DOMAIN views[s].tab /\ Len(views[s].folders) <= MaxFolders
  /\ MapThenSumSet(LAMBDA s : Marks(views[s]), DOMAIN views) <= MaxMarks

Become(views) == InBounds(views) /\ view' = views

\* The live list changes, and the live half of the Tab window list follows it.
OnShow(v) ==
  /\ Become([view EXCEPT ![shown] = v])
  /\ windows' = TabWindows(v, awayWindows)
  /\ UNCHANGED <<spaces, shown, retained, awayWindows>>

\* A Space that is not on show is written and the caches are read again.
InStore(s, v) ==
  /\ Become([view EXCEPT ![s] = v])
  /\ RefreshRetained(view', shown)
  /\ UNCHANGED <<spaces, shown>>

-----------------------------------------------------------------------------
(* Tabs of the Space on show                                               *)

\* openInput in a new tab, searchFor, openAgentActivity
Open(t) == OnShow(OpenTab(Here, t, TRUE))

\* openInputInBackground, openTabInSpace
OpenBehind(t) == OnShow(AppendTab(Here, t, NewTab(TRUE)))

\* openInput in the active tab, navigateTab, and a page reporting where it is
Navigate(t, page) ==
  /\ Has(Here, t)
  /\ OnShow([Here EXCEPT !.tab[t].page = page])

\* activateTab: a tab in its own window is raised there instead.
Activate(t) ==
  /\ Has(Here, t)
  /\ t # Here.active
  /\ Selectable(Here, t)
  /\ OnShow(Show(Here, t))

\* stepTab: the list read as rows, counted at the left half of a split, past
\* the tabs in windows of their own and those a collapsed Folder hides.
Step(d) ==
  LET v == Here
      beside == IF v.active = None THEN None ELSE v.tab[v.active].partner
      hidden(t) == /\ FolderOf(v, t) # 0
                   /\ v.folders[FolderOf(v, t)].collapsed
                   /\ t \notin {v.active, beside}
      stops == Among(v.rows, {t \in DOMAIN v.tab : /\ Selectable(v, t)
                                                   /\ ~hidden(t)
                                                   /\ Head(WholeRow(v, t)) = t})
      current == SelectInSeq(stops, LAMBDA t : v.active \in ToSet(WholeRow(v, t)))
      from == IF current = 0 THEN 0 ELSE current - 1
  IN  /\ stops # <<>>
      /\ Activate(EntryTab(v, stops[((from + d) % Len(stops)) + 1]))

\* addSplit, with a new blank tab or one of the Space.  The active tab is not
\* asked whether it is in a window of its own.
InWindow == Here.active \in Popped(Here)

SplitNew(b) ==
  /\ InWindow => WindowsSplit
  /\ CanSplit(Here)
  /\ OnShow(SplitWithBlank(Here, b))

Split(t) ==
  /\ InWindow => WindowsSplit
  /\ Has(Here, t)
  /\ CanSplitWith(Here, t)
  /\ OnShow(SplitWith(Here, t))

\* separateSplit
Separate(t) ==
  /\ Has(Here, t)
  /\ Here.tab[t].partner # None
  /\ OnShow(Unpair(Here, t))

Close(t, b) == Has(Here, t) /\ OnShow(CloseTab(Here, t, b))
CloseOther(t, b) == Has(Here, t) /\ OnShow(CloseOthers(Here, t, b))
CloseUnder(t, b) ==
  /\ Has(Here, t)
  /\ ~Here.tab[t].pinned
  /\ OnShow(CloseBelow(Here, t, b))

ReopenClosed(t) ==
  /\ Here.closed > 0
  /\ OnShow(Reopen([Here EXCEPT !.closed = @ - 1], t))

ReopenPutAway(t) ==
  /\ Here.away > 0
  /\ OnShow(Reopen([Here EXCEPT !.away = @ - 1], t))

DuplicateTab(t, new) ==
  /\ Has(Here, t)
  /\ Here.tab[t].page
  /\ OnShow(Duplicate(Here, t, new))

Move(t, place) == Has(Here, t) /\ OnShow(MoveTab(Here, t, place))
MoveBy(t, d) == Has(Here, t) /\ OnShow(MoveTabBy(Here, t, d))

PinTab(t, pinned) ==
  /\ Has(Here, t)
  /\ Here.tab[t].partner = None
  /\ Here.tab[t].pinned # pinned
  /\ OnShow(SetPinned(Here, t, pinned))

\* setTabKeepActive, releaseRetainedTab for a tab of the Space on show
KeepActive(t, keep) ==
  /\ Has(Here, t)
  /\ Here.tab[t].pinned
  /\ OnShow([Here EXCEPT !.tab[t].keep = keep])

\* popOutTab
PopOutTab(t, b) ==
  /\ Has(Here, t)
  /\ ~Here.tab[t].popped
  /\ Here.tab[t].page
  /\ OnShow(PopOut(Here, t, b))

\* openTabWindow
OpenWindow(t) == OnShow(AppendTab(Here, t, [NewTab(TRUE) EXCEPT !.popped = TRUE]))

\* putBackTab
PutBack(t, show) ==
  LET back == [Here EXCEPT !.tab[t].popped = FALSE]
  IN  /\ Has(Here, t)
      /\ Here.tab[t].popped
      /\ OnShow(IF show /\ t # Here.active THEN Show(back, t) ELSE back)

-----------------------------------------------------------------------------
(* Folders of the Space on show                                            *)

MakeFolder(ts) == ToSet(ts) \subseteq DOMAIN Here.tab /\ OnShow(CreateFolder(Here, ts))

SetFolderCollapsed(f, collapsed) ==
  OnShow([Here EXCEPT !.folders[f].collapsed = collapsed])

MoveFolderTo(f, place) == OnShow(MoveFolder(Here, f, place))
DropFolder(f) == OnShow(RemoveFolder(Here, f))
CloseWholeFolder(f, b) == OnShow(CloseFolder(Here, f, b))

Place(t, f, before) ==
  /\ Has(Here, t)
  /\ OnShow(PlaceTabs(Here, <<t>>, f, before))

-----------------------------------------------------------------------------
(* Tabs of a Space that is not on show, in its store                       *)

\* openTabInSpace: nothing about the new tab concerns the caches.
OpenInSpace(s, t) ==
  /\ Become([view EXCEPT ![s] = SaveAway(AppendTab(@, t, NewTab(TRUE)), None)])
  /\ UNCHANGED <<spaces, shown, caches>>

\* navigateTab
NavigateAway(s, t) ==
  /\ Has(view[s], t)
  /\ ~view[s].tab[t].pinned
  /\ InStore(s, SaveAway([view[s] EXCEPT !.tab[t].page = TRUE], None))

\* closeTabInSpace.  The closed page is recorded before the tabs are written,
\* and the second write can be refused.
CloseAway(s, t, b, refused) ==
  LET v == view[s]
      p == v.tab[t].partner
      next == IF p # None /\ Has(v, p) THEN p
              ELSE v.rows[IF Row(v, t) = 1 THEN 2 ELSE Row(v, t) - 1]
      left == IF v.active = t /\ Len(v.rows) > 1 THEN [v EXCEPT !.active = next] ELSE v
  IN  /\ Has(v, t)
      /\ ~v.tab[t].pinned
      /\ IF refused
         THEN /\ Become([view EXCEPT ![s] = Remember(v, t)])
              /\ UNCHANGED <<spaces, shown, caches>>
         ELSE InStore(s, SaveAway(RemoveRows(Unpair(Remember(left, t), t), {t}), b))

\* releaseRetainedTab
Release(s, t) ==
  /\ t \in retained
  /\ Has(view[s], t)
  /\ ~view[s].tab[t].popped
  /\ InStore(s, [view[s] EXCEPT !.tab[t].keep = FALSE])

\* popOutAwayTab: a Space left on the tab is left on the one closing it shows.
PopOutAway(s, t, b) ==
  LET v == view[s]
      next == Successor(v, t)
      out == [Unpair(v, t) EXCEPT !.tab[t].popped = TRUE]
      left == IF v.active # t THEN out
              ELSE IF next = None THEN OpenTab(out, b, FALSE)
              ELSE [out EXCEPT !.active = next]
  IN  /\ Has(v, t)
      /\ ~v.tab[t].popped
      /\ v.tab[t].page
      /\ InStore(s, SaveAway(left, None))

\* openTabWindow
OpenWindowAway(s, t) ==
  InStore(s, SaveAway(AppendTab(view[s], t, [NewTab(TRUE) EXCEPT !.popped = TRUE]), None))

\* putBackTab, through updateAwayTab, without showing it
PutBackAway(s, t) ==
  /\ Has(view[s], t)
  /\ view[s].tab[t].popped
  /\ InStore(s, SaveAway([view[s] EXCEPT !.tab[t].popped = FALSE], None))

-----------------------------------------------------------------------------
(* Putting unused tabs away                                                *)

\* Bug variant of PutAwayIn: the tabs go before the list is written.
PutAwayTabsFirst(v, onShow, old, refused) ==
  LET p == PutAway(v, old)
  IN  IF p = v THEN v
      ELSE IF onShow THEN p
      ELSE IF refused THEN [SaveAway(p, None) EXCEPT !.away = v.away] ELSE SaveAway(p, None)

\* putAwayUnusedTabsIn: the list is written before the tabs leave, and the
\* second write can be refused in a Space that is not on show.
PutAwayIn(v, onShow, old, refused) ==
  LET p == PutAway(v, old)
  IN  IF p = v THEN v
      ELSE IF onShow THEN p
      ELSE IF refused THEN [v EXCEPT !.away = p.away] ELSE SaveAway(p, None)

\* putAwayUnusedTabs, on its timer
PutAwayUnused(old, refused) ==
  LET after == [s \in DOMAIN view |-> PutAwayIn(view[s], s = shown, old, s \in refused)]
  IN  /\ Become(after)
      /\ windows' = TabWindows(after[shown], awayWindows)
      /\ UNCHANGED <<spaces, shown, retained, awayWindows>>

\* A page put away thirty days ago is let go.
Expire(s) ==
  /\ view[s].away > 0
  /\ Become([view EXCEPT ![s].away = @ - 1])
  /\ UNCHANGED <<spaces, shown, caches>>

-----------------------------------------------------------------------------
(* Spaces                                                                  *)

\* A Space coming on show: its tabs are loaded, unused ones are put away
\* everywhere, and the caches are read again.
ComeOnShow(views, s, b, old) ==
  LET arrived == [views EXCEPT ![s] = Arrive(@, b)]
      after == [x \in DOMAIN views |-> PutAwayIn(arrived[x], x = s, old, FALSE)]
  IN  /\ Become(after)
      /\ shown' = s
      /\ RefreshRetained(after, s)

SwitchSpace(s, b, old) ==
  /\ ComeOnShow([view EXCEPT ![shown] = Stored(@)], s, b, old)
  /\ UNCHANGED spaces

\* activateTabInSpace, and putBackTab when it shows the tab: the Space is
\* recorded as left on the tab and then switched to.
ActivateInSpace(s, t, b, old) ==
  LET v == view[s]
      left == SaveAway([Show(v, t) EXCEPT !.tab[t].popped = FALSE], None)
  IN  /\ Has(v, t)
      /\ ComeOnShow([view EXCEPT ![shown] = Stored(@), ![s] = left], s, b, old)
      /\ UNCHANGED spaces

\* createSpace: its first tab is made when it first comes on show.
CreateSpace(s) ==
  /\ spaces' = Append(spaces, s)
  /\ Become([x \in DOMAIN view \cup {s} |-> IF x = s THEN EmptyView ELSE view[x]])
  /\ UNCHANGED <<shown, caches>>

\* deleteSpace: the first other Space takes the place of the one on show.
DeleteSpace(s, b) ==
  LET rest == Without(spaces, {s})
      left == Restrict(view, DOMAIN view \ {s})
      on == IF s = shown THEN Head(rest) ELSE shown
      after == IF s = shown THEN [left EXCEPT ![on] = Arrive(@, b)] ELSE left
  IN  /\ rest # <<>>
      /\ spaces' = rest
      /\ Become(after)
      /\ shown' = on
      /\ RefreshRetained(after, on)

\* What is written of tabs that move: a split is not taken apart by moving both
\* of its halves, and ends when one of them goes.
Moved(v, ts) ==
  [t \in ts |-> IF v.tab[t].partner \in ts THEN v.tab[t]
                ELSE [v.tab[t] EXCEPT !.partner = None, !.focused = FALSE]]

\* saveSpaceMove, the destination's side: the tabs arrive at the end, and a
\* Space left on no tab is left on the first.
Receive(v, ts, records) ==
  LET joined == [v EXCEPT !.rows = @ \o ts,
                          !.tab = [t \in DOMAIN @ \cup ToSet(ts) |->
                                     IF t \in ToSet(ts) THEN records[t] ELSE @[t]]]
  IN  IF joined.rows = <<>> THEN joined
      ELSE Stored([joined EXCEPT !.active = IF Has(v, @) THEN @ ELSE joined.rows[1]])

\* Bug variant of MoveRows: the destination is written without the source.
MoveRowsToOnly(s, left, received) ==
  /\ Become([view EXCEPT ![s] = received])
  /\ RefreshRetained(view', shown)
  /\ UNCHANGED <<spaces, shown>>

\* saveSpaceMove: both Spaces are written in one transaction.
MoveRows(s, left, received) ==
  /\ Become([view EXCEPT ![shown] = left, ![s] = received])
  /\ RefreshRetained(view', shown)
  /\ UNCHANGED <<spaces, shown>>

\* confirmTabMoveToSpace
MoveTabToSpace(t, s, b) ==
  LET v == Here
      p == v.tab[t].partner
      rest == RemoveTab(Unpair(v, t), t)
      next == IF p # None THEN p
              ELSE IF FoldersHeld(v) THEN AfterLeaving(v, {t}) ELSE rest.rows[1]
      left == IF rest.rows = <<>> THEN OpenTab(rest, b, FALSE)
              ELSE IF t # v.active THEN rest
              ELSE IF next = None THEN OpenTab(rest, b, FALSE)
              ELSE [rest EXCEPT !.active = next]
  IN  /\ Has(v, t)
      /\ ~v.tab[t].popped
      /\ MoveRows(s, left, Receive(view[s], <<t>>, Moved(v, {t})))

\* confirmFolderMoveToSpace: a tab in a window of its own stays behind.
MoveFolderToSpace(f, s, b) ==
  LET v == Here
      ts == Without(v.folders[f].tabs, Popped(v))
      next == AfterLeaving(v, ToSet(ts))
      off == IF v.active \notin ToSet(ts) THEN v
             ELSE IF next = None THEN OpenTab(v, b, FALSE)
             ELSE [v EXCEPT !.active = next]
      gone == RemoveTabs(RemoveFolder(off, f), ToSet(ts))
      folder == [v.folders[f] EXCEPT !.tabs = ts]
      received == Receive([view[s] EXCEPT !.folders = Append(@, folder)], ts, Moved(v, ToSet(ts)))
  IN  MoveRows(s, Settle(gone), received)

-----------------------------------------------------------------------------
(* What Sync brings                                                        *)

\* restoreRemoteState, for one Space: its tabs and Folders as the checkout has
\* them.  Whether a tab is popped out is this machine's and stays; a pairing is
\* not in the records and is not asked of the store.  The tab on show, kept,
\* stays when the checkout lacks it.
Restored(v, rows, folders, kept) ==
  LET all == IF kept \in DOMAIN v.tab \ ToSet(rows) THEN Append(rows, kept) ELSE rows
      record(t) == IF t \notin ToSet(rows) THEN v.tab[t]
                   ELSE IF ~Has(v, t) THEN NewTab(TRUE)
                   ELSE [v.tab[t] EXCEPT !.partner = None, !.focused = FALSE]
  IN  Stored([v EXCEPT !.rows = all,
                       !.tab = [t \in ToSet(all) |-> record(t)],
                       !.active = IF @ \in ToSet(all) THEN @
                                  ELSE IF all = <<>> THEN None ELSE all[1],
                       !.folders = folders])

\* Bug variant of Reloaded: the Space stays on the tab it was on.
ReloadedOnPrevious(v, previous) ==
  ArrangeInFolders(RepairSplits([v EXCEPT !.active = previous]))

\* reloadSyncedState: the tabs of the Space on show as the store now has them.
Reloaded(v, previous) ==
  IF v.rows = <<>> THEN [v EXCEPT !.active = None, !.folders = ArrangeInFolders(v).folders]
  ELSE ArrangeInFolders(RepairSplits(
         [v EXCEPT !.active = IF Has(v, previous) THEN previous ELSE v.rows[1]]))

\* An applied checkout: Space s has the given tabs and Folders, the Spaces in
\* gone were deleted elsewhere, the others are as they were.
SyncApply(s, rows, folders, gone, adopt) ==
  LET rest == Without(spaces, gone)
      kept == IF adopt THEN None ELSE Here.active
      left == [x \in DOMAIN view \ gone |->
                 Restored(view[x], IF x = s THEN rows ELSE view[x].rows,
                          IF x = s THEN folders ELSE view[x].folders,
                          IF x = shown THEN kept ELSE None)]
      on == IF shown \in gone THEN Head(rest) ELSE shown
      after == [left EXCEPT ![on] = Reloaded(@, Here.active)]
  IN  /\ rest # <<>>
      /\ spaces' = rest
      /\ Become(after)
      /\ shown' = on
      /\ RefreshRetained(after, on)

\* What the checkout may hold of a Space: its tabs in another order, without
\* one, or with a new one; a Folder less, or one of a single tab.
RowsElsewhere(v) ==
  {v.rows, Reverse(v.rows)}
    \cup {Without(v.rows, {t}) : t \in ToSet(v.rows)}
    \cup {Append(v.rows, t) : t \in Fresh}

FoldersElsewhere(v) ==
  {<<>>} \cup {<<[tabs |-> <<t>>, collapsed |-> FALSE]>> : t \in DOMAIN v.tab}

-----------------------------------------------------------------------------
(* The specification                                                       *)

\* ensureDefaultSpace and ensureActiveTab, with an empty store
Init ==
  \E s \in Space, t \in Tab :
    /\ spaces = <<s>>
    /\ view = [x \in {s} |-> OpenTab(EmptyView, t, FALSE)]
    /\ shown = s
    /\ retained = {} /\ awayWindows = {} /\ windows = {}

LiveNext ==
  \/ \E t \in Fresh : Open(t) \/ OpenBehind(t) \/ OpenWindow(t)
                       \/ SplitNew(t) \/ ReopenClosed(t) \/ ReopenPutAway(t)
  \/ \E t \in Tab : Activate(t) \/ Split(t) \/ Separate(t)
  \/ \E t \in Tab, b \in Spare : Close(t, b) \/ CloseOther(t, b) \/ CloseUnder(t, b)
                                 \/ PopOutTab(t, b)
  \/ \E t \in Tab, new \in Fresh : DuplicateTab(t, new)
  \/ \E t \in Tab, place \in 1 .. Len(Here.rows) : Move(t, place)
  \/ \E t \in Tab, d \in {-1, 1} : MoveBy(t, d)
  \/ \E d \in {-1, 1} : Step(d)
  \/ \E t \in Tab, yes \in BOOLEAN : Navigate(t, yes) \/ PinTab(t, yes)
                                     \/ KeepActive(t, yes) \/ PutBack(t, yes)

FolderNext ==
  \/ \E ts \in {<<>>} \cup {<<t>> : t \in Tab} : MakeFolder(ts)
  \/ \E f \in DOMAIN Here.folders :
       \/ \E yes \in BOOLEAN : SetFolderCollapsed(f, yes)
       \/ \E place \in DOMAIN Here.folders : MoveFolderTo(f, place)
       \/ \E b \in Spare : CloseWholeFolder(f, b)
       \/ DropFolder(f)
  \/ \E t \in Tab, f \in 0 .. Len(Here.folders), before \in Tab \cup {None} :
       before # t /\ Place(t, f, before)

AwayNext ==
  \E s \in Away :
    \/ \E t \in Fresh : OpenInSpace(s, t) \/ OpenWindowAway(s, t)
    \/ \E t \in Tab : NavigateAway(s, t) \/ Release(s, t) \/ PutBackAway(s, t)
    \/ \E t \in Tab, b \in Spare : PopOutAway(s, t, b) \/ MoveTabToSpace(t, s, b)
    \/ \E t \in Tab, b \in Spare, refused \in BOOLEAN : CloseAway(s, t, b, refused)
    \/ \E f \in DOMAIN Here.folders, b \in Spare : MoveFolderToSpace(f, s, b)

SpaceNext ==
  \/ \E old \in {{t} : t \in Tab} \cup {Tab}, refused \in SUBSET Away : PutAwayUnused(old, refused)
  \/ \E s \in ToSet(spaces) : Expire(s)
  \/ \E s \in ToSet(spaces), b \in Spare, old \in {{}, Tab} :
       SwitchSpace(s, b, old) \* from one Space to another, or a restart on one
  \/ \E s \in Away, t \in Tab, b \in Spare, old \in {{}, Tab} : ActivateInSpace(s, t, b, old)
  \/ \E s \in Space \ ToSet(spaces) : CreateSpace(s)
  \/ \E s \in ToSet(spaces), b \in Spare : DeleteSpace(s, b)

\* A checkout that differs from the store in one Space's tabs, in its Folders,
\* or in the Spaces there are.
SyncNext ==
  \/ \E s \in ToSet(spaces), adopt \in BOOLEAN : \E rows \in RowsElsewhere(view[s]) :
       /\ adopt => s = shown
       /\ SyncApply(s, rows, view[s].folders, {}, adopt)
  \/ \E s \in ToSet(spaces) : \E folders \in FoldersElsewhere(view[s]) :
       SyncApply(s, view[s].rows, folders, {}, FALSE)
  \/ \E s \in ToSet(spaces) : SyncApply(s, view[s].rows, view[s].folders, {s}, FALSE)

Next == LiveNext \/ FolderNext \/ AwayNext \/ SpaceNext \/ SyncNext

Spec == Init /\ [][Next]_vars

-----------------------------------------------------------------------------
(* Properties                                                              *)

Folders == [tabs : Seq(Tab), collapsed : BOOLEAN]

ViewOK(v) ==
  /\ v.rows \in Seq(Tab)
  /\ DOMAIN v.tab = ToSet(v.rows)
  /\ Len(v.rows) = Cardinality(ToSet(v.rows))
  /\ \A t \in DOMAIN v.tab : v.tab[t] \in TabRecords
  /\ v.active \in ToSet(v.rows) \cup {None}
  /\ v.folders \in Seq(Folders)
  /\ v.closed \in 0 .. MaxClosed
  /\ v.away \in Nat

\* Every Space's tabs are listed once and described, and its active tab is one
\* of them, through every close, move, load and Sync.  (A Space that has not
\* been on show has none, and Sync can put one on show.)
TypeOK ==
  /\ DOMAIN view = ToSet(spaces)
  /\ ToSet(spaces) \subseteq Space
  /\ Len(spaces) = Cardinality(ToSet(spaces))
  /\ shown \in ToSet(spaces)
  /\ \A s \in DOMAIN view : ViewOK(view[s])
  /\ retained \subseteq Tab /\ awayWindows \subseteq Tab /\ windows \subseteq Tab

\* No tab is in two Spaces: a move writes both, and a refused write neither.
OneSpacePerTab ==
  \A s1, s2 \in DOMAIN view : s1 # s2 => DOMAIN view[s1].tab \cap DOMAIN view[s2].tab = {}

Whole(v, t) ==
  LET p == v.tab[t].partner
  IN  p # None => /\ p # t /\ Has(v, p)
                  /\ v.tab[p].partner = t
                  /\ ~v.tab[t].pinned
                  /\ v.tab[t].focused # v.tab[p].focused

\* A split on show is two unpinned tabs naming each other, one of them focused,
\* whatever closed, moved, was pinned or was brought by Sync: a tab that leaves
\* leaves its split too (pairTabs, unpairTab, repairSplits).
SplitsAreWhole == \A t \in DOMAIN Here.tab : Whole(Here, t)

\* The Folders on show name tabs that are there, unpinned and in no other
\* Folder, a split as one row; and while there are any, the sidebar is the
\* pins, the Folders' tabs and the loose tabs (settleFolders indexes the rows
\* by the Folders' ids).
FoldersHoldRows ==
  LET held == HeldRows(Here)
  IN  /\ Len(held) = Cardinality(ToSet(held))
      /\ \A t \in ToSet(held) : Has(Here, t) /\ ~Here.tab[t].pinned
      /\ \A t \in ToSet(held) : Here.tab[t].partner # None =>
           FolderOf(Here, Here.tab[t].partner) = FolderOf(Here, t)
      /\ FoldersHeld(Here) => Here.rows = Pins(Here) \o held \o Loose(Here)

\* The pins stand before the other rows (setTabPinned, moveTab, reopenTab).
PinsComeFirst == Here.rows = Pins(Here) \o Unpinned(Here)

\* The pages a window keeps running for the Spaces that are away, and the
\* windows it lists, are those the stores name (refreshRetainedTabs is called
\* by each route, refreshTabWindows by the live list).
CachesAreCurrent ==
  /\ retained = UNION {Retains(view[s]) : s \in Away}
  /\ windows = UNION {Popped(view[s]) : s \in DOMAIN view}

Pages(v) == Cardinality({t \in DOMAIN v.tab : v.tab[t].page}) + v.closed + v.away

SumPages(views) == MapThenSumSet(LAMBDA s : Pages(views[s]), DOMAIN views)

\* What the reader, Sync or time takes away on purpose, or the bound on the
\* closed pages does.
LetGo ==
  \/ \E s \in DOMAIN view' : view'[s].closed = MaxClosed
  \/ spaces' # spaces
  \/ \E s \in DOMAIN view : Expire(s)
  \/ \E t \in Tab : Navigate(t, FALSE)
  \/ SyncNext

\* A page that leaves the rows can be asked for again, among the closed pages
\* or the pages put away, or is in another Space, whatever write is refused.
PagesCanBeAskedFor == [][SumPages(view') >= SumPages(view) \/ LetGo]_vars

\* A split lasts while both of its tabs stay in the Space and neither is popped
\* out: through Space switches, restarts, moves and Folders.
SplitsLastBut(lets) ==
  \A s \in DOMAIN view \cap DOMAIN view' : \A t \in DOMAIN view[s].tab :
    LET v == view[s]
        w == view'[s]
        p == v.tab[t].partner
    IN  /\ p # None
        /\ Has(v, p) /\ Has(w, t) /\ Has(w, p)
        /\ w.tab[t].popped = v.tab[t].popped
        /\ w.tab[p].popped = v.tab[p].popped
        => w.tab[t].partner = p \/ lets

\* As above, when neither the reader separates it nor Sync applies a checkout.
SplitsLast == [][SplitsLastBut((\E t \in Tab : Separate(t)) \/ SyncNext)]_vars

=============================================================================
