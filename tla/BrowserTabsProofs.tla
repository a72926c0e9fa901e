--------------------------- MODULE BrowserTabsProofs ---------------------------
(***************************************************************************)
(* The Spaces of a window keep their tabs apart and in order, and the two  *)
(* caches the window reads of the Spaces that are away are what the stores *)
(* say: for any tabs, Spaces and Folders and whatever is switched, moved,  *)
(* deleted or brought by Sync.                                             *)
(*                                                                         *)
(* The invariant is Inv.  A Space that is away is only Parked: its rows    *)
(* list its tabs, and the splits and Folders are read as they are until it *)
(* comes on show.  The Space on show is Live: what TabRowsProofs shows of  *)
(* each operation of it.  The results suppose that the tab on show is not  *)
(* split while it is in a window of its own (~WindowsSplit): a split half  *)
(* that is popped out would stay behind when its Folder moves.             *)
(***************************************************************************)
EXTENDS BrowserTabs, TabRowsProofs

Disjoint(views) ==
  \A s1, s2 \in DOMAIN views : s1 # s2 => DOMAIN views[s1].tab \cap DOMAIN views[s2].tab = {}

\* The Spaces' tabs, whichever Space is on show.
Keep(views) ==
  /\ views = [s \in DOMAIN views |-> views[s]]
  /\ \A s \in DOMAIN views : Parked(views[s])
  /\ Disjoint(views)

\* The Spaces' tabs with on on show.
Settled(views, on) == Keep(views) /\ on \in DOMAIN views /\ Live(views[on])

\* No tab went without an id.
Named(views) == \A s \in DOMAIN views : None \notin DOMAIN views[s].tab

\* kept, away and all are what the Spaces' tabs say with on on show.
Cached(views, on, kept, away, all) ==
  /\ kept = UNION {Retains(views[s]) : s \in DOMAIN views \ {on}}
  /\ away = UNION {Popped(views[s]) : s \in DOMAIN views \ {on}}
  /\ all = TabWindows(views[on], away)

\* The inductive invariant.
Inv ==
  /\ Lists(spaces, DOMAIN view) /\ DOMAIN view \subseteq Space
  /\ Settled(view, shown) /\ Named(view)
  /\ Cached(view, shown, retained, awayWindows, windows)

\* Ids no Space has.
NewIds == {x \in Id : \A s \in DOMAIN view : x \notin DOMAIN view[s].tab}

-----------------------------------------------------------------------------
(* One Space or several change                                             *)

\* Ids that are in none of the Spaces.
FreeIn(views, N) == \A x \in DOMAIN views : N \cap DOMAIN views[x].tab = {}

\* One Space's tabs become v: it may gain tabs that were nowhere.
LEMMA Changed ==
  ASSUME NEW views, Keep(views), NEW s \in DOMAIN views, NEW v, Parked(v),
         NEW N, FreeIn(views, N), DOMAIN v.tab \subseteq DOMAIN views[s].tab \cup N
  PROVE  LET w == [views EXCEPT ![s] = v]
         IN  /\ Keep(w) /\ DOMAIN w = DOMAIN views /\ w[s] = v
             /\ \A x \in DOMAIN views \ {s} : w[x] = views[x]
<1> DEFINE w == [views EXCEPT ![s] = v]
<1>1. /\ views = [x \in DOMAIN views |-> views[x]]
      /\ \A x \in DOMAIN views : Parked(views[x])
      /\ Disjoint(views)
  BY DEF Keep
<1>2. /\ w = [x \in DOMAIN views |-> IF x = s THEN v ELSE views[x]]
      /\ DOMAIN w = DOMAIN views /\ w[s] = v
      /\ \A x \in DOMAIN views \ {s} : w[x] = views[x]
  BY <1>1
<1> HIDE DEF w
<1>3. Disjoint(w)
  <2> SUFFICES ASSUME NEW s1 \in DOMAIN views, NEW s2 \in DOMAIN views, s1 # s2
               PROVE  DOMAIN w[s1].tab \cap DOMAIN w[s2].tab = {}
    BY <1>2 DEF Disjoint
  <2>1. DOMAIN views[s1].tab \cap DOMAIN views[s2].tab = {}
    BY <1>1 DEF Disjoint
  <2>2. /\ N \cap DOMAIN views[s1].tab = {} /\ N \cap DOMAIN views[s2].tab = {}
    BY DEF FreeIn
  <2>3. CASE s1 # s /\ s2 # s
    BY <2>1, <2>3, <1>2
  <2>4. CASE s1 = s
    BY <2>1, <2>2, <2>4, <1>2
  <2>5. CASE s2 = s
    BY <2>1, <2>2, <2>5, <1>2
  <2> QED BY <2>3, <2>4, <2>5
<1>4. /\ w = [x \in DOMAIN w |-> w[x]]
      /\ \A x \in DOMAIN w : Parked(w[x])
  BY <1>1, <1>2
<1> QED BY <1>2, <1>3, <1>4 DEF w, Keep

\* Every Space's tabs are fewer.
LEMMA Lessened ==
  ASSUME NEW views, Keep(views), NEW w, w = [x \in DOMAIN views |-> w[x]],
         \A x \in DOMAIN views : Parked(w[x]) /\ DOMAIN w[x].tab \subseteq DOMAIN views[x].tab
  PROVE  Keep(w) /\ DOMAIN w = DOMAIN views
<1>1. DOMAIN w = DOMAIN views /\ w = [x \in DOMAIN w |-> w[x]]
  OBVIOUS
<1>2. Disjoint(w)
  BY <1>1 DEF Disjoint, Keep
<1> QED BY <1>1, <1>2 DEF Keep

\* Ids no Space has are in none of them, and a tab that has to be made gets one.
LEMMA NewOnes ==
  ASSUME Inv
  PROVE  /\ FreeIn(view, NewIds) /\ NewIds \subseteq Id
         /\ Fresh \subseteq NewIds /\ Fresh \subseteq Tab
         /\ Spare \subseteq NewIds
<1>1. FreeIn(view, NewIds) /\ NewIds \subseteq Id
  BY DEF FreeIn, NewIds
<1>2. Fresh \subseteq NewIds /\ Fresh \subseteq Tab
  BY DEF Fresh, Unused, Known, NewIds, Id
<1>3. Spare \subseteq NewIds
  BY <1>2 DEF Spare, NewIds, Id, Inv, Named
<1> QED BY <1>1, <1>2, <1>3

\* A step within the bounds.
LEMMA Becoming ==
  ASSUME NEW views, Become(views)
  PROVE  view' = views /\ Named(views)
BY DEF Become, InBounds, Named

\* The caches read again are what the Spaces say.
LEMMA Refreshed ==
  ASSUME NEW views, NEW on, Become(views), RefreshRetained(views, on), shown' = on,
         Settled(views, on), Lists(spaces', DOMAIN views), DOMAIN views \subseteq Space
  PROVE  Inv'
<1>1. view' = views /\ Named(views)
  BY Becoming
<1>2. Cached(views, on, retained', awayWindows', windows')
  BY DEF RefreshRetained, Cached
<1> QED BY <1>1, <1>2 DEF Inv

\* What the tabs on show may become.
Reached(v) == Live(v) /\ DOMAIN v.tab \subseteq DOMAIN Here.tab \cup NewIds

\* A step of the Space on show.
LEMMA OnShowKeeps ==
  ASSUME Inv, NEW v, OnShow(v), Reached(v)
  PROVE  Inv'
<1> DEFINE w == [view EXCEPT ![shown] = v]
<1>1. Keep(view) /\ shown \in DOMAIN view
  BY DEF Inv, Settled
<1>2. Parked(v) /\ Live(v) /\ DOMAIN v.tab \subseteq DOMAIN Here.tab \cup NewIds
  BY DEF Reached, Live, Body, Parked
<1>3. /\ Keep(w) /\ DOMAIN w = DOMAIN view /\ w[shown] = v
      /\ \A x \in DOMAIN view \ {shown} : w[x] = view[x]
  BY <1>1, <1>2, NewOnes, Changed DEF Here
<1> HIDE DEF w
<1>4. view' = w /\ Named(w)
  BY Becoming DEF OnShow, w
<1>5. /\ windows' = TabWindows(v, awayWindows) /\ spaces' = spaces /\ shown' = shown
      /\ retained' = retained /\ awayWindows' = awayWindows
  BY DEF OnShow
<1>6. Cached(w, shown, retained, awayWindows, TabWindows(v, awayWindows))
  BY <1>3 DEF Inv, Cached
<1>7. Settled(w, shown)
  BY <1>1, <1>2, <1>3 DEF Settled
<1> QED BY <1>3, <1>4, <1>5, <1>6, <1>7 DEF Inv

\* A step of a Space that is not on show.
LEMMA InStoreKeeps ==
  ASSUME Inv, NEW s \in Away, NEW v, InStore(s, v), Parked(v),
         DOMAIN v.tab \subseteq DOMAIN view[s].tab \cup NewIds
  PROVE  Inv'
<1> DEFINE w == [view EXCEPT ![s] = v]
<1>1. Keep(view) /\ s \in DOMAIN view /\ s # shown /\ shown \in DOMAIN view /\ Live(view[shown])
  BY DEF Inv, Settled, Away, Lists
<1>2. /\ Keep(w) /\ DOMAIN w = DOMAIN view
      /\ \A x \in DOMAIN view \ {s} : w[x] = view[x]
  BY <1>1, NewOnes, Changed
<1>3. Settled(w, shown)
  BY <1>1, <1>2 DEF Settled
<1>4. view' = w
  BY Becoming DEF InStore
<1>5. Become(w) /\ RefreshRetained(w, shown) /\ shown' = shown /\ spaces' = spaces
  BY <1>4 DEF InStore
<1> HIDE DEF w
<1> QED BY <1>2, <1>3, <1>5, Refreshed DEF Inv

-----------------------------------------------------------------------------
(* Tabs and Folders of the Space on show                                   *)

\* The tabs on show, and the ids that are new to them.
LEMMA ShownIs ==
  ASSUME Inv
  PROVE  /\ Live(Here) /\ Body(Here) /\ Listed(Here) /\ None \notin DOMAIN Here.tab
         /\ \A t \in Fresh : t \in Tab /\ t \in Tab \ DOMAIN Here.tab /\ t \in Id \ DOMAIN Here.tab
         /\ \A b \in Spare : b \in Id /\ b \in Id \ DOMAIN Here.tab
         /\ Fresh \subseteq NewIds /\ Spare \subseteq NewIds
         /\ \A t \in Tab : t # None
         /\ \A yes \in BOOLEAN : NewTab(yes) \in Records
<1>1. shown \in DOMAIN view /\ Live(Here) /\ None \notin DOMAIN Here.tab
  BY DEF Inv, Settled, Keep, Named, Here
<1>2. \A x \in NewIds : x \in Id \ DOMAIN Here.tab
  BY <1>1 DEF NewIds, Here
<1> QED BY <1>1, <1>2, NewOnes, NewTabs, TabAssumption DEF Live, Body, Id

\* A tab that opens in front.
LEMMA Opened ==
  ASSUME Inv, NEW v, Body(v), DOMAIN v.tab \subseteq DOMAIN Here.tab \cup NewIds,
         NEW t \in NewIds, t \in Id \ DOMAIN v.tab
  PROVE  Reached(OpenTab(v, t, TRUE)) /\ Reached(OpenTab(v, t, FALSE))
<1>1. \A page \in BOOLEAN : Reached(OpenTab(v, t, page))
  <2> TAKE page \in BOOLEAN
  <2>1. Live(OpenTab(v, t, page)) /\ DOMAIN OpenTab(v, t, page).tab = DOMAIN v.tab \cup {t}
    BY OpenKeeps
  <2> QED BY <2>1 DEF Reached
<1> QED BY <1>1

\* Opening in front, behind and in a window of its own.
LEMMA OpenSteps ==
  ASSUME Inv, NEW t \in Fresh, Open(t) \/ OpenBehind(t) \/ OpenWindow(t)
  PROVE  Inv'
<1>1. Reached(OpenTab(Here, t, TRUE))
  BY ShownIs, Opened
<1>2. \A rec \in Records : rec.partner = None /\ ~rec.pinned => Reached(AppendTab(Here, t, rec))
  <2> TAKE rec \in Records
  <2> HAVE rec.partner = None /\ ~rec.pinned
  <2>1. /\ Body(AppendTab(Here, t, rec)) /\ AppendTab(Here, t, rec).active = Here.active
        /\ DOMAIN AppendTab(Here, t, rec).tab = DOMAIN Here.tab \cup {t}
    BY ShownIs, Appending
  <2> QED BY <2>1, ShownIs DEF Reached, Live
<1>3. /\ Reached(AppendTab(Here, t, NewTab(TRUE)))
      /\ Reached(AppendTab(Here, t, [NewTab(TRUE) EXCEPT !.popped = TRUE]))
  BY <1>2, NewTabs
<1> QED BY <1>1, <1>3, OnShowKeeps DEF Open, OpenBehind, OpenWindow

\* Giving a page back.
LEMMA ReopenSteps ==
  ASSUME Inv, NEW t \in Fresh, ReopenClosed(t) \/ ReopenPutAway(t)
  PROVE  Inv'
<1> DEFINE c == Here.closed - 1
           a == Here.away - 1
           w == [Here EXCEPT !.closed = c]
           x == [Here EXCEPT !.away = a]
<1>1. CASE ReopenClosed(t)
  <2>1. c \in 0 .. MaxClosed /\ 0 \in Nat
    BY <1>1, ShownIs, TabAssumption DEF ReopenClosed, Listed, Described
  <2>2. OnShow(Reopen(w, t))
    BY <1>1 DEF ReopenClosed
  <2> HIDE DEF c
  <2>3. Body(w) /\ DOMAIN w.tab = DOMAIN Here.tab
    BY <2>1, ShownIs, Counting DEF Retabbed
  <2> HIDE DEF w
  <2>4. Reached(OpenTab(w, t, TRUE))
    BY <2>3, ShownIs, Opened
  <2> QED BY <2>2, <2>4, OnShowKeeps DEF Reopen
<1>2. CASE ReopenPutAway(t)
  <2>1. a \in Nat /\ 0 \in 0 .. MaxClosed
    BY <1>2, ShownIs, TabAssumption DEF ReopenPutAway, Listed, Described
  <2>2. OnShow(Reopen(x, t))
    BY <1>2 DEF ReopenPutAway
  <2> HIDE DEF a
  <2>3. Body(x) /\ DOMAIN x.tab = DOMAIN Here.tab
    BY <2>1, ShownIs, Counting DEF Retabbed
  <2> HIDE DEF x
  <2>4. Reached(OpenTab(x, t, TRUE))
    BY <2>3, ShownIs, Opened
  <2> QED BY <2>2, <2>4, OnShowKeeps DEF Reopen
<1> QED BY <1>1, <1>2

\* Showing another tab, and stepping to one.
LEMMA ActivateSteps ==
  ASSUME Inv, NEW t, Activate(t)
  PROVE  Inv'
<1>1. t \in DOMAIN Here.tab
  BY DEF Activate, Has
<1>2. Reached(Show(Here, t))
  BY <1>1, ShownIs, ShowKeeps DEF Reached, Retabbed
<1> QED BY <1>2, OnShowKeeps DEF Activate

\* Splitting with a blank tab or another one, and separating.
LEMMA SplitSteps ==
  ASSUME Inv, ~WindowsSplit
  PROVE  /\ \A t \in Fresh : SplitNew(t) => Inv'
         /\ \A t \in Tab : Split(t) \/ Separate(t) => Inv'
<1>1. ~InWindow /\ CanSplit(Here) => Selectable(Here, Here.active)
  BY ShownIs DEF InWindow, CanSplit, Selectable, Popped, Live
<1>2. ASSUME NEW t \in Fresh, SplitNew(t)
      PROVE  Inv'
  <2>1. CanSplit(Here) /\ Selectable(Here, Here.active)
    BY <1>1, <1>2 DEF SplitNew
  <2>2. Reached(SplitWithBlank(Here, t))
    BY <2>1, ShownIs, SplitWithBlankKeeps DEF Reached
  <2> QED BY <1>2, <2>2, OnShowKeeps DEF SplitNew
<1>3. ASSUME NEW t \in Tab, Split(t)
      PROVE  Inv'
  <2>1. t \in DOMAIN Here.tab /\ CanSplitWith(Here, t) /\ Selectable(Here, Here.active)
    BY <1>1, <1>3 DEF Split, Has, CanSplitWith
  <2>2. Reached(SplitWith(Here, t))
    BY <2>1, ShownIs, SplitWithKeeps DEF Reached
  <2> QED BY <1>3, <2>2, OnShowKeeps DEF Split
<1>4. ASSUME NEW t \in Tab, Separate(t)
      PROVE  Inv'
  <2>1. t \in DOMAIN Here.tab
    BY <1>4 DEF Separate, Has
  <2>2. /\ Body(Unpair(Here, t)) /\ Unpair(Here, t).active = Here.active
        /\ DOMAIN Unpair(Here, t).tab = DOMAIN Here.tab
    BY <2>1, ShownIs, UnpairKeeps DEF Retabbed
  <2>3. Reached(Unpair(Here, t))
    BY <2>2, ShownIs DEF Reached, Live
  <2> QED BY <1>4, <2>3, OnShowKeeps DEF Separate
<1> QED BY <1>2, <1>3, <1>4

\* Closing one tab or several, and taking one out.
LEMMA CloseSteps ==
  ASSUME Inv, NEW t \in Tab, NEW b \in Spare,
         Close(t, b) \/ CloseOther(t, b) \/ CloseUnder(t, b) \/ PopOutTab(t, b)
  PROVE  Inv'
<1>1. t \in DOMAIN Here.tab
  BY DEF Close, CloseOther, CloseUnder, PopOutTab, Has
<1>2. t # b /\ Restable(Here, b)
  BY <1>1, ShownIs DEF Restable
<1>3. Reached(CloseTab(Here, t, b))
  BY <1>2, ShownIs, CloseKeeps DEF Reached
<1>4. Reached(CloseOthers(Here, t, b)) /\ Reached(CloseBelow(Here, t, b))
  BY <1>1, ShownIs, SweepKeeps DEF Reached
<1>5. Reached(PopOut(Here, t, b))
  BY <1>1, ShownIs, PopOutKeeps DEF Reached
<1> QED BY <1>3, <1>4, <1>5, OnShowKeeps DEF Close, CloseOther, CloseUnder, PopOutTab

\* Copying, moving, pinning and marking.
LEMMA TabSteps ==
  ASSUME Inv, NEW t \in Tab
  PROVE  /\ \A new \in Fresh : DuplicateTab(t, new) => Inv'
         /\ \A place : Move(t, place) => Inv'
         /\ \A d : MoveBy(t, d) => Inv'
         /\ \A yes \in BOOLEAN :
              Navigate(t, yes) \/ PinTab(t, yes) \/ KeepActive(t, yes) \/ PutBack(t, yes) => Inv'
<1> SUFFICES ASSUME t \in DOMAIN Here.tab
             PROVE  /\ \A new \in Fresh : DuplicateTab(t, new) => Inv'
                    /\ \A place : Move(t, place) => Inv'
                    /\ \A d : MoveBy(t, d) => Inv'
                    /\ \A yes \in BOOLEAN :
                         Navigate(t, yes) \/ PinTab(t, yes) \/ KeepActive(t, yes) \/ PutBack(t, yes) => Inv'
  BY DEF DuplicateTab, Move, MoveBy, Navigate, PinTab, KeepActive, PutBack, Has
<1>1. \A new \in Fresh : Reached(Duplicate(Here, t, new))
  BY ShownIs, DuplicateKeeps DEF Reached
<1>2. \A place : Reached(MoveTab(Here, t, place))
  BY ShownIs, MoveTabKeeps DEF Reached
<1>3. \A d : Reached(MoveTabBy(Here, t, d))
  BY ShownIs, MoveTabByKeeps DEF Reached
<1>4. \A yes \in BOOLEAN : Here.tab[t].partner = None /\ Here.tab[t].pinned # yes
                             => Reached(SetPinned(Here, t, yes))
  BY ShownIs, SetPinnedKeeps DEF Reached
<1>5. \A yes \in BOOLEAN : /\ Reached([Here EXCEPT !.tab[t].page = yes])
                           /\ Reached([Here EXCEPT !.tab[t].keep = yes])
                           /\ Reached([Here EXCEPT !.tab[t].popped = FALSE])
  <2> TAKE yes \in BOOLEAN
  <2>1. /\ Live([Here EXCEPT !.tab[t].page = yes])
        /\ DOMAIN [Here EXCEPT !.tab[t].page = yes].tab = DOMAIN Here.tab
        /\ Live([Here EXCEPT !.tab[t].keep = yes])
        /\ DOMAIN [Here EXCEPT !.tab[t].keep = yes].tab = DOMAIN Here.tab
        /\ Live([Here EXCEPT !.tab[t].popped = FALSE])
        /\ DOMAIN [Here EXCEPT !.tab[t].popped = FALSE].tab = DOMAIN Here.tab
    BY ShownIs, MarksKeep
  <2> QED BY <2>1 DEF Reached
<1>6. Reached(Show([Here EXCEPT !.tab[t].popped = FALSE], t))
  BY ShownIs, PutBackKeeps DEF Reached
<1>7. \A new \in Fresh : DuplicateTab(t, new) => Inv'
  BY <1>1, OnShowKeeps DEF DuplicateTab
<1>8. \A place : Move(t, place) => Inv'
  BY <1>2, OnShowKeeps DEF Move
<1>9. \A d : MoveBy(t, d) => Inv'
  BY <1>3, OnShowKeeps DEF MoveBy
<1>10. ASSUME NEW yes \in BOOLEAN
       PROVE  /\ Navigate(t, yes) \/ KeepActive(t, yes) => Inv'
              /\ PinTab(t, yes) => Inv'
              /\ PutBack(t, yes) => Inv'
  <2>1. Navigate(t, yes) \/ KeepActive(t, yes) => Inv'
    BY <1>5, OnShowKeeps DEF Navigate, KeepActive
  <2>2. PinTab(t, yes) => Inv'
    BY <1>4, OnShowKeeps DEF PinTab
  <2>3. PutBack(t, yes) => Inv'
    BY <1>5, <1>6, OnShowKeeps DEF PutBack
  <2> QED BY <2>1, <2>2, <2>3
<1> QED BY <1>7, <1>8, <1>9, <1>10

\* Folders.
LEMMA FolderSteps ==
  ASSUME Inv, FolderNext
  PROVE  Inv'
<1>1. DOMAIN Here.folders = 1 .. Len(Here.folders) /\ Len(Here.folders) \in Nat
  BY ShownIs, FolderTabs DEF Listed
<1>2. \A ts \in Seq(Tab) : Reached(CreateFolder(Here, ts))
  BY ShownIs, CreateFolderKeeps DEF Reached
<1>3. ASSUME NEW ts \in {<<>>} \cup {<<t>> : t \in Tab}, MakeFolder(ts)
      PROVE  Inv'
  <2>1. ts \in Seq(Tab)
    <3>1. CASE ts = <<>>
      BY <3>1
    <3>2. CASE ts # <<>>
      <4>1. PICK t \in Tab : ts = <<t>>
        BY <1>3, <3>2
      <4> QED BY <4>1
    <3> QED BY <3>1, <3>2
  <2>2. Reached(CreateFolder(Here, ts))
    BY <2>1, <1>2
  <2> QED BY <1>3, <2>2, OnShowKeeps DEF MakeFolder
<1>4. ASSUME NEW f \in DOMAIN Here.folders
      PROVE  /\ \A yes \in BOOLEAN : SetFolderCollapsed(f, yes) => Inv'
             /\ \A place \in DOMAIN Here.folders : MoveFolderTo(f, place) => Inv'
             /\ \A b \in Spare : CloseWholeFolder(f, b) => Inv'
             /\ DropFolder(f) => Inv'
  <2>1. \A yes \in BOOLEAN : Reached([Here EXCEPT !.folders[f].collapsed = yes])
    BY <1>4, ShownIs, CollapseKeeps DEF Reached
  <2>2. \A place \in 1 .. Len(Here.folders) : Reached(MoveFolder(Here, f, place))
    BY <1>4, ShownIs, MoveFolderKeeps DEF Reached
  <2>3. \A b \in Spare : Reached(CloseFolder(Here, f, b))
    BY <1>4, ShownIs, CloseFolderKeeps DEF Reached
  <2>4. Reached(RemoveFolder(Here, f))
    BY <1>4, ShownIs, RemoveFolderKeeps DEF Reached
  <2>5. \A yes \in BOOLEAN : SetFolderCollapsed(f, yes) => Inv'
    BY <2>1, OnShowKeeps DEF SetFolderCollapsed
  <2>6. \A place \in DOMAIN Here.folders : MoveFolderTo(f, place) => Inv'
    BY <1>1, <2>2, OnShowKeeps DEF MoveFolderTo
  <2>7. \A b \in Spare : CloseWholeFolder(f, b) => Inv'
    BY <2>3, OnShowKeeps DEF CloseWholeFolder
  <2>8. DropFolder(f) => Inv'
    BY <2>4, OnShowKeeps DEF DropFolder
  <2> QED BY <2>5, <2>6, <2>7, <2>8
<1>5. ASSUME NEW t \in Tab, NEW f \in 0 .. Len(Here.folders), NEW before, Place(t, f, before)
      PROVE  Inv'
  <2>1. <<t>> \in Seq(Tab) /\ f \in {0} \cup DOMAIN Here.folders
    BY <1>1
  <2>2. Reached(PlaceTabs(Here, <<t>>, f, before))
    BY ZenonT(60), <2>1, ShownIs, PlaceTabsKeeps DEF Reached
  <2> QED BY <1>5, <2>2, OnShowKeeps DEF Place
<1> QED BY <1>3, <1>4, <1>5 DEF FolderNext

\* Every step of the Space on show.
LEMMA LiveSteps ==
  ASSUME Inv, ~WindowsSplit, LiveNext
  PROVE  Inv'
<1>1. ASSUME NEW t \in Fresh, Open(t) \/ OpenBehind(t) \/ OpenWindow(t)
                               \/ SplitNew(t) \/ ReopenClosed(t) \/ ReopenPutAway(t)
      PROVE  Inv'
  BY <1>1, OpenSteps, SplitSteps, ReopenSteps
<1>2. ASSUME NEW t \in Tab, Activate(t) \/ Split(t) \/ Separate(t)
      PROVE  Inv'
  BY <1>2, ActivateSteps, SplitSteps
<1>3. ASSUME NEW d \in {-1, 1}, Step(d)
      PROVE  Inv'
  BY <1>3, ActivateSteps DEF Step
<1> QED BY <1>1, <1>2, <1>3, CloseSteps, TabSteps DEF LiveNext

-----------------------------------------------------------------------------
(* Tabs of a Space that is not on show                                     *)

\* A stored tab navigated, no longer kept, or put back.
LEMMA MarksThere ==
  ASSUME NEW v, Listed(v), NEW t \in DOMAIN v.tab
  PROVE  LET w == [v EXCEPT !.tab[t].page = TRUE]
             x == [v EXCEPT !.tab[t].keep = FALSE]
             y == [v EXCEPT !.tab[t].popped = FALSE]
         IN  /\ Listed(w) /\ DOMAIN w.tab = DOMAIN v.tab /\ w.active = v.active
             /\ Listed(x) /\ DOMAIN x.tab = DOMAIN v.tab /\ x.active = v.active
             /\ Listed(y) /\ DOMAIN y.tab = DOMAIN v.tab /\ y.active = v.active
<1> DEFINE r1 == [v.tab[t] EXCEPT !.page = TRUE]
           r2 == [v.tab[t] EXCEPT !.keep = FALSE]
           r3 == [v.tab[t] EXCEPT !.popped = FALSE]
<1>1. /\ [v EXCEPT !.tab[t].page = TRUE] = [v EXCEPT !.tab[t] = r1]
      /\ [v EXCEPT !.tab[t].keep = FALSE] = [v EXCEPT !.tab[t] = r2]
      /\ [v EXCEPT !.tab[t].popped = FALSE] = [v EXCEPT !.tab[t] = r3]
  OBVIOUS
<1>2. v.tab[t] \in Records
  BY DEF Listed, Described
<1>3. r1 \in Records /\ r2 \in Records /\ r3 \in Records
  BY <1>2 DEF Records, TabRecords
<1> HIDE DEF r1, r2, r3
<1>4. \A rec \in Records : /\ Listed([v EXCEPT !.tab[t] = rec])
                           /\ DOMAIN [v EXCEPT !.tab[t] = rec].tab = DOMAIN v.tab
                           /\ [v EXCEPT !.tab[t] = rec].active = v.active
  BY RemakingOne
<1> QED BY <1>1, <1>3, <1>4

\* A stored tab more.
LEMMA AppendingThere ==
  ASSUME NEW v, Listed(v), NEW t \in Id \ DOMAIN v.tab, NEW rec \in Records
  PROVE  LET w == AppendTab(v, t, rec)
         IN  /\ Listed(w) /\ DOMAIN w.tab = DOMAIN v.tab \cup {t} /\ w.tab[t] = rec
             /\ \A u \in DOMAIN v.tab : w.tab[u] = v.tab[u]
<1>1. LET w == AppendTab(v, t, rec)
          x == [w EXCEPT !.active = t]
      IN  /\ Listed(w) /\ DOMAIN w.tab = DOMAIN v.tab \cup {t} /\ w.tab[t] = rec
          /\ \A u \in DOMAIN v.tab : w.tab[u] = v.tab[u]
          /\ w.active = v.active /\ w.folders = v.folders
          /\ Listed(x) /\ x.tab = w.tab /\ x.rows = w.rows /\ x.active = t
          /\ x.folders = v.folders
          /\ w.rows # <<>>
  BY OpeningThere
<1> QED BY <1>1

\* popOutAwayTab: the tab is in a window, and the Space is left on another.
LEMMA PopOutThere ==
  ASSUME NEW v, Listed(v), NEW t \in DOMAIN v.tab, NEW b \in Id \ DOMAIN v.tab
  PROVE  LET out == [Unpair(v, t) EXCEPT !.tab[t].popped = TRUE]
             next == Successor(v, t)
             left == IF v.active # t THEN out
                     ELSE IF next = None THEN OpenTab(out, b, FALSE)
                     ELSE [out EXCEPT !.active = next]
         IN  Listed(left) /\ DOMAIN left.tab \subseteq DOMAIN v.tab \cup {b}
<1> DEFINE u == Unpair(v, t)
           rec == [u.tab[t] EXCEPT !.popped = TRUE]
           out == [Unpair(v, t) EXCEPT !.tab[t].popped = TRUE]
           next == Successor(v, t)
           left == IF v.active # t THEN out
                   ELSE IF next = None THEN OpenTab(out, b, FALSE)
                   ELSE [out EXCEPT !.active = next]
<1>1. out = [u EXCEPT !.tab[t] = rec]
  OBVIOUS
<1>2. /\ Listed(u) /\ DOMAIN u.tab = DOMAIN v.tab
      /\ v.tab[t].partner # None => u.tab = [x \in DOMAIN v.tab |->
           IF x \in {t, v.tab[t].partner}
           THEN [v.tab[x] EXCEPT !.partner = None, !.focused = FALSE] ELSE v.tab[x]]
      /\ v.tab[t].partner = None => u.tab = v.tab
  BY ZenonT(60), MarkingThere
<1> HIDE DEF u
<1>3. u.tab[t] \in Records /\ v.tab[t] \in Records
  BY <1>2 DEF Listed, Described
<1>4. u.tab[t].partner = None
  <2>1. CASE v.tab[t].partner = None
    BY <1>2, <2>1
  <2>2. CASE v.tab[t].partner # None
    <3>1. u.tab[t] = [v.tab[t] EXCEPT !.partner = None, !.focused = FALSE]
      BY <1>2, <2>2
    <3> QED BY <1>3, <3>1 DEF Records, TabRecords
  <2> QED BY <2>1, <2>2
<1>5. rec \in Records
  BY <1>3, <1>4 DEF Records, TabRecords
<1> HIDE DEF rec, out
<1>6. Listed(out) /\ DOMAIN out.tab = DOMAIN v.tab
  <2>1. Listed(u) /\ t \in DOMAIN u.tab
    BY <1>2
  <2>2. \A x \in Records : /\ Listed([u EXCEPT !.tab[t] = x])
                           /\ DOMAIN [u EXCEPT !.tab[t] = x].tab = DOMAIN u.tab
    BY <2>1, RemakingOne
  <2> QED BY <1>1, <1>2, <1>5, <2>2
<1>7. Listed(OpenTab(out, b, FALSE)) /\ DOMAIN OpenTab(out, b, FALSE).tab = DOMAIN v.tab \cup {b}
  <2> DEFINE new == NewTab(FALSE)
  <2>1. new \in Records
    BY NewTabs
  <2> HIDE DEF new
  <2>2. /\ Listed([AppendTab(out, b, new) EXCEPT !.active = b])
        /\ DOMAIN [AppendTab(out, b, new) EXCEPT !.active = b].tab = DOMAIN v.tab \cup {b}
    BY <1>6, <2>1, OpeningThere
  <2> QED BY <2>2 DEF OpenTab, new
<1>8. Listed([out EXCEPT !.active = next]) /\ [out EXCEPT !.active = next].tab = out.tab
  <2> DEFINE x == [out EXCEPT !.active = next]
  <2>1. Described(x) /\ x.rows = out.rows /\ x.tab = out.tab
    BY <1>6, WithActive DEF Listed
  <2> HIDE DEF x
  <2>2. Listed(x) /\ x.tab = out.tab
    BY <1>6, <2>1 DEF Listed
  <2> QED BY <2>2 DEF x
<1>9. Listed(left) /\ DOMAIN left.tab \subseteq DOMAIN v.tab \cup {b}
  BY <1>6, <1>7, <1>8
<1> QED BY <1>9 DEF left, out

\* closeTabInSpace: the tab goes, out of its split and remembered.
LEMMA CloseThere ==
  ASSUME NEW v, Listed(v), NEW t \in DOMAIN v.tab, NEW next
  PROVE  LET left == IF v.active = t /\ Len(v.rows) > 1 THEN [v EXCEPT !.active = next] ELSE v
             w == RemoveRows(Unpair(Remember(left, t), t), {t})
         IN  Listed(w) /\ DOMAIN w.tab = DOMAIN v.tab \ {t}
<1> DEFINE left == IF v.active = t /\ Len(v.rows) > 1 THEN [v EXCEPT !.active = next] ELSE v
           r == Remember(left, t)
           u == Unpair(r, t)
           T == {t}
           w == RemoveRows(u, T)
<1>1. Listed(left) /\ left.tab = v.tab
  <2> DEFINE x == [v EXCEPT !.active = next]
  <2>1. Described(x) /\ x.rows = v.rows /\ x.tab = v.tab
    BY WithActive DEF Listed
  <2> HIDE DEF x
  <2>2. Listed(x) /\ x.tab = v.tab
    BY <2>1 DEF Listed
  <2> QED BY <2>2 DEF x
<1> HIDE DEF left
<1>2. Listed(r) /\ r.tab = v.tab
  BY <1>1, RememberThere
<1> HIDE DEF r
<1>3. Listed(u) /\ DOMAIN u.tab = DOMAIN v.tab
  BY ZenonT(60), <1>2, MarkingThere
<1> HIDE DEF u, T
<1>4. Listed(w) /\ DOMAIN w.tab = DOMAIN v.tab \ T
  BY <1>3, RowsGone
<1> QED BY <1>4 DEF T, u, r, left

\* The tabs of a Space that is away, and the ids that are new to them.
LEMMA AwayIs ==
  ASSUME Inv, NEW s \in Away
  PROVE  /\ s \in DOMAIN view /\ s # shown /\ shown \in DOMAIN view
         /\ Parked(view[s]) /\ Listed(view[s])
         /\ None \notin DOMAIN view[s].tab /\ None \in Id /\ None \in NewIds
         /\ Fresh \subseteq NewIds /\ Spare \subseteq NewIds
         /\ \A t \in Fresh : t \in Id \ DOMAIN view[s].tab /\ t # None
         /\ \A b \in Spare : b \in Id \ DOMAIN view[s].tab
<1>1. s \in DOMAIN view /\ s # shown /\ shown \in DOMAIN view
  BY DEF Inv, Settled, Away, Lists
<1>2. Parked(view[s]) /\ None \notin DOMAIN view[s].tab
  BY <1>1 DEF Inv, Settled, Keep, Named
<1>3. \A x \in NewIds : x \in Id \ DOMAIN view[s].tab
  BY <1>1 DEF NewIds
<1>4. None \in Id /\ None \in NewIds
  BY DEF NewIds, Id, Inv, Named
<1> QED BY <1>1, <1>2, <1>3, <1>4, NewOnes, TabAssumption DEF Parked

\* What the tabs of a Space that is away may become.
ReachedIn(s, v) == Listed(v) /\ DOMAIN v.tab \subseteq DOMAIN view[s].tab \cup NewIds

\* Its tabs are written, and the caches read again.
LEMMA SaveAwaySteps ==
  ASSUME Inv, NEW s \in Away, NEW v, ReachedIn(s, v), NEW b \in NewIds, InStore(s, SaveAway(v, b))
  PROVE  Inv'
<1> DEFINE w == SaveAway(v, b)
<1>1. Listed(v) /\ b \in Id /\ DOMAIN v.tab \subseteq DOMAIN view[s].tab \cup NewIds
  BY NewOnes DEF ReachedIn
<1>2. Parked(w) /\ DOMAIN w.tab \subseteq DOMAIN v.tab \cup {b}
  BY <1>1, SaveAwayKeeps
<1>3. InStore(s, w)
  OBVIOUS
<1> HIDE DEF w
<1> QED BY <1>1, <1>2, <1>3, InStoreKeeps

\* Each of them with the caches read again.
LEMMA AwaySteps ==
  ASSUME Inv, NEW s \in Away
  PROVE  /\ \A t \in Fresh : OpenWindowAway(s, t) => Inv'
         /\ \A t \in Tab : NavigateAway(s, t) \/ Release(s, t) \/ PutBackAway(s, t) => Inv'
         /\ \A t \in Tab, b \in Spare :
              PopOutAway(s, t, b) \/ CloseAway(s, t, b, FALSE) => Inv'
<1> DEFINE v == view[s]
<1>1. Listed(v) /\ Parked(v) /\ None \in NewIds /\ Spare \subseteq NewIds
  BY AwayIs
<1>2. ASSUME NEW t \in Fresh, OpenWindowAway(s, t)
      PROVE  Inv'
  <2> DEFINE rec == [NewTab(TRUE) EXCEPT !.popped = TRUE]
             w == AppendTab(v, t, rec)
  <2>1. rec \in Records /\ t \in Id \ DOMAIN v.tab /\ t \in NewIds
    BY AwayIs, NewTabs
  <2>2. InStore(s, SaveAway(w, None))
    BY <1>2 DEF OpenWindowAway
  <2> HIDE DEF rec, v
  <2>3. Listed(w) /\ DOMAIN w.tab = DOMAIN v.tab \cup {t}
    BY <1>1, <2>1, AppendingThere
  <2> HIDE DEF w
  <2>4. ReachedIn(s, w)
    BY <2>1, <2>3 DEF ReachedIn, v
  <2> QED BY <1>1, <2>2, <2>4, SaveAwaySteps
<1>3. ASSUME NEW t \in Tab, NavigateAway(s, t) \/ Release(s, t) \/ PutBackAway(s, t)
      PROVE  Inv'
  <2> DEFINE w == [v EXCEPT !.tab[t].page = TRUE]
             x == [v EXCEPT !.tab[t].keep = FALSE]
             y == [v EXCEPT !.tab[t].popped = FALSE]
  <2>1. t \in DOMAIN v.tab
    BY <1>3 DEF NavigateAway, Release, PutBackAway, Has
  <2>2. \/ InStore(s, SaveAway(w, None))
        \/ InStore(s, x)
        \/ InStore(s, SaveAway(y, None))
    BY <1>3 DEF NavigateAway, Release, PutBackAway
  <2> HIDE DEF v
  <2>3. /\ Listed(w) /\ DOMAIN w.tab = DOMAIN v.tab
        /\ Listed(x) /\ DOMAIN x.tab = DOMAIN v.tab /\ x.active = v.active
        /\ Listed(y) /\ DOMAIN y.tab = DOMAIN v.tab
    BY <1>1, <2>1, MarksThere
  <2> HIDE DEF w, x, y
  <2>4. /\ ReachedIn(s, w) /\ ReachedIn(s, y)
        /\ Parked(x) /\ DOMAIN x.tab \subseteq DOMAIN view[s].tab \cup NewIds
    BY <1>1, <2>3 DEF ReachedIn, Parked, v
  <2> QED BY <1>1, <2>2, <2>4, SaveAwaySteps, InStoreKeeps
<1>4. ASSUME NEW t \in Tab, NEW b \in Spare, PopOutAway(s, t, b)
      PROVE  Inv'
  <2> DEFINE out == [Unpair(v, t) EXCEPT !.tab[t].popped = TRUE]
             next == Successor(v, t)
             left == IF v.active # t THEN out
                     ELSE IF next = None THEN OpenTab(out, b, FALSE)
                     ELSE [out EXCEPT !.active = next]
  <2>1. t \in DOMAIN v.tab /\ InStore(s, SaveAway(left, None))
    BY <1>4 DEF PopOutAway, Has
  <2>2. b \in Id \ DOMAIN v.tab /\ b \in NewIds
    BY AwayIs
  <2> HIDE DEF v
  <2>3. Listed(left) /\ DOMAIN left.tab \subseteq DOMAIN v.tab \cup {b}
    BY <1>1, <2>1, <2>2, PopOutThere
  <2> HIDE DEF left
  <2>4. ReachedIn(s, left)
    BY <2>2, <2>3 DEF ReachedIn, v
  <2> QED BY <1>1, <2>1, <2>4, SaveAwaySteps
<1>5. ASSUME NEW t \in Tab, NEW b \in Spare, CloseAway(s, t, b, FALSE)
      PROVE  Inv'
  <2> DEFINE p == v.tab[t].partner
             next == IF p # None /\ Has(v, p) THEN p
                     ELSE v.rows[IF Row(v, t) = 1 THEN 2 ELSE Row(v, t) - 1]
             left == IF v.active = t /\ Len(v.rows) > 1 THEN [v EXCEPT !.active = next] ELSE v
             w == RemoveRows(Unpair(Remember(left, t), t), {t})
  <2>1. t \in DOMAIN v.tab /\ InStore(s, SaveAway(w, b)) /\ b \in NewIds
    BY <1>1, <1>5 DEF CloseAway, Has
  <2> HIDE DEF v, next
  <2>2. Listed(w) /\ DOMAIN w.tab = DOMAIN v.tab \ {t}
    BY <1>1, <2>1, CloseThere
  <2> HIDE DEF w
  <2>3. ReachedIn(s, w)
    BY <2>2 DEF ReachedIn, v
  <2> QED BY <2>1, <2>3, SaveAwaySteps
<1> QED BY <1>2, <1>3, <1>4, <1>5

-----------------------------------------------------------------------------
(* Steps after which the caches are not read again                         *)

\* What the caches hold of a Space is the same.
SamePages(v, w) == Retains(w) = Retains(v) /\ Popped(w) = Popped(v)

\* Tabs that come or go and are not pinned or in windows are in neither cache.
LEMMA OtherTabs ==
  ASSUME NEW v, NEW w,
         \A t \in DOMAIN v.tab \cap DOMAIN w.tab : w.tab[t] = v.tab[t],
         \A t \in DOMAIN v.tab \ DOMAIN w.tab : ~v.tab[t].pinned /\ ~v.tab[t].popped,
         \A t \in DOMAIN w.tab \ DOMAIN v.tab : ~w.tab[t].pinned /\ ~w.tab[t].popped
  PROVE  SamePages(v, w)
BY DEF SamePages, Retains, Popped

\* The caches stay what the Spaces say.
LEMMA CachesKept ==
  ASSUME Inv, NEW views, Become(views), Keep(views), DOMAIN views = DOMAIN view,
         Live(views[shown]), UNCHANGED <<spaces, shown, retained, awayWindows>>,
         windows' = TabWindows(views[shown], awayWindows),
         \A s \in DOMAIN view \ {shown} : SamePages(view[s], views[s])
  PROVE  Inv'
<1>1. view' = views /\ Named(views) /\ Settled(views, shown)
  BY Becoming DEF Settled, Inv
<1>2. /\ {Retains(views[s]) : s \in DOMAIN view \ {shown}}
           = {Retains(view[s]) : s \in DOMAIN view \ {shown}}
      /\ {Popped(views[s]) : s \in DOMAIN view \ {shown}}
           = {Popped(view[s]) : s \in DOMAIN view \ {shown}}
  BY DEF SamePages
<1>3. Cached(views, shown, retained, awayWindows, TabWindows(views[shown], awayWindows))
  BY <1>2 DEF Cached, Inv
<1> QED BY <1>1, <1>3 DEF Inv

\* One Space changes and its pages stay.
LEMMA OneKept ==
  ASSUME Inv, NEW s \in DOMAIN view, NEW v, Become([view EXCEPT ![s] = v]),
         Parked(v), s = shown => Live(v), DOMAIN v.tab \subseteq DOMAIN view[s].tab \cup NewIds,
         SamePages(view[s], v), UNCHANGED <<spaces, shown, caches>>
  PROVE  Inv'
<1> DEFINE w == [view EXCEPT ![s] = v]
<1>1. Keep(view) /\ shown \in DOMAIN view /\ Live(view[shown]) /\ windows = TabWindows(view[shown], awayWindows)
  BY DEF Inv, Settled, Cached
<1>2. /\ Keep(w) /\ DOMAIN w = DOMAIN view /\ w[s] = v
      /\ \A x \in DOMAIN view \ {s} : w[x] = view[x]
  BY <1>1, NewOnes, Changed
<1>3. Become(w)
  OBVIOUS
<1> HIDE DEF w
<1>4. Live(w[shown]) /\ \A x \in DOMAIN view : SamePages(view[x], w[x])
  BY <1>1, <1>2 DEF SamePages
<1>5. windows' = TabWindows(w[shown], awayWindows)
  BY <1>1, <1>4 DEF SamePages, TabWindows, caches
<1> QED BY <1>2, <1>3, <1>4, <1>5, CachesKept DEF caches

\* A tab more in a Space that is away.
LEMMA OpenInSpaceStep ==
  ASSUME Inv, NEW s \in Away, NEW t \in Fresh, OpenInSpace(s, t)
  PROVE  Inv'
<1> DEFINE v == view[s]
           rec == NewTab(TRUE)
           x == AppendTab(v, t, rec)
           w == SaveAway(x, None)
<1>1. /\ s \in DOMAIN view /\ s # shown /\ Listed(v) /\ t \in Id \ DOMAIN v.tab /\ t \in NewIds
      /\ None \in NewIds /\ None \in Id
  BY AwayIs
<1>2. rec \in Records /\ ~rec.pinned /\ ~rec.popped
  BY NewTabs
<1>3. Become([view EXCEPT ![s] = w]) /\ UNCHANGED <<spaces, shown, caches>>
  BY DEF OpenInSpace
<1> HIDE DEF v, rec
<1>4. /\ Listed(x) /\ DOMAIN x.tab = DOMAIN v.tab \cup {t} /\ x.tab[t] = rec
      /\ \A u \in DOMAIN v.tab : x.tab[u] = v.tab[u]
  BY <1>1, <1>2, AppendingThere
<1> HIDE DEF x
<1>5. /\ Parked(w) /\ DOMAIN w.tab \subseteq DOMAIN x.tab \cup {None}
      /\ None \notin DOMAIN w.tab => w.tab = x.tab
  BY <1>1, <1>4, SaveAwayKeeps
<1> HIDE DEF w
<1>6. None \notin DOMAIN w.tab
  <2>1. Named([view EXCEPT ![s] = w])
    BY <1>3, Becoming
  <2> QED BY <1>1, <2>1 DEF Named
<1>7. SamePages(v, w)
  BY <1>1, <1>2, <1>4, <1>5, <1>6, OtherTabs
<1>8. DOMAIN w.tab \subseteq DOMAIN view[s].tab \cup NewIds
  BY <1>1, <1>4, <1>5 DEF v
<1> QED BY <1>1, <1>3, <1>5, <1>7, <1>8, OneKept DEF v

\* A close that is refused after the page was remembered.
LEMMA RefusedCloseStep ==
  ASSUME Inv, NEW s \in Away, NEW t, NEW b, CloseAway(s, t, b, TRUE)
  PROVE  Inv'
<1> DEFINE v == view[s]
           w == Remember(v, t)
<1>1. s \in DOMAIN view /\ s # shown /\ Listed(v) /\ Parked(v)
  BY AwayIs
<1>2. Become([view EXCEPT ![s] = w]) /\ UNCHANGED <<spaces, shown, caches>>
  BY DEF CloseAway
<1> HIDE DEF v
<1>3. Listed(w) /\ w.tab = v.tab /\ w.active = v.active
  BY <1>1, RememberThere
<1> HIDE DEF w
<1>4. Parked(w) /\ SamePages(v, w)
  BY <1>1, <1>3 DEF Parked, SamePages, Retains, Popped
<1> QED BY <1>1, <1>2, <1>3, <1>4, OneKept DEF v

\* A page put away is let go.
LEMMA ExpireStep ==
  ASSUME Inv, NEW s \in ToSet(spaces), Expire(s)
  PROVE  Inv'
<1> DEFINE v == view[s]
           a == v.away - 1
           w == [v EXCEPT !.away = a]
<1>1. s \in DOMAIN view /\ Parked(v) /\ Listed(v) /\ (s = shown => Live(v))
  BY DEF Inv, Settled, Keep, Parked, Lists
<1>2. a \in Nat /\ 0 \in 0 .. MaxClosed
  BY <1>1, TabAssumption DEF Expire, Listed, Described
<1>3. Become([view EXCEPT ![s] = w]) /\ UNCHANGED <<spaces, shown, caches>>
  <2>1. [view EXCEPT ![s].away = @ - 1] = [view EXCEPT ![s] = w]
    OBVIOUS
  <2> QED BY <2>1 DEF Expire
<1> HIDE DEF v, a
<1>4. Listed(w) /\ w.tab = v.tab /\ w.active = v.active
  BY <1>1, <1>2, CountingThere
<1>5. s = shown => Live(w)
  <2>1. s = shown => Body(v)
    BY <1>1 DEF Live
  <2>2. s = shown => Body(w)
    BY <1>2, <2>1, Counting
  <2> HIDE DEF w
  <2> QED BY <1>1, <1>4, <2>2 DEF Live
<1> HIDE DEF w
<1>6. Parked(w) /\ SamePages(v, w)
  BY <1>1, <1>4 DEF Parked, SamePages, Retains, Popped
<1> QED BY <1>1, <1>3, <1>4, <1>5, <1>6, OneKept DEF v

-----------------------------------------------------------------------------
(* Putting away, and a Space coming on show                                *)

\* What putAwayUnusedTabsIn leaves of a Space.
LEMMA PutAwayInKeeps ==
  ASSUME NEW v, Parked(v), None \notin DOMAIN v.tab, NEW onShow \in BOOLEAN,
         onShow => Live(v), NEW old, NEW refused
  PROVE  LET w == PutAwayIn(v, onShow, old, refused)
         IN  /\ onShow => Live(w)
             /\ None \notin DOMAIN w.tab => /\ Parked(w) /\ DOMAIN w.tab \subseteq DOMAIN v.tab
                                            /\ SamePages(v, w)
<1> DEFINE p == PutAway(v, old)
           a == p.away
           r == [v EXCEPT !.away = a]
           k == SaveAway(p, None)
           w == PutAwayIn(v, onShow, old, refused)
<1>1. Listed(v) /\ v.active \in DOMAIN v.tab \cup {None}
  BY DEF Parked
<1>2. /\ Parked(p) /\ Listed(p) /\ DOMAIN p.tab \subseteq DOMAIN v.tab
      /\ \A t \in DOMAIN p.tab : p.tab[t] = v.tab[t]
      /\ \A t \in DOMAIN v.tab \ DOMAIN p.tab : ~v.tab[t].pinned /\ ~v.tab[t].popped
      /\ Live(v) => Live(p)
      /\ a \in Nat
  BY PutAwayKeeps DEF Parked
<1>3. w = IF p = v THEN v ELSE IF onShow THEN p ELSE IF refused THEN r ELSE k
  BY DEF PutAwayIn
<1> HIDE DEF p, a, w
<1>4. SamePages(v, p) /\ SamePages(v, v)
  BY <1>2, OtherTabs DEF SamePages
<1>5. Parked(r) /\ r.tab = v.tab
  <2>1. 0 \in 0 .. MaxClosed
    BY TabAssumption
  <2>2. Listed(r) /\ r.tab = v.tab /\ r.active = v.active
    BY <1>1, <1>2, <2>1, CountingThere
  <2> QED BY <1>1, <2>2 DEF Parked
<1> HIDE DEF r
<1>6. Parked(k) /\ (None \notin DOMAIN k.tab => k.tab = p.tab)
  <2>1. None \in Id
    BY DEF Id
  <2> QED BY <1>2, <2>1, SaveAwayKeeps
<1> HIDE DEF k
<1>7. SamePages(v, r) /\ (None \notin DOMAIN k.tab => SamePages(v, k))
  BY <1>4, <1>5, <1>6 DEF SamePages, Retains, Popped
<1>8. CASE p = v
  BY <1>3, <1>4, <1>8 DEF w
<1>9. CASE p # v /\ onShow
  BY <1>2, <1>3, <1>4, <1>9 DEF w
<1>10. CASE p # v /\ ~onShow /\ refused
  BY <1>3, <1>5, <1>7, <1>10 DEF w
<1>11. CASE p # v /\ ~onShow /\ ~refused
  BY <1>2, <1>3, <1>6, <1>7, <1>11 DEF w
<1> QED BY <1>8, <1>9, <1>10, <1>11

\* putAwayUnusedTabs, on its timer.
LEMMA PutAwayStep ==
  ASSUME Inv, NEW old, NEW refused, PutAwayUnused(old, refused)
  PROVE  Inv'
<1> DEFINE after == [s \in DOMAIN view |-> PutAwayIn(view[s], s = shown, old, s \in refused)]
<1>1. /\ Become(after) /\ windows' = TabWindows(after[shown], awayWindows)
      /\ UNCHANGED <<spaces, shown, retained, awayWindows>>
  BY DEF PutAwayUnused
<1>2. /\ Keep(view) /\ shown \in DOMAIN view /\ Live(view[shown])
      /\ \A s \in DOMAIN view : Parked(view[s]) /\ None \notin DOMAIN view[s].tab
  BY DEF Inv, Settled, Keep, Named
<1>3. /\ DOMAIN after = DOMAIN view /\ after = [x \in DOMAIN view |-> after[x]]
      /\ \A s \in DOMAIN view : after[s] = PutAwayIn(view[s], s = shown, old, s \in refused)
  OBVIOUS
<1> HIDE DEF after
<1>4. Named(after)
  BY <1>1, Becoming
<1>5. \A s \in DOMAIN view : /\ Parked(after[s]) /\ DOMAIN after[s].tab \subseteq DOMAIN view[s].tab
                             /\ SamePages(view[s], after[s])
                             /\ s = shown => Live(after[s])
  <2> TAKE s \in DOMAIN view
  <2> DEFINE on == s = shown
             re == s \in refused
  <2>1. on \in BOOLEAN /\ (on => Live(view[s])) /\ Parked(view[s]) /\ None \notin DOMAIN view[s].tab
    BY <1>2
  <2>2. after[s] = PutAwayIn(view[s], on, old, re) /\ None \notin DOMAIN after[s].tab
    BY <1>3, <1>4 DEF Named
  <2>3. s = shown => on
    OBVIOUS
  <2> HIDE DEF on, re
  <2> QED BY <2>1, <2>2, <2>3, PutAwayInKeeps
<1>6. Keep(after)
  BY <1>2, <1>3, <1>5, Lessened
<1> QED BY <1>1, <1>2, <1>3, <1>5, <1>6, CachesKept

\* A Space that comes on show has the id of every tab it is given.
LEMMA ArrivedNamed ==
  ASSUME NEW v, Parked(v), None \notin DOMAIN v.tab, NEW b \in Id \ DOMAIN v.tab, NEW old,
         None \notin DOMAIN PutAwayIn(Arrive(v, b), TRUE, old, FALSE).tab
  PROVE  LET w == Arrive(v, b)
         IN  /\ None \notin DOMAIN w.tab /\ Live(w) /\ Parked(w)
             /\ DOMAIN w.tab \subseteq DOMAIN v.tab \cup {b}
<1> DEFINE w == Arrive(v, b)
<1>1. /\ Fields(w) /\ DOMAIN w.tab \subseteq DOMAIN v.tab \cup {b}
      /\ None \in DOMAIN w.tab => w.active = None
      /\ None \notin DOMAIN w.tab => Live(w)
  BY ArriveKeeps
<1>2. None \notin DOMAIN PutAwayIn(w, TRUE, old, FALSE).tab
  OBVIOUS
<1> HIDE DEF w
<1>3. None \notin DOMAIN w.tab
  <2> SUFFICES ASSUME None \in DOMAIN w.tab PROVE FALSE
    OBVIOUS
  <2>1. None \in DOMAIN PutAway(w, old).tab
    BY <1>1, ActiveStays
  <2> QED BY <1>2, <2>1 DEF PutAwayIn
<1> QED BY <1>1, <1>3 DEF w, Live, Body, Parked

\* A Space coming on show, with the Spaces' tabs as they are or fewer.
LEMMA ComeOnShowKeeps ==
  ASSUME Inv, NEW views, Keep(views), DOMAIN views = DOMAIN view,
         \A x \in DOMAIN view : DOMAIN views[x].tab \subseteq DOMAIN view[x].tab,
         NEW s \in DOMAIN view, NEW b \in Spare, NEW old, ComeOnShow(views, s, b, old),
         spaces' = spaces
  PROVE  Inv'
<1> DEFINE v == views[s]
           A == Arrive(v, b)
           arrived == [views EXCEPT ![s] = A]
           after == [x \in DOMAIN views |-> PutAwayIn(arrived[x], x = s, old, FALSE)]
<1>1. Become(after) /\ shown' = s /\ RefreshRetained(after, s)
  BY DEF ComeOnShow
<1>2. /\ Parked(v) /\ None \notin DOMAIN v.tab /\ b \in Id \ DOMAIN v.tab
      /\ \A x \in DOMAIN view : None \notin DOMAIN views[x].tab
      /\ FreeIn(views, NewIds) /\ b \in NewIds
  <2>1. /\ \A x \in DOMAIN view : None \notin DOMAIN views[x].tab
        /\ FreeIn(views, NewIds) /\ b \in NewIds /\ b \in Id
    BY NewOnes DEF FreeIn, Inv, Named
  <2> QED BY <2>1 DEF Keep, FreeIn
<1>3. Named(after)
  BY <1>1, Becoming
<1>4. /\ DOMAIN after = DOMAIN view /\ after = [x \in DOMAIN view |-> after[x]]
      /\ \A x \in DOMAIN view : after[x] = PutAwayIn(arrived[x], x = s, old, FALSE)
      /\ DOMAIN arrived = DOMAIN view /\ arrived[s] = A
      /\ \A x \in DOMAIN view \ {s} : arrived[x] = views[x]
  <2>1. views = [x \in DOMAIN view |-> views[x]]
    BY DEF Keep
  <2> HIDE DEF A
  <2> QED BY <2>1
<1>5. None \notin DOMAIN PutAwayIn(A, TRUE, old, FALSE).tab
  <2>1. after[s] = PutAwayIn(A, s = s, old, FALSE) /\ None \notin DOMAIN after[s].tab
    BY <1>3, <1>4 DEF Named
  <2> HIDE DEF after, A
  <2>2. (s = s) = TRUE
    OBVIOUS
  <2> QED BY <2>1, <2>2
<1> HIDE DEF v, after
<1>6. /\ None \notin DOMAIN A.tab /\ Live(A) /\ Parked(A)
      /\ DOMAIN A.tab \subseteq DOMAIN v.tab \cup {b}
  BY <1>2, <1>5, ArrivedNamed
<1> HIDE DEF A
<1>7. Keep(arrived)
  <2>1. /\ s \in DOMAIN views /\ Parked(A) /\ FreeIn(views, NewIds)
        /\ DOMAIN A.tab \subseteq DOMAIN views[s].tab \cup NewIds
    BY <1>2, <1>6 DEF v
  <2> QED BY <2>1, Changed
<1> HIDE DEF arrived
<1>8. \A x \in DOMAIN view : /\ Parked(arrived[x]) /\ None \notin DOMAIN arrived[x].tab
                             /\ x = s => Live(arrived[x])
  BY <1>2, <1>4, <1>6, <1>7 DEF Keep
<1>9. \A x \in DOMAIN view : /\ Parked(after[x]) /\ DOMAIN after[x].tab \subseteq DOMAIN arrived[x].tab
                             /\ x = s => Live(after[x])
  <2> TAKE x \in DOMAIN view
  <2> DEFINE on == x = s
             y == arrived[x]
             no == FALSE
  <2>1. on \in BOOLEAN /\ (on => Live(y)) /\ Parked(y) /\ None \notin DOMAIN y.tab
    BY <1>8
  <2>2. after[x] = PutAwayIn(y, on, old, no) /\ None \notin DOMAIN after[x].tab
    BY <1>3, <1>4 DEF Named
  <2>3. (x = s => on) /\ y = arrived[x]
    OBVIOUS
  <2> HIDE DEF on, y, no
  <2> QED BY <2>1, <2>2, <2>3, PutAwayInKeeps
<1>10. Keep(after)
  BY <1>4, <1>7, <1>9, Lessened
<1>11. Settled(after, s)
  BY <1>4, <1>9, <1>10 DEF Settled
<1> QED BY <1>1, <1>4, <1>11, Refreshed DEF Inv

-----------------------------------------------------------------------------
(* Spaces                                                                  *)

\* The Space that was on show is stored.
LEMMA StoredThere ==
  ASSUME Inv
  PROVE  LET w == [view EXCEPT ![shown] = Stored(@)]
         IN  /\ Keep(w) /\ DOMAIN w = DOMAIN view /\ shown \in DOMAIN view
             /\ \A x \in DOMAIN view : DOMAIN w[x].tab = DOMAIN view[x].tab
<1> DEFINE v == view[shown]
           x == Stored(v)
           w == [view EXCEPT ![shown] = x]
<1>1. Keep(view) /\ shown \in DOMAIN view /\ Parked(v) /\ Listed(v)
  BY DEF Inv, Settled, Keep, Parked
<1>2. Listed(x) /\ x.tab = v.tab /\ x.active = v.active
  BY <1>1, StoredKeeps
<1>3. w = [view EXCEPT ![shown] = Stored(@)]
  OBVIOUS
<1> HIDE DEF x, v
<1>4. Parked(x) /\ DOMAIN x.tab \subseteq DOMAIN view[shown].tab \cup NewIds
  BY <1>1, <1>2 DEF Parked, v
<1>5. /\ Keep(w) /\ DOMAIN w = DOMAIN view /\ w[shown] = x
      /\ \A y \in DOMAIN view \ {shown} : w[y] = view[y]
  BY <1>1, <1>4, NewOnes, Changed
<1> HIDE DEF w
<1>6. \A y \in DOMAIN view : DOMAIN w[y].tab = DOMAIN view[y].tab
  BY <1>2, <1>5 DEF v
<1> QED BY <1>1, <1>3, <1>5, <1>6

\* Switching from one Space to another.
LEMMA SwitchStep ==
  ASSUME Inv, NEW s \in ToSet(spaces), NEW b \in Spare, NEW old, SwitchSpace(s, b, old)
  PROVE  Inv'
<1> DEFINE w == [view EXCEPT ![shown] = Stored(@)]
<1>1. ComeOnShow(w, s, b, old) /\ spaces' = spaces /\ s \in DOMAIN view
  BY DEF SwitchSpace, Inv, Lists
<1>2. /\ Keep(w) /\ DOMAIN w = DOMAIN view
      /\ \A x \in DOMAIN view : DOMAIN w[x].tab = DOMAIN view[x].tab
  BY StoredThere
<1> HIDE DEF w
<1> QED BY <1>1, <1>2, ComeOnShowKeeps

\* Switching to a tab of another Space.
LEMMA ActivateInSpaceStep ==
  ASSUME Inv, NEW s \in Away, NEW t, NEW b \in Spare, NEW old, ActivateInSpace(s, t, b, old)
  PROVE  Inv'
<1> DEFINE v == view[s]
           x == Show(v, t)
           y == [x EXCEPT !.tab[t].popped = FALSE]
           left == SaveAway(y, None)
           w == [view EXCEPT ![shown] = Stored(@)]
           views == [w EXCEPT ![s] = left]
<1>1. /\ s \in DOMAIN view /\ s # shown /\ Listed(v) /\ None \in Id
      /\ t \in DOMAIN v.tab /\ spaces' = spaces
  BY AwayIs DEF ActivateInSpace, Has
<1>2. ComeOnShow(views, s, b, old)
  <2>1. [view EXCEPT ![shown] = Stored(@), ![s] = left] = views
    BY <1>1
  <2> QED BY <2>1 DEF ActivateInSpace
<1>3. /\ Keep(w) /\ DOMAIN w = DOMAIN view
      /\ \A z \in DOMAIN view : DOMAIN w[z].tab = DOMAIN view[z].tab
  BY StoredThere
<1> HIDE DEF v, w
<1>4. Listed(x) /\ DOMAIN x.tab = DOMAIN v.tab
  BY <1>1, MarkingThere
<1> HIDE DEF x
<1>5. Listed(y) /\ DOMAIN y.tab = DOMAIN x.tab
  BY <1>1, <1>4, MarksThere
<1> HIDE DEF y
<1>6. Parked(left) /\ DOMAIN left.tab = DOMAIN v.tab
  <2>1. Parked(left) /\ (y.rows # <<>> => left.tab = y.tab)
    BY <1>1, <1>5, SaveAwayKeeps
  <2>2. y.rows # <<>>
    <3>1. Row(y, t) \in 1 .. Len(y.rows)
      BY <1>1, <1>4, <1>5, RowIs
    <3> QED BY <3>1
  <2> QED BY <1>4, <1>5, <2>1, <2>2
<1> HIDE DEF left
<1>7. /\ Keep(views) /\ DOMAIN views = DOMAIN view
      /\ \A z \in DOMAIN view : DOMAIN views[z].tab \subseteq DOMAIN view[z].tab
  <2> DEFINE N == {}
  <2>1. FreeIn(w, N) /\ DOMAIN left.tab \subseteq DOMAIN w[s].tab \cup N /\ s \in DOMAIN w
    BY <1>1, <1>3, <1>6 DEF FreeIn, v
  <2> HIDE DEF N
  <2>2. /\ Keep(views) /\ DOMAIN views = DOMAIN w /\ views[s] = left
        /\ \A z \in DOMAIN w \ {s} : views[z] = w[z]
    BY <1>3, <1>6, <2>1, Changed
  <2> HIDE DEF views
  <2> QED BY <1>3, <1>6, <2>2 DEF v
<1> HIDE DEF views
<1> QED BY <1>1, <1>2, <1>7, ComeOnShowKeeps

\* A Space before its first tab.
LEMMA EmptyIs ==
  /\ Parked(EmptyView) /\ Live(EmptyView) /\ DOMAIN EmptyView.tab = {}
  /\ Retains(EmptyView) = {} /\ Popped(EmptyView) = {}
<1> DEFINE v == EmptyView
<1>1. /\ v = [rows |-> <<>>, tab |-> << >>, active |-> None, folders |-> <<>>,
              closed |-> 0, away |-> 0]
  BY DEF EmptyView
<1>2. << >> \in [{} -> Records] /\ DOMAIN << >> = {}
  <2>1. << >> \in Seq(Records) /\ Len(<< >>) = 0
    OBVIOUS
  <2>2. DOMAIN << >> = 1 .. 0
    BY <2>1
  <2> QED BY <2>2
<1>3. /\ v.rows = <<>> /\ v.tab = << >> /\ v.active = None /\ v.folders = <<>>
      /\ v.closed = 0 /\ v.away = 0
      /\ v = [rows |-> v.rows, tab |-> v.tab, active |-> v.active, folders |-> v.folders,
              closed |-> v.closed, away |-> v.away]
  BY <1>1
<1> HIDE DEF v
<1>4. DOMAIN v.tab = {} /\ v.tab \in [DOMAIN v.tab -> Records]
  BY <1>2, <1>3
<1>5. Lists(v.rows, DOMAIN v.tab)
  BY <1>3, <1>4, SmallLists
<1>6. Described(v)
  BY <1>3, <1>4, TabAssumption DEF Described
<1>7. Listed(v) /\ Parked(v)
  BY <1>3, <1>5, <1>6 DEF Listed, Parked
<1>8. Paired(v) /\ ~FoldersHeld(v) /\ FirstIn(v.rows, Pinned(v))
  BY <1>3, <1>4 DEF Paired, FoldersHeld, FirstIn
<1>9. Live(v)
  BY <1>3, <1>7, <1>8, NoFolders, PinsFirstSorted DEF Live, Body
<1> QED BY <1>4, <1>7, <1>9 DEF v, Retains, Popped

\* A Space more.
LEMMA CreateSpaceStep ==
  ASSUME Inv, NEW s \in Space \ ToSet(spaces), CreateSpace(s)
  PROVE  Inv'
<1> DEFINE w == [x \in DOMAIN view \cup {s} |-> IF x = s THEN EmptyView ELSE view[x]]
<1>1. /\ Become(w) /\ spaces' = Append(spaces, s) /\ UNCHANGED <<shown, caches>>
  BY DEF CreateSpace
<1>2. /\ Lists(spaces, DOMAIN view) /\ s \notin DOMAIN view /\ DOMAIN view \subseteq Space
      /\ Keep(view) /\ shown \in DOMAIN view /\ Live(view[shown])
  BY DEF Inv, Settled, Lists
<1>3. /\ DOMAIN w = DOMAIN view \cup {s} /\ w[s] = EmptyView
      /\ \A x \in DOMAIN view : w[x] = view[x]
      /\ w = [x \in DOMAIN w |-> w[x]]
  BY <1>2
<1> HIDE DEF w
<1>4. Disjoint(w)
  BY <1>2, <1>3, EmptyIs DEF Disjoint, Keep
<1>5. Keep(w) /\ Settled(w, shown)
  BY <1>2, <1>3, <1>4, EmptyIs DEF Keep, Settled
<1>6. Lists(Append(spaces, s), DOMAIN w)
  <2> DEFINE D == DOMAIN view
             k == Len(spaces) + 1
  <2>1. Lists(InsertAt(spaces, k, s), D \cup {s})
    <3>1. k \in 1 .. Len(spaces) + 1
      BY <1>2 DEF Lists
    <3> HIDE DEF k
    <3> QED BY <1>2, <3>1, InsertLists
  <2>2. InsertAt(spaces, k, s) = Append(spaces, s)
    <3>1. spaces \in Seq(Space) /\ s \in Space
      BY <1>2, ListsIn
    <3> QED BY <3>1, InsertEnd
  <2> QED BY <1>3, <2>1, <2>2
<1>7. Cached(w, shown, retained, awayWindows, windows)
  <2>1. /\ UNION {Retains(w[x]) : x \in DOMAIN w \ {shown}}
             = UNION {Retains(view[x]) : x \in DOMAIN view \ {shown}}
        /\ UNION {Popped(w[x]) : x \in DOMAIN w \ {shown}}
             = UNION {Popped(view[x]) : x \in DOMAIN view \ {shown}}
    BY <1>2, <1>3, EmptyIs
  <2> QED BY <1>2, <1>3, <2>1 DEF Cached, Inv
<1>8. view' = w /\ Named(w)
  BY <1>1, Becoming
<1> QED BY <1>1, <1>2, <1>3, <1>5, <1>6, <1>7, <1>8 DEF Inv, caches

\* Spaces less.
LEMMA SpacesLeft ==
  ASSUME Inv, NEW gone
  PROVE  LET w == Restrict(view, DOMAIN view \ gone)
             rest == Without(spaces, gone)
         IN  /\ Keep(w) /\ DOMAIN w = DOMAIN view \ gone
             /\ \A x \in DOMAIN w : w[x] = view[x]
             /\ Lists(rest, DOMAIN w) /\ (rest # <<>> => Head(rest) \in DOMAIN w)
             /\ FreeIn(w, NewIds)
<1> DEFINE w == Restrict(view, DOMAIN view \ gone)
           rest == Without(spaces, gone)
<1>1. Keep(view) /\ Lists(spaces, DOMAIN view)
  BY DEF Inv, Settled
<1>2. /\ DOMAIN w = DOMAIN view \ gone /\ w = [x \in DOMAIN w |-> w[x]]
      /\ \A x \in DOMAIN w : w[x] = view[x]
  BY DEF Restrict
<1> HIDE DEF w
<1>3. Keep(w)
  BY <1>1, <1>2 DEF Keep, Disjoint
<1>4. Lists(rest, DOMAIN w)
  <2> DEFINE S == DOMAIN view
  <2>1. Lists(spaces, S) /\ DOMAIN w = S \ gone
    BY <1>1, <1>2
  <2> HIDE DEF S
  <2>2. Lists(rest, S \ gone)
    BY <2>1, PartLists
  <2> QED BY <2>1, <2>2
<1> HIDE DEF rest
<1>5. rest # <<>> => Head(rest) \in DOMAIN w
  <2>1. rest \in Seq(DOMAIN w)
    BY <1>4, ListsIn
  <2> QED BY <2>1
<1>6. FreeIn(w, NewIds)
  BY <1>2 DEF FreeIn, NewIds
<1> QED BY <1>2, <1>3, <1>4, <1>5, <1>6 DEF w, rest

\* A Space is deleted, and another comes on show if it was the one on show.
LEMMA DeleteSpaceStep ==
  ASSUME Inv, NEW s \in ToSet(spaces), NEW b \in Spare, DeleteSpace(s, b)
  PROVE  Inv'
<1> DEFINE gone == {s}
           rest == Without(spaces, gone)
           left == Restrict(view, DOMAIN view \ gone)
           on == IF s = shown THEN Head(rest) ELSE shown
           A == Arrive(left[on], b)
           after == IF s = shown THEN [left EXCEPT ![on] = A] ELSE left
<1>1. /\ rest # <<>> /\ spaces' = rest /\ Become(after) /\ shown' = on
      /\ RefreshRetained(after, on)
  BY DEF DeleteSpace
<1>2. /\ Keep(left) /\ DOMAIN left = DOMAIN view \ gone
      /\ \A x \in DOMAIN left : left[x] = view[x]
      /\ Lists(rest, DOMAIN left) /\ Head(rest) \in DOMAIN left
      /\ FreeIn(left, NewIds)
  BY <1>1, SpacesLeft
<1>3. /\ shown \in DOMAIN view /\ Live(view[shown]) /\ DOMAIN view \subseteq Space
      /\ \A x \in DOMAIN view : None \notin DOMAIN view[x].tab
      /\ b \in NewIds /\ b \in Id
  BY NewOnes DEF Inv, Settled, Named
<1> HIDE DEF rest, left
<1>4. Named(after)
  BY <1>1, Becoming
<1>5. Settled(after, on) /\ DOMAIN after = DOMAIN left
  <2>1. CASE s # shown
    <3>1. after = left /\ on = shown /\ shown \in DOMAIN left
      BY <1>2, <1>3, <2>1
    <3> QED BY <1>2, <1>3, <3>1 DEF Settled
  <2>2. CASE s = shown
    <3> DEFINE v == left[on]
    <3>1. after = [left EXCEPT ![on] = A] /\ on \in DOMAIN left
      BY <1>2, <2>2
    <3> HIDE DEF after, on
    <3>2. Parked(v) /\ None \notin DOMAIN v.tab /\ b \in Id \ DOMAIN v.tab
      BY <1>2, <1>3, <3>1 DEF Keep, FreeIn
    <3>3. None \notin DOMAIN A.tab
      <4> HIDE DEF A
      <4> QED BY <1>4, <3>1 DEF Named
    <3> HIDE DEF v
    <3>4. Live(A) /\ DOMAIN A.tab \subseteq DOMAIN v.tab \cup {b}
      BY <3>2, <3>3, ArriveKeeps DEF v
    <3> HIDE DEF A
    <3>5. Parked(A) /\ DOMAIN A.tab \subseteq DOMAIN left[on].tab \cup NewIds
      BY <1>3, <3>4 DEF Live, Body, Parked, v
    <3>6. Keep(after) /\ DOMAIN after = DOMAIN left /\ after[on] = A
      BY <1>2, <3>1, <3>5, Changed
    <3> QED BY <3>1, <3>4, <3>6 DEF Settled
  <2> QED BY <2>1, <2>2
<1> HIDE DEF after, on
<1>6. Lists(spaces', DOMAIN after) /\ DOMAIN after \subseteq Space
  BY <1>1, <1>2, <1>3, <1>5
<1> QED BY <1>1, <1>5, <1>6, Refreshed

-----------------------------------------------------------------------------
(* Tabs that move to another Space                                         *)

\* Both Spaces are written: T leaves the one on show and joins s.
LEMMA MoveRowsKeeps ==
  ASSUME Inv, NEW s \in Away, NEW left, NEW received, MoveRows(s, left, received),
         Live(left), Parked(received), NEW T, T \subseteq DOMAIN Here.tab,
         DOMAIN left.tab \subseteq (DOMAIN Here.tab \ T) \cup NewIds,
         DOMAIN received.tab \subseteq DOMAIN view[s].tab \cup T
  PROVE  Inv'
<1> DEFINE u == [view EXCEPT ![shown] = left]
           w == [u EXCEPT ![s] = received]
<1>1. s \in DOMAIN view /\ s # shown /\ shown \in DOMAIN view
  BY AwayIs
<1>2. Keep(view) /\ FreeIn(view, NewIds)
  BY NewOnes DEF Inv, Settled
<1>3. Become(w) /\ RefreshRetained(w, shown) /\ shown' = shown /\ spaces' = spaces
  <2>1. [view EXCEPT ![shown] = left, ![s] = received] = w
    BY <1>1
  <2> HIDE DEF w
  <2>2. Become(w) /\ RefreshRetained(view', shown) /\ shown' = shown /\ spaces' = spaces
    BY <2>1 DEF MoveRows
  <2> QED BY <2>2, Becoming
<1>4. Parked(left) /\ DOMAIN left.tab \subseteq DOMAIN view[shown].tab \cup NewIds
  BY DEF Live, Body, Parked, Here
<1>5. /\ Keep(u) /\ DOMAIN u = DOMAIN view /\ u[shown] = left
      /\ \A x \in DOMAIN view \ {shown} : u[x] = view[x]
  BY <1>1, <1>2, <1>4, Changed
<1> HIDE DEF u
<1>6. FreeIn(u, T)
  <2> SUFFICES ASSUME NEW x \in DOMAIN view PROVE T \cap DOMAIN u[x].tab = {}
    BY <1>5 DEF FreeIn
  <2>1. CASE x = shown
    <3>1. T \cap NewIds = {}
      BY <1>1, <1>2 DEF FreeIn, Here
    <3> QED BY <1>5, <2>1, <3>1
  <2>2. CASE x # shown
    <3>1. DOMAIN view[x].tab \cap DOMAIN view[shown].tab = {}
      BY <1>1, <1>2, <2>2 DEF Keep, Disjoint
    <3> QED BY <1>5, <2>2, <3>1 DEF Here
  <2> QED BY <2>1, <2>2
<1>7. /\ s \in DOMAIN u /\ DOMAIN received.tab \subseteq DOMAIN u[s].tab \cup T
  BY <1>1, <1>5
<1>8. /\ Keep(w) /\ DOMAIN w = DOMAIN u /\ w[s] = received
      /\ \A x \in DOMAIN u \ {s} : w[x] = u[x]
  BY <1>5, <1>6, <1>7, Changed
<1> HIDE DEF w
<1>9. Settled(w, shown)
  BY <1>1, <1>5, <1>8 DEF Settled
<1> QED BY <1>3, <1>5, <1>8, <1>9, Refreshed DEF Inv

\* What is written of the tabs that move.
LEMMA MovedIs ==
  ASSUME NEW v, Described(v), NEW T, T \subseteq DOMAIN v.tab
  PROVE  Moved(v, T) \in [T -> Records]
<1>1. \A t \in T : /\ v.tab[t] \in Records
                   /\ [v.tab[t] EXCEPT !.partner = None, !.focused = FALSE] \in Records
  BY Remarks
<1> QED BY <1>1 DEF Moved

\* The Space the tabs join lists them after its own.
LEMMA ReceiveKeeps ==
  ASSUME NEW v, Parked(v), NEW T, T \subseteq Id, T \cap DOMAIN v.tab = {},
         NEW ts, Lists(ts, T), NEW records \in [T -> Records]
  PROVE  LET w == Receive(v, ts, records)
         IN  Parked(w) /\ DOMAIN w.tab = DOMAIN v.tab \cup T
<1> DEFINE D == DOMAIN v.tab
           E == D \cup T
           r == v.rows \o ts
           m == [t \in E |-> IF t \in T THEN records[t] ELSE v.tab[t]]
           x == [v EXCEPT !.rows = r]
           joined == [v EXCEPT !.rows = @ \o ts,
                               !.tab = [t \in DOMAIN @ \cup ToSet(ts) |->
                                          IF t \in ToSet(ts) THEN records[t] ELSE @[t]]]
           z == [joined EXCEPT !.active = IF Has(v, @) THEN @ ELSE joined.rows[1]]
           a == IF Has(v, v.active) THEN v.active ELSE joined.rows[1]
           y == [joined EXCEPT !.active = a]
           w == Receive(v, ts, records)
<1>1. /\ Described(v) /\ Lists(v.rows, D) /\ v.active \in D \cup {None} /\ T = ToSet(ts)
      /\ v.tab \in [D -> Records] /\ D \subseteq Id
  BY DEF Parked, Listed, Described, Lists
<1>2. Lists(r, E)
  <2> HIDE DEF D
  <2>1. D \cap T = {}
    BY DEF D
  <2> QED BY <1>1, <2>1, ConcatLists
<1>3. m \in [E -> Records] /\ DOMAIN m = E /\ E \subseteq Id
  BY <1>1
<1>4. w = IF joined.rows = <<>> THEN joined ELSE Stored(z)
  BY DEF Receive
<1>5. joined = [x EXCEPT !.tab = m]
  <2>1. [v EXCEPT !.rows = @ \o ts,
                  !.tab = [t \in DOMAIN @ \cup T |->
                             IF t \in T THEN records[t] ELSE @[t]]] = [x EXCEPT !.tab = m]
    OBVIOUS
  <2> QED BY <1>1, <2>1
<1> HIDE DEF r, m, w, joined
<1>6. Described(joined) /\ joined.rows = r /\ joined.tab = m /\ joined.active = v.active
  <2>1. Described(x) /\ x.rows = r /\ x.active = v.active
    BY <1>1, WithRows
  <2> HIDE DEF x
  <2>2. m \in [DOMAIN m -> Records] /\ DOMAIN m \subseteq Id
    BY <1>3
  <2> QED BY <1>5, <2>1, <2>2, WithTab
<1> HIDE DEF x
<1>7. Listed(joined) /\ DOMAIN joined.tab = E
  BY <1>2, <1>3, <1>6 DEF Listed
<1>8. CASE joined.rows = <<>>
  <2>1. w = joined
    BY <1>4, <1>8
  <2> QED BY <1>1, <1>6, <1>7, <2>1 DEF Parked, w
<1>9. CASE joined.rows # <<>>
  <2>1. a \in E
    <3>1. joined.rows[1] \in E
      <4>1. 1 \in 1 .. Len(joined.rows)
        BY <1>7, <1>9 DEF Listed, Lists
      <4> QED BY <1>7, <4>1, RowIs
    <3> QED BY <3>1 DEF Has
  <2>0. z = y
    BY <1>6
  <2> HIDE DEF a, z
  <2>2. Described(y) /\ y.rows = joined.rows /\ y.tab = joined.tab /\ y.active = a
    BY <1>6, WithActive
  <2> HIDE DEF y
  <2>3. Listed(y)
    BY <1>7, <2>2 DEF Listed
  <2>4. Listed(Stored(y)) /\ Stored(y).tab = y.tab /\ Stored(y).active = y.active
    BY <2>3, StoredKeeps
  <2> QED BY <1>4, <1>7, <1>9, <2>0, <2>1, <2>2, <2>4 DEF Parked, w
<1> QED BY <1>8, <1>9

\* What confirmTabMoveToSpace leaves of the Space on show.
LEMMA TabTaken ==
  ASSUME NEW v, Live(v), NEW t \in DOMAIN v.tab, NEW b \in Id \ DOMAIN v.tab
  PROVE  LET p == v.tab[t].partner
             rest == RemoveTab(Unpair(v, t), t)
             next == IF p # None THEN p
                     ELSE IF FoldersHeld(v) THEN AfterLeaving(v, {t}) ELSE rest.rows[1]
             left == IF rest.rows = <<>> THEN OpenTab(rest, b, FALSE)
                     ELSE IF t # v.active THEN rest
                     ELSE IF next = None THEN OpenTab(rest, b, FALSE)
                     ELSE [rest EXCEPT !.active = next]
         IN  Live(left) /\ DOMAIN left.tab \subseteq (DOMAIN v.tab \ {t}) \cup {b}
<1> DEFINE p == v.tab[t].partner
           rest == RemoveTab(Unpair(v, t), t)
           next == IF p # None THEN p
                   ELSE IF FoldersHeld(v) THEN AfterLeaving(v, {t}) ELSE rest.rows[1]
           o == OpenTab(rest, b, FALSE)
           n == [rest EXCEPT !.active = next]
           left == IF rest.rows = <<>> THEN o
                   ELSE IF t # v.active THEN rest
                   ELSE IF next = None THEN o
                   ELSE n
<1>1. Body(v) /\ Paired(v) /\ Listed(v) /\ v.active \in DOMAIN v.tab \cup {None}
  BY DEF Live, Body
<1>2. Body(rest) /\ DOMAIN rest.tab = DOMAIN v.tab \ {t} /\ rest.active = v.active
  BY <1>1, TakeOff
<1> HIDE DEF rest
<1>3. p # None => p \in DOMAIN rest.tab
  BY <1>1, <1>2 DEF Paired, WholeSplit, Has
<1>4. AfterLeaving(v, {t}) # None => AfterLeaving(v, {t}) \in DOMAIN rest.tab
  BY <1>1, <1>2, AfterLeavingIs
<1>5. rest.rows # <<>> => rest.rows[1] \in DOMAIN rest.tab
  <2> SUFFICES ASSUME rest.rows # <<>> PROVE rest.rows[1] \in DOMAIN rest.tab
    OBVIOUS
  <2>1. Listed(rest)
    BY <1>2 DEF Body
  <2>2. 1 \in 1 .. Len(rest.rows)
    BY <2>1 DEF Listed, Lists
  <2> QED BY <2>1, <2>2, RowIs
<1>6. rest.rows # <<>> /\ next # None => next \in DOMAIN rest.tab
  BY <1>3, <1>4, <1>5
<1> HIDE DEF next
<1>7. Live(o) /\ DOMAIN o.tab = DOMAIN rest.tab \cup {b}
  <2> DEFINE no == FALSE
  <2>1. b \in Id \ DOMAIN rest.tab /\ no \in BOOLEAN
    BY <1>2
  <2> HIDE DEF no
  <2>2. Live(OpenTab(rest, b, no)) /\ DOMAIN OpenTab(rest, b, no).tab = DOMAIN rest.tab \cup {b}
    BY <1>2, <2>1, OpenKeeps
  <2> QED BY <2>2 DEF no
<1>8. next \in DOMAIN rest.tab => Live(n) /\ n.tab = rest.tab
  BY <1>2, Activating
<1>9. t # v.active => Live(rest)
  BY <1>1, <1>2 DEF Live
<1> HIDE DEF o, n
<1>10. Live(left) /\ DOMAIN left.tab \subseteq (DOMAIN v.tab \ {t}) \cup {b}
  BY <1>2, <1>6, <1>7, <1>8, <1>9
<1> QED BY <1>10 DEF left, o, n, next, rest

\* confirmTabMoveToSpace
LEMMA MoveTabStep ==
  ASSUME Inv, NEW s \in Away, NEW t, NEW b \in Spare, MoveTabToSpace(t, s, b)
  PROVE  Inv'
<1> DEFINE v == Here
           p == v.tab[t].partner
           rest == RemoveTab(Unpair(v, t), t)
           next == IF p # None THEN p
                   ELSE IF FoldersHeld(v) THEN AfterLeaving(v, {t}) ELSE rest.rows[1]
           left == IF rest.rows = <<>> THEN OpenTab(rest, b, FALSE)
                   ELSE IF t # v.active THEN rest
                   ELSE IF next = None THEN OpenTab(rest, b, FALSE)
                   ELSE [rest EXCEPT !.active = next]
           T == {t}
           ts == <<t>>
           records == Moved(v, T)
           received == Receive(view[s], ts, records)
<1>1. t \in DOMAIN v.tab /\ MoveRows(s, left, received)
  BY DEF MoveTabToSpace, Has
<1>2. Live(v) /\ Described(v) /\ b \in Id \ DOMAIN v.tab /\ b \in NewIds /\ DOMAIN v.tab \subseteq Id
  BY ShownIs DEF Listed, Described
<1>3. Parked(view[s]) /\ DOMAIN v.tab \cap DOMAIN view[s].tab = {}
  BY AwayIs DEF Here, Inv, Settled, Keep, Disjoint
<1> HIDE DEF v
<1>4. Live(left) /\ DOMAIN left.tab \subseteq (DOMAIN v.tab \ {t}) \cup {b}
  BY <1>1, <1>2, TabTaken
<1> HIDE DEF left
<1>5. Lists(ts, T) /\ T \subseteq DOMAIN v.tab /\ T \subseteq Id /\ T \cap DOMAIN view[s].tab = {}
  BY <1>1, <1>2, <1>3, SmallLists
<1>6. DOMAIN left.tab \subseteq (DOMAIN v.tab \ T) \cup NewIds
  BY <1>2, <1>4
<1> HIDE DEF T, ts
<1>7. records \in [T -> Records]
  BY <1>2, <1>5, MovedIs
<1> HIDE DEF records
<1>8. Parked(received) /\ DOMAIN received.tab = DOMAIN view[s].tab \cup T
  BY <1>3, <1>5, <1>7, ReceiveKeeps
<1> HIDE DEF received
<1> QED BY <1>1, <1>4, <1>5, <1>6, <1>8, MoveRowsKeeps DEF v

\* T is what a Folder's move takes along.
Going(v, f, T) == T = InFolder(v, f) \ Popped(v)

\* What confirmFolderMoveToSpace leaves of the Space on show.
FolderLess(v, f, T, b) ==
  LET next == AfterLeaving(v, T)
      off == IF v.active \notin T THEN v
             ELSE IF next = None THEN OpenTab(v, b, FALSE)
             ELSE [v EXCEPT !.active = next]
  IN  Settle(RemoveTabs(RemoveFolder(off, f), T))

\* Its other tabs are in order.
LEMMA FolderTaken ==
  ASSUME NEW v, Live(v), NEW f \in DOMAIN v.folders, NEW b \in Id \ DOMAIN v.tab,
         NEW T, Going(v, f, T)
  PROVE  LET w == FolderLess(v, f, T, b)
         IN  Live(w) /\ DOMAIN w.tab \subseteq (DOMAIN v.tab \ T) \cup {b}
<1> DEFINE next == AfterLeaving(v, T)
           o == OpenTab(v, b, FALSE)
           n == [v EXCEPT !.active = next]
           off == IF v.active \notin T THEN v ELSE IF next = None THEN o ELSE n
           x == RemoveFolder(off, f)
           gone == RemoveTabs(x, T)
           w == Settle(gone)
<1>1. /\ Body(v) /\ Listed(v) /\ Paired(v) /\ Filed(v) /\ v.active \in DOMAIN v.tab \cup {None}
      /\ \A t \in DOMAIN v.tab : v.tab[t] \in Records
  BY DEF Live, Body, Listed, Described
<1>2. /\ T \subseteq InFolder(v, f) /\ T \subseteq DOMAIN v.tab /\ T = InFolder(v, f) \ Popped(v)
      /\ w = FolderLess(v, f, T, b)
  BY <1>1 DEF Going, Filed, Has, FolderLess
<1>3. next # None => next \in DOMAIN v.tab \ T
  BY <1>1, AfterLeavingIs
<1> HIDE DEF next
<1>4. /\ Live(o) /\ DOMAIN o.tab = DOMAIN v.tab \cup {b} /\ o.active = b /\ o.folders = v.folders
      /\ o.tab[b].partner = None /\ \A u \in DOMAIN v.tab : o.tab[u] = v.tab[u]
  <2> DEFINE no == FALSE
             z == OpenTab(v, b, no)
  <2>1. no \in BOOLEAN /\ NewTab(no).partner = None
    BY NewTabs
  <2>2. o = z
    OBVIOUS
  <2> HIDE DEF no, o
  <2>3. /\ Live(z) /\ DOMAIN z.tab = DOMAIN v.tab \cup {b} /\ z.active = b
        /\ z.folders = v.folders /\ z.closed = v.closed /\ z.away = v.away
        /\ z.tab[b] = NewTab(no) /\ \A u \in DOMAIN v.tab : z.tab[u] = v.tab[u]
    BY <1>1, <2>1, OpenKeeps
  <2> HIDE DEF z
  <2> QED BY <2>1, <2>2, <2>3
<1>5. next # None => Live(n) /\ n.tab = v.tab /\ n.active = next /\ n.folders = v.folders
  BY <1>1, <1>3, Activating DEF Retabbed
<1> HIDE DEF o, n
<1>6. /\ Live(off) /\ DOMAIN off.tab \subseteq DOMAIN v.tab \cup {b}
      /\ off.folders = v.folders /\ off.active \notin T
      /\ DOMAIN v.tab \subseteq DOMAIN off.tab
      /\ \A u \in DOMAIN v.tab : off.tab[u] = v.tab[u]
      /\ b \in DOMAIN off.tab => off.tab[b].partner = None
  BY <1>1, <1>2, <1>3, <1>4, <1>5
<1> HIDE DEF off
<1>7. Live(x) /\ x.tab = off.tab /\ x.active = off.active
  BY <1>6, RemoveFolderKeeps
<1> HIDE DEF x
<1>8. Apart(x, T)
  <2> SUFFICES ASSUME NEW t \in DOMAIN off.tab \ T, off.tab[t].partner # None,
                      off.tab[t].partner \in T
               PROVE  FALSE
    BY <1>7 DEF Apart
  <2> DEFINE u == v.tab[t].partner
  <2>1. t \in DOMAIN v.tab /\ off.tab[t] = v.tab[t]
    BY <1>6
  <2>2. u # None /\ u \in T /\ u \in DOMAIN v.tab /\ v.tab[u].partner = t /\ t # None
    BY <1>1, <1>2, <2>1 DEF Paired, WholeSplit
  <2>3. t \in InFolder(v, f)
    BY <1>1, <1>2, <2>2 DEF Filed
  <2>4. ~v.tab[t].popped
    BY <1>1, <2>1, <2>2 DEF Records
  <2> QED BY <1>2, <2>1, <2>3, <2>4 DEF Popped
<1>9. Body(gone) /\ DOMAIN gone.tab = DOMAIN x.tab \ T /\ gone.active = x.active
  BY <1>7, <1>8, TabsGone DEF Live
<1> HIDE DEF gone
<1>10. FirstIn(gone.rows, Pinned(gone)) /\ Listed(gone) /\ Paired(gone) /\ Filed(gone)
  BY <1>9, SortedPins DEF Body
<1>11. Body(w) /\ w.tab = gone.tab /\ w.active = gone.active
  BY <1>10, SettleSorts
<1> HIDE DEF w
<1>12. w.active \in DOMAIN w.tab \cup {None}
  BY <1>6, <1>7, <1>9, <1>11 DEF Live
<1>13. Live(w) /\ DOMAIN w.tab \subseteq (DOMAIN v.tab \ T) \cup {b}
  BY <1>6, <1>7, <1>9, <1>11, <1>12 DEF Live
<1> QED BY <1>2, <1>13

\* confirmFolderMoveToSpace
LEMMA MoveFolderStep ==
  ASSUME Inv, NEW s \in Away, NEW f \in DOMAIN Here.folders, NEW b \in Spare,
         MoveFolderToSpace(f, s, b)
  PROVE  Inv'
<1> DEFINE v == Here
           ts == Without(v.folders[f].tabs, Popped(v))
           T == ToSet(ts)
           next == AfterLeaving(v, T)
           off == IF v.active \notin T THEN v
                  ELSE IF next = None THEN OpenTab(v, b, FALSE)
                  ELSE [v EXCEPT !.active = next]
           gone == RemoveTabs(RemoveFolder(off, f), T)
           left == Settle(gone)
           folder == [v.folders[f] EXCEPT !.tabs = ts]
           fs == Append(view[s].folders, folder)
           there == [view[s] EXCEPT !.folders = fs]
           records == Moved(v, T)
           received == Receive(there, ts, records)
<1>1. MoveRows(s, left, received)
  BY DEF MoveFolderToSpace
<1>2. Live(v) /\ Described(v) /\ Filed(v) /\ b \in Id \ DOMAIN v.tab /\ b \in NewIds
  BY ShownIs DEF Listed, Live, Body
<1>3. /\ Parked(view[s]) /\ Described(view[s]) /\ DOMAIN v.tab \cap DOMAIN view[s].tab = {}
      /\ f \in DOMAIN v.folders /\ DOMAIN v.tab \subseteq Id
  BY <1>2, AwayIs DEF Here, Inv, Settled, Keep, Disjoint, Listed, Described
<1> HIDE DEF v
<1>4. /\ v.folders[f] \in FolderRecords /\ v.folders[f].tabs \in Seq(Tab)
      /\ Once(v.folders[f].tabs) /\ InFolder(v, f) \subseteq DOMAIN v.tab
  BY <1>2, <1>3, FolderTabs DEF Filed, Has
<1>5. ts \in Seq(Tab) /\ T = InFolder(v, f) \ Popped(v) /\ Once(ts)
  BY <1>4, WithoutMembers DEF InFolder
<1>6. Lists(ts, T) /\ T \subseteq DOMAIN v.tab /\ T \subseteq Id /\ T \cap DOMAIN view[s].tab = {}
  <2>1. ts \in Seq(T)
    BY <1>5, Members
  <2> QED BY <1>3, <1>4, <1>5, <2>1 DEF Lists
<1>7. folder \in FolderRecords
  BY <1>4, <1>5 DEF FolderRecords
<1> HIDE DEF folder, ts, T
<1>8. Live(left) /\ DOMAIN left.tab \subseteq (DOMAIN v.tab \ T) \cup {b}
  <2>1. left = FolderLess(v, f, T, b) /\ Going(v, f, T)
    BY <1>5 DEF FolderLess, Going
  <2> HIDE DEF left
  <2> QED BY <1>2, <1>3, <2>1, FolderTaken
<1> HIDE DEF left
<1>9. records \in [T -> Records]
  BY <1>2, <1>6, MovedIs
<1> HIDE DEF records
<1>10. Parked(there) /\ there.tab = view[s].tab
  <2>1. fs \in Seq(FolderRecords)
    BY <1>3, <1>7 DEF Described
  <2> HIDE DEF fs
  <2>2. /\ Described(there) /\ there.rows = view[s].rows /\ there.tab = view[s].tab
        /\ there.active = view[s].active
    BY <1>3, <2>1, WithFolders
  <2> HIDE DEF there
  <2> QED BY <1>3, <2>2 DEF Parked, Listed
<1> HIDE DEF there
<1>11. Parked(received) /\ DOMAIN received.tab = DOMAIN view[s].tab \cup T
  BY <1>6, <1>9, <1>10, ReceiveKeeps
<1>12. DOMAIN left.tab \subseteq (DOMAIN v.tab \ T) \cup NewIds
  BY <1>2, <1>8
<1> HIDE DEF received
<1> QED BY <1>1, <1>6, <1>8, <1>11, <1>12, MoveRowsKeeps DEF v

\* Every step of a Space that is not on show.
LEMMA AwayNextSteps ==
  ASSUME Inv, AwayNext
  PROVE  Inv'
<1>1. PICK s \in Away :
        \/ \E t \in Fresh : OpenInSpace(s, t) \/ OpenWindowAway(s, t)
        \/ \E t \in Tab : NavigateAway(s, t) \/ Release(s, t) \/ PutBackAway(s, t)
        \/ \E t \in Tab, b \in Spare : PopOutAway(s, t, b) \/ MoveTabToSpace(t, s, b)
        \/ \E t \in Tab, b \in Spare, refused \in BOOLEAN : CloseAway(s, t, b, refused)
        \/ \E f \in DOMAIN Here.folders, b \in Spare : MoveFolderToSpace(f, s, b)
  BY DEF AwayNext
<1>2. ASSUME NEW t \in Tab, NEW b \in Spare, NEW refused \in BOOLEAN, CloseAway(s, t, b, refused)
      PROVE  Inv'
  <2>1. CASE refused = TRUE
    BY <1>2, <2>1, RefusedCloseStep
  <2>2. CASE refused = FALSE
    BY <1>2, <2>2, AwaySteps
  <2> QED BY <2>1, <2>2
<1> QED BY <1>1, <1>2, OpenInSpaceStep, AwaySteps, MoveTabStep, MoveFolderStep

-----------------------------------------------------------------------------
(* What Sync brings                                                        *)

\* A list in the other order.
LEMMA ReverseLists ==
  ASSUME NEW S, NEW s, Lists(s, S)
  PROVE  Lists(Reverse(s), S)
<1> DEFINE n == Len(s)
           r == Reverse(s)
<1>1. n \in Nat /\ s \in Seq(S) /\ Once(s) /\ \A i \in 1 .. n : s[i] \in S
  BY DEF Lists
<1>2. r = [i \in 1 .. n |-> s[(n - i) + 1]]
  BY DEF Reverse
<1>3. \A i \in 1 .. n : (n - i) + 1 \in 1 .. n
  BY <1>1
<1>4. r \in Seq(S) /\ Len(r) = n /\ \A i \in 1 .. n : r[i] = s[(n - i) + 1]
  BY <1>1, <1>2, <1>3
<1> HIDE DEF r
<1>5. Once(r)
  <2> SUFFICES ASSUME NEW i \in 1 .. n, NEW j \in 1 .. n, r[i] = r[j]
               PROVE  i = j
    BY <1>4 DEF Once
  <2>1. (n - i) + 1 = (n - j) + 1
    BY <1>1, <1>3, <1>4 DEF Once
  <2> QED BY <1>1, <2>1
<1>6. ToSet(r) = S
  <2>1. \A x : x \in ToSet(r) <=> \E i \in 1 .. n : r[i] = x
    BY <1>4, Members
  <2>2. \A x : x \in S <=> \E i \in 1 .. n : s[i] = x
    BY <1>1, Members DEF Lists
  <2>3. ASSUME NEW i \in 1 .. n PROVE s[i] \in ToSet(r)
    <3> DEFINE k == (n - i) + 1
    <3>1. k \in 1 .. n /\ (n - k) + 1 = i
      BY <1>1
    <3> HIDE DEF k
    <3>2. r[k] = s[i]
      BY <1>4, <3>1
    <3> QED BY <2>1, <3>1, <3>2
  <2>4. \A i \in 1 .. n : r[i] \in S
    BY <1>1, <1>3, <1>4
  <2> QED BY <2>1, <2>2, <2>3, <2>4
<1> QED BY <1>4, <1>5, <1>6 DEF Lists, r

\* A Space's tabs and Folders as the checkout has them.
LEMMA RestoredKeeps ==
  ASSUME NEW v, Parked(v), NEW R, R \subseteq Id, NEW rows, Lists(rows, R),
         NEW folders, folders \in Seq(FolderRecords), NEW kept
  PROVE  LET w == Restored(v, rows, folders, kept)
         IN  Parked(w) /\ DOMAIN w.tab \subseteq DOMAIN v.tab \cup R
                       /\ (kept \notin DOMAIN v.tab => DOMAIN w.tab = R)
<1> DEFINE D == DOMAIN v.tab
           all == IF kept \in DOMAIN v.tab \ ToSet(rows) THEN Append(rows, kept) ELSE rows
           A == ToSet(all)
           record(t) == IF t \notin ToSet(rows) THEN v.tab[t]
                        ELSE IF ~Has(v, t) THEN NewTab(TRUE)
                        ELSE [v.tab[t] EXCEPT !.partner = None, !.focused = FALSE]
           m == [t \in A |-> record(t)]
           a == IF v.active \in A THEN v.active ELSE IF all = <<>> THEN None ELSE all[1]
           x == [v EXCEPT !.rows = all]
           y == [x EXCEPT !.tab = m]
           z == [y EXCEPT !.active = a]
           u == [z EXCEPT !.folders = folders]
           w == Restored(v, rows, folders, kept)
<1>1. Described(v) /\ D \subseteq Id /\ ToSet(rows) = R
  BY DEF Parked, Listed, Described, Lists
<1>2. /\ Lists(all, A) /\ A \subseteq D \cup R /\ (kept \notin D => A = R)
      /\ \A t \in A : t \notin R => t \in D
  <2>1. CASE kept \in D \ R
    <3> DEFINE k == Len(rows) + 1
    <3>1. k \in 1 .. Len(rows) + 1 /\ rows \in Seq(Id) /\ kept \in Id
      BY <1>1, <2>1, ListsIn DEF Lists
    <3>2. Lists(InsertAt(rows, k, kept), R \cup {kept})
      <4> HIDE DEF k
      <4> QED BY <2>1, <3>1, InsertLists
    <3>3. all = InsertAt(rows, k, kept)
      BY <1>1, <2>1, <3>1, InsertEnd
    <3> HIDE DEF all, k
    <3>4. A = R \cup {kept}
      BY <3>2, <3>3 DEF Lists
    <3> HIDE DEF A, D
    <3> QED BY <2>1, <3>2, <3>3, <3>4
  <2>2. CASE kept \notin D \ R
    <3>1. all = rows
      BY <1>1, <2>2
    <3>2. A = R
      BY <1>1, <3>1
    <3> HIDE DEF all, A, D
    <3> QED BY <3>1, <3>2
  <2> QED BY <2>1, <2>2
<1>3. m \in [A -> Records] /\ DOMAIN m = A /\ A \subseteq Id
  <2>1. \A t \in D : /\ v.tab[t] \in Records
                     /\ [v.tab[t] EXCEPT !.partner = None, !.focused = FALSE] \in Records
    BY <1>1, Remarks
  <2>2. NewTab(TRUE) \in Records
    BY NewTabs
  <2> HIDE DEF all
  <2> QED BY <1>1, <1>2, <2>1, <2>2 DEF Has
<1>4. w = Stored(u)
  <2>1. [v EXCEPT !.rows = all, !.tab = m,
                  !.active = IF @ \in ToSet(all) THEN @ ELSE IF all = <<>> THEN None ELSE all[1],
                  !.folders = folders] = u
    <3> HIDE DEF all, m
    <3> QED OBVIOUS
  <2> QED BY <2>1 DEF Restored
<1>5. a \in A \cup {None}
  <2>1. all # <<>> => all[1] \in A
    <3> HIDE DEF all
    <3>1. all # <<>> => 1 \in 1 .. Len(all)
      BY <1>2 DEF Lists
    <3> QED BY <1>2, <3>1, ListsIn
  <2> HIDE DEF all
  <2> QED BY <2>1
<1> HIDE DEF all, A, m, a, w
<1>6. Described(x) /\ x.rows = all /\ x.active = v.active
  BY ZenonT(60), <1>1, WithRows
<1> HIDE DEF x
<1>7. Described(y) /\ y.rows = all /\ y.tab = m
  <2>1. m \in [DOMAIN m -> Records] /\ DOMAIN m \subseteq Id
    BY <1>3
  <2> QED BY <1>6, <2>1, WithTab
<1> HIDE DEF y
<1>8. Described(z) /\ z.rows = all /\ z.tab = m /\ z.active = a
  BY ZenonT(60), <1>7, WithActive
<1> HIDE DEF z
<1>9. Described(u) /\ u.rows = all /\ u.tab = m /\ u.active = a
  BY <1>8, WithFolders
<1> HIDE DEF u
<1>10. Listed(u)
  BY <1>2, <1>3, <1>9 DEF Listed
<1>11. Listed(w) /\ w.tab = u.tab /\ w.active = u.active
  BY <1>4, <1>10, StoredKeeps
<1> QED BY <1>2, <1>3, <1>5, <1>9, <1>11 DEF Parked, w

\* What the Space on show then shows.
LEMMA ReloadedKeeps ==
  ASSUME NEW v, Parked(v), None \notin DOMAIN v.tab, NEW previous
  PROVE  LET w == Reloaded(v, previous)
         IN  Live(w) /\ DOMAIN w.tab = DOMAIN v.tab
<1> DEFINE w == Reloaded(v, previous)
<1>1. Listed(v) /\ Described(v)
  BY DEF Parked, Listed
<1>2. CASE v.rows = <<>>
  <2> DEFINE a == ArrangeInFolders(v)
             x == [a EXCEPT !.active = None]
  <2>1. w = [v EXCEPT !.active = None, !.folders = a.folders]
    BY <1>2 DEF Reloaded
  <2>2. DOMAIN v.tab = {} /\ Paired(v)
    BY <1>1, <1>2, RowIs DEF Paired
  <2>3. /\ Body(a) /\ a.tab = v.tab /\ a.active = v.active
        /\ a.closed = v.closed /\ a.away = v.away
    BY <1>1, <2>2, ArrangeKeeps
  <2> HIDE DEF a, w
  <2>4. Described(a) /\ a.rows = <<>>
    <3>1. Listed(a)
      BY <2>3 DEF Body
    <3>2. a.rows \in Seq({}) /\ Described(a)
      BY <2>2, <2>3, <3>1 DEF Listed, Lists
    <3> QED BY <3>2
  <2>5. w = x
    <3>1. w = [rows |-> v.rows, tab |-> v.tab, active |-> None, folders |-> a.folders,
               closed |-> v.closed, away |-> v.away]
      <4> DEFINE fs == a.folders
      <4>1. w = [v EXCEPT !.active = None, !.folders = fs]
        BY <2>1
      <4> HIDE DEF fs
      <4>2. v = [rows |-> v.rows, tab |-> v.tab, active |-> v.active, folders |-> v.folders,
                 closed |-> v.closed, away |-> v.away]
        BY <1>1 DEF Described
      <4>3. w = [rows |-> v.rows, tab |-> v.tab, active |-> None, folders |-> fs,
                 closed |-> v.closed, away |-> v.away]
        BY <4>1, <4>2
      <4> QED BY <4>3 DEF fs
    <3>2. w = [rows |-> a.rows, tab |-> a.tab, active |-> None, folders |-> a.folders,
               closed |-> a.closed, away |-> a.away]
      BY <1>2, <2>3, <2>4, <3>1
    <3>3. x = [rows |-> a.rows, tab |-> a.tab, active |-> None, folders |-> a.folders,
               closed |-> a.closed, away |-> a.away]
      BY <2>4 DEF Described
    <3> QED BY <3>2, <3>3
  <2>6. Live(x) /\ x.tab = a.tab
    <3> DEFINE no == None
    <3>1. no \in DOMAIN a.tab \cup {None}
      OBVIOUS
    <3> HIDE DEF no
    <3>2. Live([a EXCEPT !.active = no]) /\ [a EXCEPT !.active = no].tab = a.tab
      BY <2>3, <3>1, Activating
    <3> QED BY <3>2 DEF no
  <2> QED BY <2>3, <2>5, <2>6 DEF w
<1>3. CASE v.rows # <<>>
  <2> DEFINE p == IF Has(v, previous) THEN previous ELSE v.rows[1]
             x == [v EXCEPT !.active = p]
  <2>1. w = ArrangeInFolders(RepairSplits(x))
    BY <1>3 DEF Reloaded
  <2>2. p \in DOMAIN v.tab
    <3>1. 1 \in 1 .. Len(v.rows)
      BY <1>1, <1>3 DEF Listed, Lists
    <3> QED BY <1>1, <3>1, RowIs DEF Has
  <2> HIDE DEF p, w
  <2>3. Described(x) /\ x.rows = v.rows /\ x.tab = v.tab /\ x.active = p
    BY <1>1, WithActive
  <2> HIDE DEF x
  <2>4. Parked(x) /\ NoneAlone(x)
    BY <1>1, <2>2, <2>3 DEF Parked, Listed, NoneAlone
  <2>5. Live(ArrangeInFolders(RepairSplits(x))) /\ DOMAIN ArrangeInFolders(RepairSplits(x)).tab = DOMAIN x.tab
    BY <2>4, LoadKeeps
  <2> QED BY <2>1, <2>3, <2>5 DEF w
<1> QED BY <1>2, <1>3


\* Of the Spaces of views those in w are left, and only s has tabs it had not.
Gaining(views, w, s, N) ==
  /\ DOMAIN w \subseteq DOMAIN views /\ w = [x \in DOMAIN w |-> w[x]]
  /\ \A x \in DOMAIN w : /\ Parked(w[x])
                         /\ DOMAIN w[x].tab \subseteq DOMAIN views[x].tab \cup N
                         /\ x # s => DOMAIN w[x].tab \subseteq DOMAIN views[x].tab

\* Spaces that lose tabs, one of which gains some that were nowhere.
LEMMA Gained ==
  ASSUME NEW views, Keep(views), NEW w, NEW s, NEW N, FreeIn(views, N), Gaining(views, w, s, N)
  PROVE  Keep(w)
<1>1. Disjoint(w)
  <2> SUFFICES ASSUME NEW s1 \in DOMAIN w, NEW s2 \in DOMAIN w, s1 # s2
               PROVE  DOMAIN w[s1].tab \cap DOMAIN w[s2].tab = {}
    BY DEF Disjoint
  <2>1. s1 \in DOMAIN views /\ s2 \in DOMAIN views
    BY DEF Gaining
  <2>2. /\ DOMAIN views[s1].tab \cap DOMAIN views[s2].tab = {}
        /\ N \cap DOMAIN views[s1].tab = {} /\ N \cap DOMAIN views[s2].tab = {}
    BY <2>1 DEF FreeIn, Keep, Disjoint
  <2>3. /\ DOMAIN w[s1].tab \subseteq DOMAIN views[s1].tab \cup N
        /\ DOMAIN w[s2].tab \subseteq DOMAIN views[s2].tab \cup N
        /\ \/ DOMAIN w[s1].tab \subseteq DOMAIN views[s1].tab
           \/ DOMAIN w[s2].tab \subseteq DOMAIN views[s2].tab
    BY DEF Gaining
  <2> QED BY <2>2, <2>3
<1> QED BY <1>1 DEF Keep, Gaining

\* The tabs a checkout may hold of a Space are tabs it has or a new one.
LEMMA RowsThere ==
  ASSUME Inv, NEW s \in DOMAIN view, NEW rows \in RowsElsewhere(view[s])
  PROVE  /\ Lists(rows, ToSet(rows)) /\ None \notin ToSet(rows)
         /\ ToSet(rows) \subseteq DOMAIN view[s].tab \cup NewIds /\ ToSet(rows) \subseteq Id
<1> DEFINE v == view[s]
           D == DOMAIN v.tab
<1>1. Lists(v.rows, D) /\ D \subseteq Id /\ None \notin D
  BY DEF Inv, Settled, Keep, Parked, Listed, Described, Named
<1>2. ToSet(v.rows) = D
  BY <1>1 DEF Lists
<1>3. /\ Fresh \subseteq NewIds /\ Fresh \subseteq Tab /\ NewIds \subseteq Id
      /\ \A t \in Fresh : t \notin D /\ t # None /\ t \in Id
  BY NewOnes, TabAssumption DEF NewIds, Id
<1>4. PICK R : Lists(rows, R) /\ R \subseteq D \cup Fresh
  <2>1. CASE rows = v.rows
    BY <1>1, <2>1
  <2>2. CASE rows = Reverse(v.rows)
    <3> HIDE DEF D
    <3>1. Lists(Reverse(v.rows), D)
      BY <1>1, ReverseLists
    <3> QED BY <2>2, <3>1
  <2>3. ASSUME NEW t \in ToSet(v.rows), rows = Without(v.rows, {t})
        PROVE  \E R : Lists(rows, R) /\ R \subseteq D \cup Fresh
    <3> DEFINE one == {t}
    <3> HIDE DEF D, one
    <3>1. Lists(Without(v.rows, one), D \ one)
      BY <1>1, PartLists
    <3> QED BY <2>3, <3>1 DEF one
  <2>4. ASSUME NEW t \in Fresh, rows = Append(v.rows, t)
        PROVE  \E R : Lists(rows, R) /\ R \subseteq D \cup Fresh
    <3> DEFINE k == Len(v.rows) + 1
    <3>1. k \in 1 .. Len(v.rows) + 1
      BY <1>1 DEF Lists
    <3>2. v.rows \in Seq(Id) /\ t \in Id
      BY <1>1, <1>3, ListsIn
    <3>3. InsertAt(v.rows, k, t) = Append(v.rows, t)
      BY <3>2, InsertEnd
    <3> HIDE DEF k, D
    <3>4. Lists(InsertAt(v.rows, k, t), D \cup {t})
      BY <1>1, <1>3, <3>1, InsertLists
    <3> QED BY <2>4, <3>3, <3>4
  <2> QED BY <2>1, <2>2, <2>3, <2>4 DEF RowsElsewhere
<1>5. ToSet(rows) = R
  BY <1>4 DEF Lists
<1> HIDE DEF D
<1>6. R \subseteq Id /\ None \notin R /\ R \subseteq D \cup NewIds
  BY <1>1, <1>3, <1>4
<1> QED BY <1>4, <1>5, <1>6 DEF D

\* The Folders a checkout may hold are Folders.
LEMMA FoldersThere ==
  ASSUME Inv, NEW s \in DOMAIN view, NEW folders \in FoldersElsewhere(view[s])
  PROVE  folders \in Seq(FolderRecords)
<1>1. CASE folders = <<>>
  BY <1>1
<1>2. CASE folders # <<>>
  <2>1. PICK t \in DOMAIN view[s].tab : folders = <<[tabs |-> <<t>>, collapsed |-> FALSE]>>
    BY <1>2 DEF FoldersElsewhere
  <2>2. t \in Tab
    BY DEF Inv, Settled, Keep, Parked, Listed, Described, Named, Id
  <2>3. [tabs |-> <<t>>, collapsed |-> FALSE] \in FolderRecords
    BY <2>2 DEF FolderRecords
  <2> QED BY <2>1, <2>3
<1> QED BY <1>1, <1>2

\* Every Space as the checkout has it: its tabs are its own, or rows' in s.
LEMMA RestoredThere ==
  ASSUME Inv, NEW s, NEW rows, Lists(rows, ToSet(rows)), None \notin ToSet(rows),
         ToSet(rows) \subseteq Id,
         s \in DOMAIN view => ToSet(rows) \subseteq DOMAIN view[s].tab \cup NewIds,
         NEW folders \in Seq(FolderRecords), NEW x \in DOMAIN view, NEW kept
  PROVE  LET w == Restored(view[x], IF x = s THEN rows ELSE view[x].rows,
                           IF x = s THEN folders ELSE view[x].folders, kept)
         IN  /\ Parked(w) /\ None \notin DOMAIN w.tab
             /\ DOMAIN w.tab \subseteq DOMAIN view[x].tab \cup NewIds
             /\ x # s => DOMAIN w.tab \subseteq DOMAIN view[x].tab
<1> DEFINE v == view[x]
           r == IF x = s THEN rows ELSE v.rows
           R == IF x = s THEN ToSet(rows) ELSE DOMAIN v.tab
           f == IF x = s THEN folders ELSE v.folders
           w == Restored(v, r, f, kept)
<1>1. Parked(v) /\ Lists(v.rows, DOMAIN v.tab) /\ DOMAIN v.tab \subseteq Id
      /\ None \notin DOMAIN v.tab /\ v.folders \in Seq(FolderRecords)
  BY DEF Inv, Settled, Keep, Parked, Listed, Described, Named
<1>2. f \in Seq(FolderRecords)
  <2> DEFINE S == Seq(FolderRecords)
  <2>1. folders \in S /\ v.folders \in S
    BY <1>1
  <2> HIDE DEF S
  <2>2. f \in S
    BY <2>1
  <2> QED BY <2>2 DEF S
<1>3. /\ Lists(r, R) /\ R \subseteq Id /\ None \notin R /\ R \subseteq DOMAIN v.tab \cup NewIds
      /\ x # s => R \subseteq DOMAIN v.tab
  BY <1>1
<1> HIDE DEF v, r, R, f
<1>4. Parked(w) /\ DOMAIN w.tab \subseteq DOMAIN v.tab \cup R
  BY <1>1, <1>2, <1>3, RestoredKeeps
<1> HIDE DEF w
<1>5. /\ Parked(w) /\ None \notin DOMAIN w.tab
      /\ DOMAIN w.tab \subseteq DOMAIN v.tab \cup NewIds
      /\ x # s => DOMAIN w.tab \subseteq DOMAIN v.tab
  BY <1>1, <1>3, <1>4
<1> QED BY <1>5 DEF w, v, r, f

\* An applied checkout.
LEMMA SyncStep ==
  ASSUME Inv, NEW s \in DOMAIN view, NEW rows, Lists(rows, ToSet(rows)), None \notin ToSet(rows),
         ToSet(rows) \subseteq Id, ToSet(rows) \subseteq DOMAIN view[s].tab \cup NewIds,
         NEW folders \in Seq(FolderRecords), NEW gone, NEW adopt,
         SyncApply(s, rows, folders, gone, adopt)
  PROVE  Inv'
<1> DEFINE rest == Without(spaces, gone)
           kept == IF adopt THEN None ELSE Here.active
           left == [x \in DOMAIN view \ gone |->
                      Restored(view[x], IF x = s THEN rows ELSE view[x].rows,
                               IF x = s THEN folders ELSE view[x].folders,
                               IF x = shown THEN kept ELSE None)]
           on == IF shown \in gone THEN Head(rest) ELSE shown
           A == Reloaded(left[on], Here.active)
           after == [left EXCEPT ![on] = A]
           D == DOMAIN view \ gone
<1>1. /\ rest # <<>> /\ spaces' = rest /\ Become(after) /\ shown' = on
      /\ RefreshRetained(after, on)
  BY DEF SyncApply
<1>2. Lists(rest, D) /\ Head(rest) \in D /\ shown \in DOMAIN view /\ D \subseteq Space
      /\ Keep(view) /\ FreeIn(view, NewIds)
  <2>1. /\ DOMAIN Restrict(view, D) = D /\ Lists(rest, DOMAIN Restrict(view, D))
        /\ Head(rest) \in DOMAIN Restrict(view, D)
    BY <1>1, SpacesLeft
  <2> HIDE DEF D, rest
  <2>2. Lists(rest, D) /\ Head(rest) \in D
    BY <2>1
  <2> QED BY <2>2, NewOnes DEF Inv, Settled, D
<1>3. on \in D
  BY <1>2
<1>4. \A x \in D : /\ Parked(left[x]) /\ None \notin DOMAIN left[x].tab
                   /\ DOMAIN left[x].tab \subseteq DOMAIN view[x].tab \cup NewIds
                   /\ x # s => DOMAIN left[x].tab \subseteq DOMAIN view[x].tab
  <2> TAKE x \in D
  <2> DEFINE k == IF x = shown THEN kept ELSE None
  <2>1. left[x] = Restored(view[x], IF x = s THEN rows ELSE view[x].rows,
                           IF x = s THEN folders ELSE view[x].folders, k)
    OBVIOUS
  <2>2. x \in DOMAIN view /\ (s \in DOMAIN view => ToSet(rows) \subseteq DOMAIN view[s].tab \cup NewIds)
    OBVIOUS
  <2> DEFINE w == Restored(view[x], IF x = s THEN rows ELSE view[x].rows,
                           IF x = s THEN folders ELSE view[x].folders, k)
  <2> HIDE DEF left, k, kept, rest, D
  <2>3. /\ Parked(w) /\ None \notin DOMAIN w.tab
        /\ DOMAIN w.tab \subseteq DOMAIN view[x].tab \cup NewIds
        /\ x # s => DOMAIN w.tab \subseteq DOMAIN view[x].tab
    BY <2>2, RestoredThere
  <2>4. left[x] = w
    BY <2>1
  <2> HIDE DEF w
  <2> QED BY <2>3, <2>4
<1>5. DOMAIN left = D /\ left = [x \in D |-> left[x]]
  OBVIOUS
<1> HIDE DEF left, rest, on
<1>6. Keep(left)
  <2> DEFINE N == NewIds
  <2> HIDE DEF N
  <2>1. Gaining(view, left, s, N) /\ FreeIn(view, N)
    BY <1>2, <1>4, <1>5 DEF Gaining, N
  <2> QED BY <1>2, <2>1, Gained
<1>7. Live(A) /\ DOMAIN A.tab = DOMAIN left[on].tab
  <2> DEFINE v == left[on]
             p == Here.active
  <2>1. Parked(v) /\ None \notin DOMAIN v.tab
    BY <1>3, <1>4
  <2> HIDE DEF v, p
  <2>2. Live(Reloaded(v, p)) /\ DOMAIN Reloaded(v, p).tab = DOMAIN v.tab
    BY <2>1, ReloadedKeeps
  <2> QED BY <2>2 DEF v, p
<1> HIDE DEF A
<1>8. Keep(after) /\ DOMAIN after = D /\ after[on] = A
  <2> DEFINE N == {}
  <2>1. /\ FreeIn(left, N) /\ DOMAIN A.tab \subseteq DOMAIN left[on].tab \cup N
        /\ Parked(A) /\ on \in DOMAIN left
    BY <1>3, <1>5, <1>7 DEF FreeIn, Live, Body, Parked
  <2> HIDE DEF N
  <2>2. Keep(after) /\ DOMAIN after = DOMAIN left /\ after[on] = A
    BY <1>6, <2>1, Changed
  <2> QED BY <1>5, <2>2
<1> HIDE DEF after, D
<1>9. Settled(after, on)
  BY <1>3, <1>7, <1>8 DEF Settled
<1>10. Lists(spaces', DOMAIN after) /\ DOMAIN after \subseteq Space
  BY <1>1, <1>2, <1>8
<1> QED BY <1>1, <1>9, <1>10, Refreshed

\* Whatever checkout is applied.
LEMMA SyncSteps ==
  ASSUME Inv, SyncNext
  PROVE  Inv'
<1>1. ToSet(spaces) = DOMAIN view
  BY DEF Inv, Lists
<1>2. \A s \in DOMAIN view : /\ view[s].rows \in RowsElsewhere(view[s])
                             /\ view[s].folders \in Seq(FolderRecords)
  BY DEF RowsElsewhere, Inv, Settled, Keep, Parked, Listed, Described
<1>3. ASSUME NEW s \in DOMAIN view, NEW adopt, NEW rows \in RowsElsewhere(view[s]),
             SyncApply(s, rows, view[s].folders, {}, adopt)
      PROVE  Inv'
  <2> DEFINE folders == view[s].folders
             gone == {}
  <2>1. folders \in Seq(FolderRecords) /\ SyncApply(s, rows, folders, gone, adopt)
    BY <1>2, <1>3
  <2> HIDE DEF folders, gone
  <2> QED BY <2>1, RowsThere, SyncStep
<1>4. ASSUME NEW s \in DOMAIN view, NEW folders \in FoldersElsewhere(view[s]),
             SyncApply(s, view[s].rows, folders, {}, FALSE)
      PROVE  Inv'
  <2> DEFINE rows == view[s].rows
             gone == {}
             adopt == FALSE
  <2>1. /\ folders \in Seq(FolderRecords) /\ rows \in RowsElsewhere(view[s])
        /\ SyncApply(s, rows, folders, gone, adopt)
    BY <1>2, <1>4, FoldersThere
  <2> HIDE DEF rows, gone, adopt
  <2> QED BY <2>1, RowsThere, SyncStep
<1>5. ASSUME NEW s \in DOMAIN view, SyncApply(s, view[s].rows, view[s].folders, {s}, FALSE)
      PROVE  Inv'
  <2> DEFINE rows == view[s].rows
             folders == view[s].folders
             gone == {s}
             adopt == FALSE
  <2>1. /\ folders \in Seq(FolderRecords) /\ rows \in RowsElsewhere(view[s])
        /\ SyncApply(s, rows, folders, gone, adopt)
    BY <1>2, <1>5
  <2> HIDE DEF rows, folders, gone, adopt
  <2> QED BY <2>1, RowsThere, SyncStep
<1> QED BY <1>1, <1>3, <1>4, <1>5 DEF SyncNext

-----------------------------------------------------------------------------
(* The invariant                                                           *)

\* Spaces that are switched, made, deleted and put away from.
LEMMA SpaceSteps ==
  ASSUME Inv, SpaceNext
  PROVE  Inv'
<1>1. ASSUME NEW old, NEW refused, PutAwayUnused(old, refused)
      PROVE  Inv'
  BY <1>1, PutAwayStep
<1>2. ASSUME NEW s \in ToSet(spaces), Expire(s)
      PROVE  Inv'
  BY <1>2, ExpireStep
<1>3. ASSUME NEW s \in ToSet(spaces), NEW b \in Spare, NEW old, SwitchSpace(s, b, old)
      PROVE  Inv'
  BY <1>3, SwitchStep
<1>4. ASSUME NEW s \in Away, NEW t, NEW b \in Spare, NEW old, ActivateInSpace(s, t, b, old)
      PROVE  Inv'
  BY <1>4, ActivateInSpaceStep
<1>5. ASSUME NEW s \in Space \ ToSet(spaces), CreateSpace(s)
      PROVE  Inv'
  BY <1>5, CreateSpaceStep
<1>6. ASSUME NEW s \in ToSet(spaces), NEW b \in Spare, DeleteSpace(s, b)
      PROVE  Inv'
  BY <1>6, DeleteSpaceStep
<1> QED BY <1>1, <1>2, <1>3, <1>4, <1>5, <1>6 DEF SpaceNext

\* A window starts on one Space with one blank tab.
LEMMA InitKeeps ==
  ASSUME Init
  PROVE  Inv
<1>1. PICK s \in Space, t \in Tab :
        /\ spaces = <<s>> /\ view = [x \in {s} |-> OpenTab(EmptyView, t, FALSE)] /\ shown = s
        /\ retained = {} /\ awayWindows = {} /\ windows = {}
  BY DEF Init
<1> DEFINE v == OpenTab(EmptyView, t, FALSE)
<1>2. view = [x \in {s} |-> v]
  BY <1>1
<1>3. t \in Id /\ t # None
  BY TabAssumption DEF Id
<1>4. /\ Live(v) /\ DOMAIN v.tab = {t} /\ v.tab[t] = NewTab(FALSE)
  <2> DEFINE e == EmptyView
             no == FALSE
  <2>1. Body(e) /\ DOMAIN e.tab = {} /\ t \in Id \ DOMAIN e.tab /\ no \in BOOLEAN
    BY <1>3, EmptyIs DEF Live
  <2> HIDE DEF e, no
  <2>2. /\ Live(OpenTab(e, t, no)) /\ DOMAIN OpenTab(e, t, no).tab = DOMAIN e.tab \cup {t}
        /\ OpenTab(e, t, no).tab[t] = NewTab(no)
    BY <2>1, OpenKeeps
  <2> QED BY <2>1, <2>2 DEF e, no
<1>5. Popped(v) = {}
  BY <1>4, NewTabs DEF Popped
<1> HIDE DEF v
<1>6. Parked(v)
  BY <1>4 DEF Live, Body, Parked
<1>7. Settled(view, shown) /\ Named(view)
  BY <1>1, <1>2, <1>3, <1>4, <1>6 DEF Settled, Keep, Disjoint, Named
<1>8. Lists(spaces, DOMAIN view)
  BY <1>1, <1>2, SmallLists
<1>9. Cached(view, shown, retained, awayWindows, windows)
  BY <1>1, <1>2, <1>5 DEF Cached, TabWindows
<1> QED BY <1>2, <1>7, <1>8, <1>9 DEF Inv

\* The invariant holds throughout.
LEMMA InvHolds ==
  ASSUME ~WindowsSplit
  PROVE  Spec => []Inv
<1>1. Init => Inv
  BY InitKeeps
<1>2. Inv /\ [Next]_vars => Inv'
  <2>1. ASSUME Inv, Next
        PROVE  Inv'
    BY <2>1, LiveSteps, FolderSteps, AwayNextSteps, SpaceSteps, SyncSteps DEF Next
  <2>2. ASSUME Inv, UNCHANGED vars
        PROVE  Inv'
    BY <2>2 DEF vars, Inv
  <2> QED BY <2>1, <2>2
<1> QED BY <1>1, <1>2, PTL DEF Spec

-----------------------------------------------------------------------------
(* What it says                                                            *)

\* Every Space's tabs are listed once and described, and its active tab is one
\* of them (BrowserController.cpp saveTabs, saveAwayTabs, repairSplits,
\* reloadSyncedState).
THEOREM TypeCorrect == ASSUME ~WindowsSplit PROVE Spec => []TypeOK
<1>1. ASSUME Inv
      PROVE  TypeOK
  <2>1. ASSUME NEW v, Parked(v), None \notin DOMAIN v.tab
        PROVE  ViewOK(v) /\ DOMAIN v.tab \subseteq Tab
    <3>1. /\ Lists(v.rows, DOMAIN v.tab) /\ Described(v) /\ v.active \in DOMAIN v.tab \cup {None}
      BY <2>1 DEF Parked, Listed
    <3>2. DOMAIN v.tab \subseteq Tab
      BY <2>1, <3>1 DEF Described, Id
    <3>3. v.rows \in Seq(Tab)
      BY <3>1, <3>2, ListsIn
    <3>4. ToSet(v.rows) = DOMAIN v.tab
      BY <3>1 DEF Lists
    <3>5. Len(v.rows) = Cardinality(ToSet(v.rows))
      BY <3>1, <3>4, ListsLen
    <3>6. \A t \in DOMAIN v.tab : v.tab[t] \in TabRecords
      BY <3>1 DEF Described, Records
    <3>7. v.folders \in Seq(Folders)
      BY <3>1 DEF Described, FolderRecords, Folders
    <3> QED BY <3>1, <3>2, <3>3, <3>4, <3>5, <3>6, <3>7 DEF ViewOK, Described
  <2>2. \A s \in DOMAIN view : ViewOK(view[s]) /\ DOMAIN view[s].tab \subseteq Tab
    BY <1>1, <2>1 DEF Inv, Settled, Keep, Named
  <2>3. /\ ToSet(spaces) = DOMAIN view /\ DOMAIN view \subseteq Space /\ shown \in DOMAIN view
        /\ Len(spaces) = Cardinality(ToSet(spaces))
    BY <1>1, ListsLen DEF Inv, Lists, Settled
  <2>4. retained \subseteq Tab /\ awayWindows \subseteq Tab /\ windows \subseteq Tab
    BY <1>1, <2>2, <2>3 DEF Inv, Cached, TabWindows, Retains, Popped
  <2> QED BY <2>2, <2>3, <2>4 DEF TypeOK
<1>2. Inv => TypeOK
  BY <1>1
<1> QED BY <1>2, InvHolds, PTL

\* No tab is in two Spaces (BrowserController.cpp confirmTabMoveToSpace,
\* SqliteSessionStore.cpp saveSpaceMove).
THEOREM InOneSpace == ASSUME ~WindowsSplit PROVE Spec => []OneSpacePerTab
<1>1. Inv => OneSpacePerTab
  BY DEF Inv, Settled, Keep, Disjoint, OneSpacePerTab
<1> QED BY <1>1, InvHolds, PTL

\* A split on show is two unpinned tabs naming each other, one of them focused
\* (BrowserController.cpp pairTabs, unpairTab, repairSplits).
THEOREM WholeSplits == ASSUME ~WindowsSplit PROVE Spec => []SplitsAreWhole
<1>1. ASSUME Inv
      PROVE  SplitsAreWhole
  <2>1. Paired(Here)
    BY <1>1 DEF Inv, Settled, Live, Body, Here
  <2> QED BY <2>1 DEF Paired, WholeSplit, SplitsAreWhole, Whole
<1>2. Inv => SplitsAreWhole
  BY <1>1
<1> QED BY <1>2, InvHolds, PTL

\* The Folders on show name unpinned tabs that are there, each once and a split
\* as one row, and the sidebar is the pins, the Folders' tabs and the loose tabs
\* (BrowserController.cpp settleFolders, arrangeTabsInFolders).
THEOREM FoldersHoldTheirRows == ASSUME ~WindowsSplit PROVE Spec => []FoldersHoldRows
<1>1. ASSUME Inv
      PROVE  FoldersHoldRows
  <2> DEFINE v == Here
             held == HeldRows(v)
  <2>1. Body(v) /\ Described(v) /\ Filed(v) /\ Sorted(v)
    BY <1>1 DEF Inv, Settled, Live, Body, Listed, Here
  <2> HIDE DEF v
  <2>2. Lists(held, Held(v))
    BY <2>1, HeldLists
  <2>3. ToSet(held) = Held(v) /\ Len(held) = Cardinality(ToSet(held))
    BY <2>2, ListsLen DEF Lists
  <2>4. ASSUME NEW t \in Held(v)
        PROVE  /\ Has(v, t) /\ ~v.tab[t].pinned
               /\ v.tab[t].partner # None => FolderOf(v, v.tab[t].partner) = FolderOf(v, t)
    <3>1. PICK f \in DOMAIN v.folders : t \in InFolder(v, f)
      BY DEF Held, InFolder
    <3>2. /\ Has(v, t) /\ ~v.tab[t].pinned
          /\ v.tab[t].partner # None => v.tab[t].partner \in InFolder(v, f)
      BY <2>1, <3>1 DEF Filed
    <3>3. \A u \in InFolder(v, f) : FolderOf(v, u) = f
      BY <2>1, FolderIs
    <3> QED BY <3>1, <3>2, <3>3
  <2>5. v.rows = (Pins(v) \o held) \o Loose(v)
    BY <2>1 DEF Sorted
  <2> HIDE DEF held
  <2> QED BY <2>3, <2>4, <2>5 DEF FoldersHoldRows, v, held
<1>2. Inv => FoldersHoldRows
  BY <1>1
<1> QED BY <1>2, InvHolds, PTL

\* The pins stand before the other rows (BrowserController.cpp setTabPinned,
\* moveTab, reopenTab).
THEOREM PinsFirst == ASSUME ~WindowsSplit PROVE Spec => []PinsComeFirst
<1>1. ASSUME Inv
      PROVE  PinsComeFirst
  <2>1. Body(Here)
    BY <1>1 DEF Inv, Settled, Live, Here
  <2> QED BY <2>1, SortedPins DEF PinsComeFirst
<1>2. Inv => PinsComeFirst
  BY <1>1
<1> QED BY <1>2, InvHolds, PTL

\* The pages that go on running for the Spaces that are away, and the windows
\* listed, are those the stores name (BrowserController.cpp
\* refreshRetainedTabs, refreshTabWindows).
THEOREM CachesHold == ASSUME ~WindowsSplit PROVE Spec => []CachesAreCurrent
<1>1. ASSUME Inv
      PROVE  CachesAreCurrent
  <2>1. Away = DOMAIN view \ {shown} /\ shown \in DOMAIN view
    BY <1>1 DEF Inv, Lists, Settled, Away
  <2>2. UNION {Popped(view[s]) : s \in DOMAIN view}
          = Popped(view[shown]) \cup UNION {Popped(view[s]) : s \in DOMAIN view \ {shown}}
    BY <2>1
  <2> QED BY <1>1, <2>1, <2>2 DEF Inv, Cached, TabWindows, CachesAreCurrent
<1>2. Inv => CachesAreCurrent
  BY <1>1
<1> QED BY <1>2, InvHolds, PTL

=============================================================================
