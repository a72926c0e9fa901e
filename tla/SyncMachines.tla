---------------------------- MODULE SyncMachines ----------------------------
(***************************************************************************)
(* Several machines that keep their tabs in step through one git           *)
(* repository (modules/sync/SyncModule.cpp, the pass as                    *)
(* modules/sync/SyncController.cpp runs it).                               *)
(*                                                                         *)
(* A pass captures the session store into the machine's checkout and       *)
(* commits, fetches and merges the remote, pushes, may compact the history *)
(* into a snapshot, and then applies the merged checkout to the store on   *)
(* the shell thread.  The reader edits at any point of it, the passes of   *)
(* the machines interleave step by step, and a pass may be cut short       *)
(* (an error, a lost lease, Pause, a crash) between any two steps.         *)
(*                                                                         *)
(* git is modelled by what it does to the trees: base[m] is the tree of    *)
(* the last remote head HEAD of machine m contains, current[m] says that   *)
(* it still is the remote's head (a push of m then fast-forwards and its   *)
(* lease holds), and baseEpoch[m] names the snapshot HEAD descends from:   *)
(* heads of different snapshots have no common ancestor.                   *)
(***************************************************************************)
EXTENDS SyncRecords

CONSTANTS
  Creator,          \* the machine whose connection created the repository
  FirstItems,       \* what each machine's store holds before Sync: [Machines -> Contents]
  NoTree,           \* an inventory that records no applied tree
  MaxEdits,         \* bound: edits of the readers, all machines together
  MaxClock,         \* bound: the clock of modifiedAt
  MaxEpoch,         \* bound: compactions of the repository
  Retention,        \* tombstoneRetentionMilliseconds, in ticks of the clock
  MaxCuts,          \* bound: passes cut short by something else than a refusal
  GuardsTabs,       \* whether a machine has an active tab to hold back
  CutsMerges        \* whether a pass may stop between two resolved conflicts

ASSUME MachineAssumption ==
  /\ Creator \in Machines
  /\ FirstItems \in [Machines -> Contents]
  /\ {MaxEdits, MaxClock, MaxEpoch, MaxCuts, Retention} \subseteq Nat
  /\ {GuardsTabs, CutsMerges} \subseteq BOOLEAN
  /\ NoTree \notin Checkouts \X Nat

VARIABLES
  \* the repository on the forge
  remote,       \* the tree of origin/main
  remoteEpoch,  \* the epoch in its meta.json
  published,    \* whether origin/main exists
  \* each machine
  items,        \* the session store
  intent,       \* "reconcile" or "adopt" (SyncIntent)
  tree,         \* the committed checkout
  meta,         \* the epoch in the checkout's meta.json
  ahead,        \* HEAD holds a commit that remote head does not
  base,         \* the tree of the last remote head that HEAD contains
  baseEpoch,    \* the snapshot HEAD descends from
  current,      \* that head still is origin/main
  applied,      \* the inventory applied-records.json: digest of each record
  appliedTree,  \* its appliedTree: <<tree, epoch>> or NoTree
  \* the pass
  pc,           \* where the pass of the machine is
  guarded,      \* protectedTabId, captured when the pass started
  moved,        \* the local generation moved on since the running pass started
  news,         \* m_remoteEpochAdvanced or m_remoteStateChanged
  insync,       \* the last pass ended in step and nothing was edited since
  \* bounded surroundings
  clock,        \* the time of the last capture that wrote something
  stamped,      \* the time of the last such capture of each machine
  edits, cuts, used

repository == <<remote, remoteEpoch, published>>
checkout == <<tree, meta, ahead, base, baseEpoch>>
inventory == <<applied, appliedTree>>
passVars == <<pc, guarded, moved, news>>
bounds == <<clock, stamped, edits, cuts, used>>
vars == <<repository, items, intent, checkout, current, inventory, passVars, insync, bounds>>

Phases == {"idle", "capture", "fetch", "push", "compact", "lease", "reset", "apply"}
Epochs == 0 .. MaxEpoch + 1
AppliedTrees == (Checkouts \X Epochs) \cup {NoTree}
Empty == [id \in Ids |-> NoRecord]

TypeOK ==
  /\ remote \in Checkouts /\ remoteEpoch \in Epochs /\ published \in BOOLEAN
  /\ items \in [Machines -> Contents]
  /\ intent \in [Machines -> {"reconcile", "adopt"}]
  /\ tree \in [Machines -> Checkouts] /\ base \in [Machines -> Checkouts]
  /\ meta \in [Machines -> Epochs] /\ baseEpoch \in [Machines -> Epochs]
  /\ {current, ahead} \subseteq [Machines -> BOOLEAN]
  /\ applied \in [Machines -> Contents]
  /\ appliedTree \in [Machines -> AppliedTrees]
  /\ pc \in [Machines -> Phases]
  /\ guarded \in [Machines -> Ids \cup {None}]
  /\ {moved, news, insync} \subseteq [Machines -> BOOLEAN]
  /\ clock \in 0 .. MaxClock /\ stamped \in [Machines -> 0 .. MaxClock]
  /\ edits \in 0 .. MaxEdits /\ cuts \in 0 .. MaxCuts
  /\ used \subseteq Ids

Init ==
  /\ remote = Empty /\ remoteEpoch = 0 /\ published = FALSE
  /\ items = FirstItems
  /\ intent = [m \in Machines |-> IF m = Creator THEN "reconcile" ELSE "adopt"]
  /\ tree = [m \in Machines |-> Empty] /\ base = tree
  /\ meta = [m \in Machines |-> 0] /\ baseEpoch = meta
  /\ current = [m \in Machines |-> FALSE] /\ ahead = current
  /\ applied = [m \in Machines |-> [id \in Ids |-> None]]
  /\ appliedTree = [m \in Machines |-> NoTree]
  /\ pc = [m \in Machines |-> "idle"]
  /\ guarded = [m \in Machines |-> None]
  /\ moved = [m \in Machines |-> FALSE] /\ news = moved /\ insync = moved
  /\ clock = 0 /\ stamped = [m \in Machines |-> 0] /\ edits = 0 /\ cuts = 0
  /\ used = {id \in Ids : \E m \in Machines : FirstItems[m][id] # None}

-----------------------------------------------------------------------------
(* The reader                                                              *)

\* A change of the store that the Sync projection sees: the generation moves on.
Edit(m, id, v) ==
  /\ edits < MaxEdits
  /\ items' = [items EXCEPT ![m][id] = v]
  /\ moved' = [moved EXCEPT ![m] = pc[m] # "idle"]
  /\ insync' = [insync EXCEPT ![m] = FALSE]
  /\ edits' = edits + 1
  /\ UNCHANGED <<repository, intent, checkout, current, inventory, pc, guarded, news, clock, stamped, cuts>>

OpenTab(m, id, v) ==
  /\ id \notin used
  /\ used' = used \cup {id}
  /\ Edit(m, id, v)

ChangeTab(m, id, v) ==
  /\ items[m][id] \in Vals \ {v}
  /\ Edit(m, id, v)
  /\ UNCHANGED used

CloseTab(m, id) ==
  /\ items[m][id] # None
  /\ Edit(m, id, None)
  /\ UNCHANGED used

-----------------------------------------------------------------------------
(* The pass on its worker thread                                           *)

Goto(m, phase) == pc' = [pc EXCEPT ![m] = phase]

Continue(m, phase) == Goto(m, phase) /\ UNCHANGED <<guarded, moved, news>>

\* The SyncModule of the pass goes, and with it what it had learnt.
EndPass(m) ==
  /\ Goto(m, "idle")
  /\ moved' = [moved EXCEPT ![m] = FALSE]
  /\ news' = [news EXCEPT ![m] = FALSE]
  /\ UNCHANGED guarded

\* syncNow: the checkpoint takes the generation and the tab being looked at.
\* A machine that joins an existing repository adopts it: no capture.  The
\* forge calls a repository without meta.json new, so adopting one that holds
\* nothing does not arise.
StartPass(m) ==
  /\ pc[m] = "idle"
  /\ \/ intent[m] = "reconcile" /\ Goto(m, "capture")
     \/ intent[m] = "adopt" /\ published /\ Goto(m, "fetch")
  /\ \E id \in (IF GuardsTabs /\ intent[m] = "reconcile" THEN Ids ELSE {}) \cup {None} :
       /\ id # None => items[m][id] # None
       /\ guarded' = [guarded EXCEPT ![m] = id]
  /\ moved' = [moved EXCEPT ![m] = FALSE]
  /\ news' = [news EXCEPT ![m] = FALSE]
  /\ insync' = [insync EXCEPT ![m] = FALSE]
  /\ UNCHANGED <<repository, items, intent, checkout, current, inventory, bounds>>

\* The time of a capture: one of the machine's own, later than the revisions it
\* writes over, which came over the network or from an earlier capture.
Stamps(m) ==
  {t \in {clock, clock + 1} : t <= MaxClock /\ stamped[m] < t /\ \A id \in Ids :
     \/ Capture(tree[m], items[m], applied[m], t, m)[id] = tree[m][id]
     \/ tree[m][id].at < t}

\* reconcileRemote up to the commit.  The epoch is written back as it was read.
CaptureStore(m) ==
  /\ pc[m] = "capture"
  /\ \/ /\ Capture(tree[m], items[m], applied[m], clock, m) = tree[m]
        /\ UNCHANGED <<tree, ahead, clock, stamped>>
     \/ /\ Capture(tree[m], items[m], applied[m], clock, m) # tree[m]
        /\ \E t \in Stamps(m) :
             /\ tree' = [tree EXCEPT ![m] = Capture(@, items[m], applied[m], t, m)]
             /\ clock' = t
             /\ stamped' = [stamped EXCEPT ![m] = t]
        /\ ahead' = [ahead EXCEPT ![m] = TRUE]
  /\ Continue(m, "fetch")
  /\ UNCHANGED <<repository, items, intent, meta, base, baseEpoch, current, inventory,
                 insync, edits, cuts, used>>

\* The adopting pass writes the local baseline before it fetches, once.
\* (An inventory of an empty store counts as none here; nothing reads the
\* inventory of an adopting machine before its apply replaces it.)
Baseline(m) ==
  IF intent[m] = "adopt" /\ applied[m] = [id \in Ids |-> None]
  THEN applied' = [applied EXCEPT ![m] = items[m]]
  ELSE UNCHANGED applied

\* HEAD takes in origin/main with the tree t, which changed the checkout or not.
TakeRemote(m, t, changed) ==
  /\ tree' = [tree EXCEPT ![m] = t]
  /\ base' = [base EXCEPT ![m] = remote]
  /\ current' = [current EXCEPT ![m] = TRUE]
  /\ Goto(m, IF intent[m] = "adopt" THEN "apply" ELSE "push")
  /\ news' = [news EXCEPT ![m] = changed]
  /\ UNCHANGED <<guarded, moved>>

\* A repository with an older epoch, and one of the same epoch whose history is
\* unrelated: git merge refuses it and there is no conflict to resolve.
RefuseRemote(m) ==
  /\ \/ remoteEpoch < meta[m]
     \/ remoteEpoch = meta[m] /\ baseEpoch[m] # remoteEpoch
  /\ EndPass(m)
  /\ UNCHANGED <<checkout, current>>

\* A newer epoch replaces the checkout, commits of its own included.
TakeSnapshot(m) ==
  /\ remoteEpoch > meta[m]
  /\ TakeRemote(m, remote, TRUE)
  /\ ahead' = [ahead EXCEPT ![m] = FALSE]
  /\ meta' = [meta EXCEPT ![m] = remoteEpoch]
  /\ baseEpoch' = [baseEpoch EXCEPT ![m] = remoteEpoch]

MergeRecords(m) ==
  /\ remoteEpoch = meta[m]
  /\ baseEpoch[m] = remoteEpoch
  /\ LET merged == Merge(base[m], tree[m], remote)
     IN TakeRemote(m, merged, merged # tree[m])
  /\ UNCHANGED <<meta, ahead, baseEpoch>>

\* Bug variant of MergeRemote: a newer epoch is merged like any other head.
MergeAnyNewer(m) ==
  \/ remoteEpoch < meta[m] /\ EndPass(m) /\ UNCHANGED <<checkout, current>>
  \/ /\ remoteEpoch >= meta[m]
     /\ TakeRemote(m, Merge(base[m], tree[m], remote), TRUE)
     /\ UNCHANGED <<meta, ahead, baseEpoch>>

\* mergeRemote.
MergeRemote(m) == RefuseRemote(m) \/ TakeSnapshot(m) \/ MergeRecords(m)

Fetch(m) ==
  /\ pc[m] = "fetch"
  /\ Baseline(m)
  /\ \/ published /\ MergeRemote(m)
     \/ ~published /\ Continue(m, "push") /\ UNCHANGED <<checkout, current>>
  /\ UNCHANGED <<repository, items, intent, appliedTree, insync, bounds>>

\* origin/main moves to the tree of m, so no other machine's head is current.
\* The new head has m's own HEAD as its last common ancestor with m.
Publishes(m) ==
  /\ remote' = tree[m]
  /\ published' = TRUE
  /\ base' = [base EXCEPT ![m] = tree[m]]
  /\ current' = [n \in Machines |-> n = m]

\* git push origin HEAD:main takes a fast-forward only, and moves nothing where
\* HEAD is the remote's head already.
Push(m) ==
  /\ pc[m] = "push"
  /\ \/ /\ published => current[m] /\ ahead[m]
        /\ Publishes(m)
        /\ ahead' = [ahead EXCEPT ![m] = FALSE]
        /\ Continue(m, "compact")
     \/ /\ published /\ current[m] /\ ~ahead[m]
        /\ Continue(m, "compact")
        /\ UNCHANGED <<remote, published, ahead, base, current>>
     \/ /\ published /\ ~current[m]
        /\ EndPass(m)
        /\ UNCHANGED <<remote, published, ahead, base, current>>
  /\ UNCHANGED <<remoteEpoch, items, intent, tree, meta, baseEpoch, inventory, insync,
                 bounds>>

\* compactHistoryIfNeeded: the history is short and young, or it is not and
\* the next epoch is written to meta.json and staged.
KeepHistory(m) ==
  /\ pc[m] = "compact"
  /\ Continue(m, "apply")
  /\ UNCHANGED <<repository, items, intent, checkout, current, inventory, insync,
                 bounds>>

StageSnapshot(m) ==
  /\ pc[m] = "compact"
  /\ meta[m] < MaxEpoch
  /\ tree' = [tree EXCEPT ![m] = Compacted(@, clock, Retention)]
  /\ meta' = [meta EXCEPT ![m] = @ + 1]
  /\ Continue(m, "lease")
  /\ UNCHANGED <<repository, items, intent, ahead, base, baseEpoch, current, inventory,
                 insync, bounds>>

\* git push --force-with-lease: refused once another machine pushed.
PushSnapshot(m) ==
  /\ pc[m] = "lease"
  /\ \/ /\ current[m]
        /\ Publishes(m)
        /\ remoteEpoch' = meta[m]
        /\ Continue(m, "reset")
     \/ /\ ~current[m]
        /\ EndPass(m)
        /\ UNCHANGED <<repository, base, current>>
  /\ UNCHANGED <<items, intent, tree, meta, ahead, baseEpoch, inventory, insync,
                 bounds>>

\* git reset --hard onto the snapshot: HEAD descends from it from here on.
ResetToSnapshot(m) ==
  /\ pc[m] = "reset"
  /\ baseEpoch' = [baseEpoch EXCEPT ![m] = meta[m]]
  /\ Continue(m, "apply")
  /\ UNCHANGED <<repository, items, intent, tree, meta, ahead, base, current,
                 inventory, insync, bounds>>

-----------------------------------------------------------------------------
(* The end of a pass, on the shell thread                                  *)

\* Bug variant of UpToDate: the generation is not compared.
AtTheEnd(m) == pc[m] = "apply"

\* The checkpoint still names the local generation the pass started from.
UpToDate(m) == pc[m] = "apply" /\ ~moved[m]

\* Bug variant of AwaitsLocalApply: only what this pass itself fetched counts.
AwaitsNews(m) == intent[m] = "adopt" \/ news[m]

\* awaitsLocalApply, checkoutAheadOfLocalState its last disjunct.
AwaitsLocalApply(m) ==
  \/ intent[m] = "adopt"
  \/ news[m]
  \/ appliedTree[m] # <<tree[m], meta[m]>>

\* A newer generation defers the apply to a later pass.
Defer(m) ==
  /\ pc[m] = "apply"
  /\ moved[m]
  /\ EndPass(m)
  /\ UNCHANGED <<repository, items, intent, checkout, current, inventory, insync,
                 bounds>>

NothingToApply(m) ==
  /\ UpToDate(m)
  /\ ~AwaitsLocalApply(m)
  /\ EndPass(m)
  /\ insync' = [insync EXCEPT ![m] = TRUE]
  /\ UNCHANGED <<repository, items, intent, checkout, current, inventory, bounds>>

\* Bug variant of TreeApplied: a tree with a record held back counts as applied.
TreeHeldOrNot(m) == <<tree[m], meta[m]>>

\* Holding a record back leaves the store behind the checkout: the tree is not
\* noted as applied, and the next pass comes back for it.
TreeApplied(m) ==
  IF HoldsBack(tree[m], items[m], guarded[m]) THEN NoTree ELSE <<tree[m], meta[m]>>

\* applyRemoteState: the store first, then the inventory of what it now holds.
Apply(m) ==
  /\ UpToDate(m)
  /\ AwaitsLocalApply(m)
  /\ items' = [items EXCEPT ![m] = Restored(tree[m], items[m], guarded[m])]
  /\ applied' = [applied EXCEPT ![m] = Inventory(tree[m])]
  /\ appliedTree' = [appliedTree EXCEPT ![m] = TreeApplied(m)]
  /\ intent' = [intent EXCEPT ![m] = "reconcile"]
  /\ insync' = [insync EXCEPT ![m] = TRUE]
  /\ EndPass(m)
  /\ UNCHANGED <<repository, checkout, current, bounds>>

-----------------------------------------------------------------------------
(* Passes cut short                                                        *)

Cut(m) ==
  /\ cuts < MaxCuts
  /\ cuts' = cuts + 1
  /\ EndPass(m)

\* An error, Pause or a crash between two steps: what was done stays done.
CutShort(m) ==
  /\ pc[m] # "idle"
  /\ Cut(m)
  /\ UNCHANGED <<repository, items, intent, checkout, current, inventory, insync,
                 clock, stamped, edits, used>>

\* The apply stops after the store was written and before the inventory was.
CutApplyShort(m) ==
  /\ UpToDate(m)
  /\ AwaitsLocalApply(m)
  /\ Cut(m)
  /\ items' = [items EXCEPT ![m] = Restored(tree[m], items[m], guarded[m])]
  /\ UNCHANGED <<repository, intent, checkout, current, inventory, insync, clock,
                 stamped, edits, used>>

\* The merge stops between two conflicts, MERGE_HEAD in place: the next pass
\* stages every file as it stands and its commit concludes the merge.
CutMergeShort(m) ==
  /\ CutsMerges
  /\ pc[m] = "fetch"
  /\ published /\ remoteEpoch = meta[m] /\ baseEpoch[m] = remoteEpoch
  /\ intent[m] = "reconcile"
  /\ \E done \in SUBSET Conflicts(base[m], tree[m], remote) :
       tree' = [tree EXCEPT ![m] = PartialMerge(base[m], tree[m], remote, done)]
  /\ ahead' = [ahead EXCEPT ![m] = TRUE]
  /\ base' = [base EXCEPT ![m] = remote]
  /\ current' = [current EXCEPT ![m] = TRUE]
  /\ Cut(m)
  /\ UNCHANGED <<repository, items, intent, meta, baseEpoch, inventory, insync, clock,
                 stamped, edits, used>>

-----------------------------------------------------------------------------

Reader(m) ==
  \/ \E id \in Ids, v \in Vals : OpenTab(m, id, v) \/ ChangeTab(m, id, v)
  \/ \E id \in Ids : CloseTab(m, id)

PassStep(m) ==
  \/ CaptureStore(m) \/ Fetch(m) \/ Push(m)
  \/ KeepHistory(m) \/ StageSnapshot(m) \/ PushSnapshot(m) \/ ResetToSnapshot(m)
  \/ Defer(m) \/ NothingToApply(m) \/ Apply(m)

Misfortune(m) == CutShort(m) \/ CutApplyShort(m) \/ CutMergeShort(m)

Next == \E m \in Machines : Reader(m) \/ StartPass(m) \/ PassStep(m) \/ Misfortune(m)

Spec == Init /\ [][Next]_vars

\* While Sync is on and the browser runs, the periodic timer starts a pass every
\* five minutes and the worker that runs it is never suspended for good.
Fairness == \A m \in Machines : WF_vars(StartPass(m)) /\ WF_vars(PassStep(m))

FairSpec == Spec /\ Fairness

-----------------------------------------------------------------------------
(* Safety                                                                  *)

\* A pass that ends in step leaves the store holding what the checkout holds,
\* but for the tab held back: awaitsLocalApply never skips an apply that some
\* deferred, failed or interrupted pass still owes (checkoutAheadOfLocalState).
SyncedMeansSame ==
  \A m \in Machines : pc[m] = "idle" /\ insync[m] =>
    \A id \in Ids \ {guarded[m]} : items[m][id] = Content(tree[m][id])

\* Two machines in step with the repository's head show the same tabs, however
\* their passes interleaved to get there.
SyncedMachinesAgree ==
  \A m, n \in Machines :
    /\ {pc[m], pc[n]} = {"idle"}
    /\ insync[m] /\ current[m] /\ insync[n] /\ current[n]
    => \A id \in Ids \ {guarded[m], guarded[n]} : items[m][id] = items[n][id]

\* The repository implements the map of revisions: whatever machines push, in
\* whatever order, no record of it is replaced by an earlier revision, and only
\* a compaction forgets a tombstone.
Revisions == INSTANCE RevisionMap WITH map <- remote
RecordsOnlyAdvance == Revisions!RevisionSpec

\* A machine that missed an epoch takes the snapshot before it publishes again
\* (docs/adr/0039-sync-configuration-through-a-git-remote.md): what is pushed
\* descends from the snapshot the repository stands on, and no epoch returns.
EpochsAdvance ==
  /\ remoteEpoch' >= remoteEpoch
  /\ \A m \in Machines : remote' # remote /\ pc[m] = "push" /\ pc'[m] = "compact"
       => baseEpoch[m] = remoteEpoch

\* Every step of every machine keeps old history out (EpochsAdvance).
OldHistoryStaysOut == [][EpochsAdvance]_vars

\* A pass leaves the reader's newer edit alone: what the reader opened, changed
\* or closed while it ran is still so when the pass has ended.
EndLeavesNewerEdit ==
  \A m \in Machines : moved[m] /\ pc[m] # "idle" /\ pc'[m] = "idle" => items'[m] = items[m]

\* Every end of a pass leaves the newer edit alone (EndLeavesNewerEdit).
NewerEditSurvives == [][EndLeavesNewerEdit]_vars

-----------------------------------------------------------------------------
(* Liveness                                                                *)

\* Once the readers stop, every machine ends up showing the same tabs.
MachinesConverge == <>[](\A m, n \in Machines : items[m] = items[n])

-----------------------------------------------------------------------------
(* What the code does not keep                                             *)

\* "Deletions become encrypted tombstones so an offline machine cannot
\* immediately resurrect a closed tab" (docs/adr/0039): a pass never brings back
\* a closed tab from a record this very machine wrote before it was closed.
TabStaysClosed ==
  [][ \A m \in Machines, id \in Ids :
        pc[m] = "apply" /\ items[m][id] = None /\ items'[m][id] # None
        => tree[m][id].by # m ]_vars

\* "every other failure waits for the next pass" (docs/architecture.md:74): a
\* machine whose pass failed ends a later one in step.
FailureWaitsForNextPass == \A m \in Machines : []<>insync[m]

=============================================================================
