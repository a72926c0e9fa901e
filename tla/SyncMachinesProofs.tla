------------------------- MODULE SyncMachinesProofs -------------------------
(***************************************************************************)
(* Proofs about SyncMachines for any set of machines, records and bounds:  *)
(* type correctness, the epochs of the repository, the reader's newer      *)
(* edits, and, as long as no pass stops in the middle of resolving a       *)
(* merge, that the repository implements RevisionMap and that machines     *)
(* that ended in step hold what their checkouts hold and agree.            *)
(***************************************************************************)
EXTENDS SyncMachines, TLAPS

-----------------------------------------------------------------------------
(* The record rules                                                        *)

\* What the operators on checkouts return.
LEMMA NoRecordTyped == NoRecord \in Records
  BY DEF NoRecord, Records

\* A capture of the store over a checkout is a checkout.
LEMMA CaptureTyped ==
  ASSUME NEW old \in Checkouts, NEW held \in Contents, NEW digests \in Contents,
         NEW now \in Nat, NEW m \in Machines
  PROVE  Capture(old, held, digests, now, m) \in Checkouts
<1>1. m \in Nat
  BY RecordAssumption
<1>2. ASSUME NEW id \in Ids
      PROVE  /\ CaptureRecord(old[id], held[id], digests[id], now, m) \in Records
             /\ TombstoneRecord(old[id], digests[id], now, m) \in Records
  BY <1>1 DEF CaptureRecord, TombstoneRecord, Checkouts, Contents, Records
<1> QED
  BY <1>2 DEF Capture, Checkouts

\* A merge of two checkouts is one, also where it stopped half-way.
LEMMA MergeTyped ==
  ASSUME NEW common \in Checkouts, NEW ours \in Checkouts, NEW theirs \in Checkouts
  PROVE  /\ Merge(common, ours, theirs) \in Checkouts
         /\ \A done : PartialMerge(common, ours, theirs, done) \in Checkouts
<1>1. Merge(common, ours, theirs) \in Checkouts
  BY DEF Merge, Resolve, Checkouts
<1> QED
  BY <1>1 DEF PartialMerge, Checkouts

\* A snapshot is a checkout.
LEMMA CompactedTyped ==
  ASSUME NEW old \in Checkouts, NEW now, NEW retention
  PROVE  Compacted(old, now, retention) \in Checkouts
  BY NoRecordTyped DEF Compacted, Checkouts

\* An apply puts contents into the store and into the inventory.
LEMMA RestoredTyped ==
  ASSUME NEW old \in Checkouts, NEW held \in Contents, NEW kept
  PROVE  Restored(old, held, kept) \in Contents /\ Inventory(old) \in Contents
  BY DEF Restored, Inventory, Content, IsLive, Contents, Checkouts, Records

-----------------------------------------------------------------------------
(* Types                                                                   *)

RepositoryTyped == remote \in Checkouts /\ remoteEpoch \in Epochs /\ published \in BOOLEAN
CheckoutTyped ==
  /\ tree \in [Machines -> Checkouts] /\ base \in [Machines -> Checkouts]
  /\ meta \in [Machines -> Epochs] /\ baseEpoch \in [Machines -> Epochs]
HeadTyped == current \in [Machines -> BOOLEAN] /\ ahead \in [Machines -> BOOLEAN]
StoreTyped ==
  /\ items \in [Machines -> Contents] /\ applied \in [Machines -> Contents]
  /\ intent \in [Machines -> {"reconcile", "adopt"}]
  /\ appliedTree \in [Machines -> AppliedTrees]
  /\ used \subseteq Ids
PassTyped ==
  /\ pc \in [Machines -> Phases]
  /\ guarded \in [Machines -> Ids \cup {None}]
FlagsTyped ==
  moved \in [Machines -> BOOLEAN] /\ news \in [Machines -> BOOLEAN] /\ insync \in [Machines -> BOOLEAN]
BoundsTyped ==
  /\ clock \in 0 .. MaxClock /\ stamped \in [Machines -> 0 .. MaxClock]
  /\ edits \in 0 .. MaxEdits /\ cuts \in 0 .. MaxCuts

Typed ==
  /\ RepositoryTyped /\ CheckoutTyped /\ HeadTyped /\ StoreTyped
  /\ PassTyped /\ FlagsTyped /\ BoundsTyped

\* TypeOK says of every variable what Typed says of it.
LEMMA TypedIsTypeOK == Typed <=> TypeOK
  BY DEF Typed, RepositoryTyped, CheckoutTyped, HeadTyped, StoreTyped, PassTyped, FlagsTyped,
         BoundsTyped, TypeOK

USE DEF repository, checkout, inventory, passVars, bounds

\* The bounds one by one.
LEMMA NaturalBounds ==
  /\ MaxEdits \in Nat /\ MaxClock \in Nat /\ MaxEpoch \in Nat /\ MaxCuts \in Nat /\ Retention \in Nat
  BY MachineAssumption

\* The parts of actions keep the types of what they set.
LEMMA PublishesTyped ==
  ASSUME Typed, NEW m \in Machines, Publishes(m)
  PROVE  /\ remote' \in Checkouts /\ published' \in BOOLEAN
         /\ base' \in [Machines -> Checkouts] /\ current' \in [Machines -> BOOLEAN]
  BY DEF Publishes, Typed, CheckoutTyped

\* An edit of the reader leaves a store and stays within its bound.
LEMMA EditTyped ==
  ASSUME Typed, NEW m \in Machines, NEW id \in Ids, NEW v \in Vals \cup {None}, Edit(m, id, v)
  PROVE  items' \in [Machines -> Contents] /\ edits' \in 0 .. MaxEdits
<1>1. items' = [items EXCEPT ![m] = [items[m] EXCEPT ![id] = v]]
  BY DEF Edit
<1>2. [items[m] EXCEPT ![id] = v] \in Contents
  BY DEF Typed, StoreTyped, Contents
<1>3. edits' \in 0 .. MaxEdits
  BY NaturalBounds DEF Edit, Typed, BoundsTyped
<1> QED
  BY <1>1, <1>2, <1>3 DEF Typed, StoreTyped

\* A pass cut short counts within its bound.
LEMMA CutTyped ==
  ASSUME Typed, NEW m \in Machines, Cut(m)
  PROVE  cuts' \in 0 .. MaxCuts
  BY NaturalBounds DEF Cut, Typed, BoundsTyped

\* Taking in the remote leaves checkouts.
LEMMA TakeRemoteTyped ==
  ASSUME Typed, NEW m \in Machines, NEW t \in Checkouts, NEW changed, TakeRemote(m, t, changed)
  PROVE  tree' \in [Machines -> Checkouts] /\ base' \in [Machines -> Checkouts]
  BY DEF TakeRemote, Typed, RepositoryTyped, CheckoutTyped

\* A capture that writes takes a time of the clock and makes a checkout.
LEMMA CaptureStoreTyped ==
  ASSUME Typed, NEW m \in Machines, CaptureStore(m)
  PROVE  /\ tree' \in [Machines -> Checkouts]
         /\ clock' \in 0 .. MaxClock /\ stamped' \in [Machines -> 0 .. MaxClock]
<1>1. CASE UNCHANGED <<tree, ahead, clock, stamped>>
  BY <1>1 DEF Typed, CheckoutTyped, BoundsTyped
<1>2. ASSUME NEW t \in Stamps(m),
             tree' = [tree EXCEPT ![m] = Capture(@, items[m], applied[m], t, m)],
             clock' = t, stamped' = [stamped EXCEPT ![m] = t]
      PROVE  /\ tree' \in [Machines -> Checkouts]
             /\ clock' \in 0 .. MaxClock /\ stamped' \in [Machines -> 0 .. MaxClock]
  <2>1. t \in 0 .. MaxClock
    BY NaturalBounds DEF Stamps, Typed, BoundsTyped
  <2>2. Capture(tree[m], items[m], applied[m], t, m) \in Checkouts
    BY <2>1, NaturalBounds, CaptureTyped DEF Typed, CheckoutTyped, StoreTyped
  <2> QED
    BY <1>2, <2>1, <2>2 DEF Typed, CheckoutTyped, BoundsTyped
<1> QED
  BY <1>1, <1>2 DEF CaptureStore

\* Every step keeps the type of the repository.
LEMMA RepositoryTypedStep == Typed /\ [Next]_vars => RepositoryTyped'
<1> SUFFICES ASSUME Typed, [Next]_vars PROVE RepositoryTyped'
  OBVIOUS
<1> USE DEF Typed, RepositoryTyped, CheckoutTyped
<1>1. CASE UNCHANGED repository
  BY <1>1
<1>2. ASSUME NEW m \in Machines, Reader(m) \/ StartPass(m) \/ PassStep(m) \/ Misfortune(m)
      PROVE RepositoryTyped'
  <2>1. CASE UNCHANGED repository
    BY <2>1
  <2>2. CASE Push(m)
    BY <2>2, PublishesTyped DEF Push
  <2>3. CASE PushSnapshot(m)
    BY <2>3, PublishesTyped DEF PushSnapshot
  <2> QED
    BY <1>2, <2>1, <2>2, <2>3
    DEF Reader, PassStep, Misfortune, OpenTab, Edit, ChangeTab, CloseTab, StartPass, Goto, CaptureStore, Continue, Fetch, Baseline, MergeRemote, RefuseRemote, TakeSnapshot, MergeRecords, TakeRemote, EndPass, KeepHistory, StageSnapshot, ResetToSnapshot, Defer, NothingToApply, Apply, CutShort, Cut, CutApplyShort, CutMergeShort
<1> QED
  BY <1>1, <1>2 DEF Next, vars

\* Every step keeps the types of the checkouts and their epochs.
LEMMA CheckoutTypedStep == Typed /\ [Next]_vars => CheckoutTyped'
<1> SUFFICES ASSUME Typed, [Next]_vars PROVE CheckoutTyped'
  OBVIOUS
<1> USE DEF Typed, RepositoryTyped, CheckoutTyped
<1>1. CASE UNCHANGED checkout
  BY <1>1
<1>2. ASSUME NEW m \in Machines, Reader(m) \/ StartPass(m) \/ PassStep(m) \/ Misfortune(m)
      PROVE CheckoutTyped'
  <2>1. CASE UNCHANGED checkout
    BY <2>1
  <2>2. CASE CaptureStore(m)
    BY <2>2, CaptureStoreTyped DEF CaptureStore
  <2>3. CASE Fetch(m)
    <3>1. CASE UNCHANGED checkout
      BY <3>1
    <3>2. CASE TakeSnapshot(m)
      BY <3>2, TakeRemoteTyped DEF TakeSnapshot
    <3>3. CASE MergeRecords(m)
      BY <3>3, MergeTyped, TakeRemoteTyped DEF MergeRecords
    <3> QED
      BY <2>3, <3>1, <3>2, <3>3 DEF Fetch, MergeRemote, RefuseRemote
  <2>4. CASE Push(m)
    BY <2>4 DEF Push, Publishes, Continue, EndPass, Goto
  <2>5. CASE StageSnapshot(m)
    <3>1. Compacted(tree[m], clock, Retention) \in Checkouts
      BY CompactedTyped
    <3>2. meta[m] + 1 \in Epochs
      BY <2>5, NaturalBounds DEF StageSnapshot, Epochs
    <3> QED
      BY <2>5, <3>1, <3>2 DEF StageSnapshot
  <2>6. CASE PushSnapshot(m)
    BY <2>6 DEF PushSnapshot, Publishes, Continue, EndPass, Goto
  <2>7. CASE ResetToSnapshot(m)
    BY <2>7 DEF ResetToSnapshot, Continue, Goto
  <2>8. CASE CutMergeShort(m)
    <3>1. PICK done \in SUBSET Conflicts(base[m], tree[m], remote) :
            tree' = [tree EXCEPT ![m] = PartialMerge(base[m], tree[m], remote, done)]
      BY <2>8 DEF CutMergeShort
    <3>2. PartialMerge(base[m], tree[m], remote, done) \in Checkouts
      BY MergeTyped
    <3> QED
      BY <2>8, <3>1, <3>2 DEF CutMergeShort
  <2> QED
    BY <1>2, <2>1, <2>2, <2>3, <2>4, <2>5, <2>6, <2>7, <2>8
    DEF Reader, PassStep, Misfortune, OpenTab, Edit, ChangeTab, CloseTab, StartPass, Goto, KeepHistory, Continue, Defer, EndPass, NothingToApply, Apply, CutShort, Cut, CutApplyShort
<1> QED
  BY <1>1, <1>2 DEF Next, vars

\* Every step keeps the types of what is known of each head.
LEMMA HeadTypedStep == Typed /\ [Next]_vars => HeadTyped'
<1> SUFFICES ASSUME Typed, [Next]_vars PROVE HeadTyped'
  OBVIOUS
<1> USE DEF Typed, HeadTyped
<1>1. CASE UNCHANGED <<current, ahead>>
  BY <1>1
<1>2. ASSUME NEW m \in Machines, Reader(m) \/ StartPass(m) \/ PassStep(m) \/ Misfortune(m)
      PROVE HeadTyped'
  <2>1. CASE UNCHANGED <<current, ahead>>
    BY <2>1
  <2>2. CASE CaptureStore(m)
    BY <2>2 DEF CaptureStore, Stamps, Continue, Goto
  <2>3. CASE Fetch(m)
    BY <2>3 DEF Fetch, Baseline, MergeRemote, RefuseRemote, TakeSnapshot, MergeRecords, TakeRemote, EndPass, Continue, Goto
  <2>4. CASE Push(m)
    BY <2>4 DEF Push, Publishes, Continue, EndPass, Goto
  <2>5. CASE PushSnapshot(m)
    BY <2>5 DEF PushSnapshot, Publishes, Continue, EndPass, Goto
  <2>6. CASE CutMergeShort(m)
    BY <2>6 DEF CutMergeShort, Cut, EndPass, Goto
  <2> QED
    BY <1>2, <2>1, <2>2, <2>3, <2>4, <2>5, <2>6
    DEF Reader, PassStep, Misfortune, OpenTab, Edit, ChangeTab, CloseTab, StartPass, Goto, KeepHistory, Continue, StageSnapshot, ResetToSnapshot, Defer, EndPass, NothingToApply, Apply, CutShort, Cut, CutApplyShort
<1> QED
  BY <1>1, <1>2 DEF Next, vars

\* Every step keeps the types of the stores and their inventories.
LEMMA StoreTypedStep == Typed /\ [Next]_vars => StoreTyped'
<1> SUFFICES ASSUME Typed, [Next]_vars PROVE StoreTyped'
  OBVIOUS
<1> USE DEF Typed, RepositoryTyped, CheckoutTyped, StoreTyped
<1>1. CASE UNCHANGED <<items, intent, inventory, used>>
  BY <1>1
<1>2. ASSUME NEW m \in Machines, Reader(m) \/ StartPass(m) \/ PassStep(m) \/ Misfortune(m)
      PROVE StoreTyped'
  <2>1. CASE UNCHANGED <<items, intent, inventory, used>>
    BY <2>1
  <2>2. ASSUME NEW id \in Ids, NEW v \in Vals, OpenTab(m, id, v) PROVE StoreTyped'
    BY <2>2, EditTyped DEF OpenTab, Edit
  <2>3. ASSUME NEW id \in Ids, NEW v \in Vals, ChangeTab(m, id, v) PROVE StoreTyped'
    BY <2>3, EditTyped DEF ChangeTab, Edit
  <2>4. ASSUME NEW id \in Ids, CloseTab(m, id) PROVE StoreTyped'
    BY <2>4, EditTyped DEF CloseTab, Edit
  <2>5. CASE Fetch(m)
    BY <2>5 DEF Fetch, Baseline, MergeRemote, RefuseRemote, TakeSnapshot, MergeRecords, TakeRemote, EndPass, Continue, Goto
  <2>6. CASE Apply(m)
    <3>1. /\ Restored(tree[m], items[m], guarded[m]) \in Contents
          /\ Inventory(tree[m]) \in Contents
      BY RestoredTyped
    <3>2. TreeApplied(m) \in AppliedTrees
      BY DEF TreeApplied, AppliedTrees
    <3> QED
      BY <2>6, <3>1, <3>2 DEF Apply
  <2>7. CASE CutApplyShort(m)
    BY <2>7, RestoredTyped DEF CutApplyShort, UpToDate, Cut, EndPass, Goto
  <2> QED
    BY <1>2, <2>1, <2>2, <2>3, <2>4, <2>5, <2>6, <2>7
    DEF Reader, PassStep, Misfortune, StartPass, Goto, CaptureStore, Continue, Push, Publishes, EndPass, KeepHistory, StageSnapshot, PushSnapshot, ResetToSnapshot, Defer, NothingToApply, CutShort, Cut, CutMergeShort
<1> QED
  BY <1>1, <1>2 DEF Next, vars

\* Every step keeps the types of where a pass is and what it guards.
LEMMA PassTypedStep == Typed /\ [Next]_vars => PassTyped'
<1> SUFFICES ASSUME Typed, [Next]_vars PROVE PassTyped'
  OBVIOUS
<1> USE DEF Typed, PassTyped, Phases
<1>1. CASE UNCHANGED <<pc, guarded>>
  BY <1>1
<1>2. ASSUME NEW m \in Machines, Reader(m) \/ StartPass(m) \/ PassStep(m) \/ Misfortune(m)
      PROVE PassTyped'
  <2>1. CASE UNCHANGED <<pc, guarded>>
    BY <2>1
  <2>2. CASE StartPass(m)
    BY <2>2 DEF StartPass, Goto
  <2>3. CASE CaptureStore(m)
    BY <2>3 DEF CaptureStore, Stamps, Continue, Goto
  <2>4. CASE Fetch(m)
    BY <2>4 DEF Fetch, Baseline, MergeRemote, RefuseRemote, TakeSnapshot, MergeRecords, TakeRemote, EndPass, Continue, Goto
  <2>5. CASE Push(m)
    BY <2>5 DEF Push, Publishes, Continue, EndPass, Goto
  <2>6. CASE KeepHistory(m)
    BY <2>6 DEF KeepHistory, Continue, Goto
  <2>7. CASE StageSnapshot(m)
    BY <2>7 DEF StageSnapshot, Continue, Goto
  <2>8. CASE PushSnapshot(m)
    BY <2>8 DEF PushSnapshot, Publishes, Continue, EndPass, Goto
  <2>9. CASE ResetToSnapshot(m)
    BY <2>9 DEF ResetToSnapshot, Continue, Goto
  <2>10. CASE Defer(m)
    BY <2>10 DEF Defer, EndPass, Goto
  <2>11. CASE NothingToApply(m)
    BY <2>11 DEF NothingToApply, UpToDate, EndPass, Goto
  <2>12. CASE Apply(m)
    BY <2>12 DEF Apply, UpToDate, TreeApplied, EndPass, Goto
  <2>13. CASE CutShort(m)
    BY <2>13 DEF CutShort, Cut, EndPass, Goto
  <2>14. CASE CutApplyShort(m)
    BY <2>14 DEF CutApplyShort, UpToDate, Cut, EndPass, Goto
  <2>15. CASE CutMergeShort(m)
    BY <2>15 DEF CutMergeShort, Cut, EndPass, Goto
  <2> QED
    BY <1>2, <2>1, <2>2, <2>3, <2>4, <2>5, <2>6, <2>7, <2>8, <2>9, <2>10, <2>11, <2>12, <2>13, <2>14, <2>15
    DEF Reader, PassStep, Misfortune, OpenTab, Edit, ChangeTab, CloseTab
<1> QED
  BY <1>1, <1>2 DEF Next, vars

\* Every step keeps the types of what a pass has learnt.
LEMMA FlagsTypedStep == Typed /\ [Next]_vars => FlagsTyped'
<1> SUFFICES ASSUME Typed, [Next]_vars PROVE FlagsTyped'
  OBVIOUS
<1> USE DEF Typed, FlagsTyped
<1>1. CASE UNCHANGED <<moved, news, insync>>
  BY <1>1
<1>2. ASSUME NEW m \in Machines, Reader(m) \/ StartPass(m) \/ PassStep(m) \/ Misfortune(m)
      PROVE FlagsTyped'
  <2>1. ASSUME NEW id \in Ids, NEW v \in Vals, OpenTab(m, id, v) PROVE FlagsTyped'
    BY <2>1 DEF OpenTab, Edit
  <2>2. ASSUME NEW id \in Ids, NEW v \in Vals, ChangeTab(m, id, v) PROVE FlagsTyped'
    BY <2>2 DEF ChangeTab, Edit
  <2>3. ASSUME NEW id \in Ids, CloseTab(m, id) PROVE FlagsTyped'
    BY <2>3 DEF CloseTab, Edit
  <2>4. CASE StartPass(m)
    BY <2>4 DEF StartPass, Goto
  <2>5. CASE CaptureStore(m)
    BY <2>5 DEF CaptureStore, Stamps, Continue, Goto
  <2>6. CASE Fetch(m)
    BY <2>6 DEF Fetch, Baseline, MergeRemote, RefuseRemote, TakeSnapshot, MergeRecords, TakeRemote, EndPass, Continue, Goto
  <2>7. CASE Push(m)
    BY <2>7 DEF Push, Publishes, Continue, EndPass, Goto
  <2>8. CASE KeepHistory(m)
    BY <2>8 DEF KeepHistory, Continue, Goto
  <2>9. CASE StageSnapshot(m)
    BY <2>9 DEF StageSnapshot, Continue, Goto
  <2>10. CASE PushSnapshot(m)
    BY <2>10 DEF PushSnapshot, Publishes, Continue, EndPass, Goto
  <2>11. CASE ResetToSnapshot(m)
    BY <2>11 DEF ResetToSnapshot, Continue, Goto
  <2>12. CASE Defer(m)
    BY <2>12 DEF Defer, EndPass, Goto
  <2>13. CASE NothingToApply(m)
    BY <2>13 DEF NothingToApply, UpToDate, EndPass, Goto
  <2>14. CASE Apply(m)
    BY <2>14 DEF Apply, UpToDate, TreeApplied, EndPass, Goto
  <2>15. CASE CutShort(m)
    BY <2>15 DEF CutShort, Cut, EndPass, Goto
  <2>16. CASE CutApplyShort(m)
    BY <2>16 DEF CutApplyShort, UpToDate, Cut, EndPass, Goto
  <2>17. CASE CutMergeShort(m)
    BY <2>17 DEF CutMergeShort, Cut, EndPass, Goto
  <2> QED
    BY <1>2, <2>1, <2>2, <2>3, <2>4, <2>5, <2>6, <2>7, <2>8, <2>9, <2>10, <2>11, <2>12, <2>13, <2>14, <2>15, <2>16, <2>17
    DEF Reader, PassStep, Misfortune
<1> QED
  BY <1>1, <1>2 DEF Next, vars

\* Every step stays within the bounds.
LEMMA BoundsTypedStep == Typed /\ [Next]_vars => BoundsTyped'
<1> SUFFICES ASSUME Typed, [Next]_vars PROVE BoundsTyped'
  OBVIOUS
<1> USE DEF Typed, BoundsTyped
<1>1. CASE UNCHANGED <<clock, stamped, edits, cuts>>
  BY <1>1
<1>2. ASSUME NEW m \in Machines, Reader(m) \/ StartPass(m) \/ PassStep(m) \/ Misfortune(m)
      PROVE BoundsTyped'
  <2>1. CASE UNCHANGED <<clock, stamped, edits, cuts>>
    BY <2>1
  <2>2. ASSUME NEW id \in Ids, NEW v \in Vals, OpenTab(m, id, v) PROVE BoundsTyped'
    BY <2>2, EditTyped DEF OpenTab, Edit
  <2>3. ASSUME NEW id \in Ids, NEW v \in Vals, ChangeTab(m, id, v) PROVE BoundsTyped'
    BY <2>3, EditTyped DEF ChangeTab, Edit
  <2>4. ASSUME NEW id \in Ids, CloseTab(m, id) PROVE BoundsTyped'
    BY <2>4, EditTyped DEF CloseTab, Edit
  <2>5. CASE CaptureStore(m)
    BY <2>5, CaptureStoreTyped DEF CaptureStore
  <2>6. CASE CutShort(m)
    BY <2>6, CutTyped DEF CutShort
  <2>7. CASE CutApplyShort(m)
    BY <2>7, CutTyped DEF CutApplyShort
  <2>8. CASE CutMergeShort(m)
    BY <2>8, CutTyped DEF CutMergeShort
  <2> QED
    BY <1>2, <2>1, <2>2, <2>3, <2>4, <2>5, <2>6, <2>7, <2>8
    DEF Reader, PassStep, Misfortune, StartPass, Goto, Fetch, Baseline, MergeRemote, RefuseRemote, TakeSnapshot, MergeRecords, TakeRemote, EndPass, Continue, Push, Publishes, KeepHistory, StageSnapshot, PushSnapshot, ResetToSnapshot, Defer, NothingToApply, Apply
<1> QED
  BY <1>1, <1>2 DEF Next, vars

-----------------------------------------------------------------------------
(* Epochs                                                                  *)

\* Where a machine's epoch is the one its head descends from and its head is
\* the repository's, it is the repository's epoch; between the two halves of a
\* compaction it is one ahead.
EpochInv ==
  /\ ~published => remoteEpoch = 0 /\ \A m \in Machines : meta[m] = 0 /\ baseEpoch[m] = 0
  /\ \A m \in Machines :
       /\ current[m] \/ pc[m] \in {"compact", "lease", "reset"} => published
       /\ current[m] /\ baseEpoch[m] = meta[m] => meta[m] = remoteEpoch
       /\ pc[m] \in {"push", "compact"} => baseEpoch[m] = meta[m]
       /\ pc[m] = "lease" => meta[m] = baseEpoch[m] + 1 /\ (current[m] => baseEpoch[m] = remoteEpoch)
       /\ pc[m] = "reset" /\ current[m] => meta[m] = remoteEpoch

\* Every step keeps what the epochs of a machine and of the repository have to do with each other.
LEMMA EpochStep == Typed /\ EpochInv /\ [Next]_vars => EpochInv'
<1> SUFFICES ASSUME Typed /\ EpochInv, [Next]_vars PROVE EpochInv'
  OBVIOUS
<1> USE DEF Typed, RepositoryTyped, CheckoutTyped, HeadTyped, PassTyped, Epochs, EpochInv
<1>1. CASE UNCHANGED <<repository, meta, baseEpoch, current, pc>>
  BY <1>1
<1>2. ASSUME NEW m \in Machines, Reader(m) \/ StartPass(m) \/ PassStep(m) \/ Misfortune(m)
      PROVE EpochInv'
  <2>1. CASE UNCHANGED <<repository, meta, baseEpoch, current, pc>>
    BY <2>1
  <2>2. CASE StartPass(m)
    BY <2>2 DEF StartPass, Goto
  <2>3. CASE CaptureStore(m)
    BY <2>3 DEF CaptureStore, Stamps, Continue, Goto
  <2>4. CASE Fetch(m)
    BY <2>4 DEF Fetch, Baseline, MergeRemote, RefuseRemote, TakeSnapshot, MergeRecords, TakeRemote, EndPass, Continue, Goto
  <2>5. CASE Push(m)
    BY <2>5 DEF Push, Publishes, Continue, EndPass, Goto
  <2>6. CASE KeepHistory(m)
    BY <2>6 DEF KeepHistory, Continue, Goto
  <2>7. CASE StageSnapshot(m)
    BY <2>7 DEF StageSnapshot, Continue, Goto
  <2>8. CASE PushSnapshot(m)
    BY <2>8 DEF PushSnapshot, Publishes, Continue, EndPass, Goto
  <2>9. CASE ResetToSnapshot(m)
    BY <2>9 DEF ResetToSnapshot, Continue, Goto
  <2>10. CASE Defer(m)
    BY <2>10 DEF Defer, EndPass, Goto
  <2>11. CASE NothingToApply(m)
    BY <2>11 DEF NothingToApply, UpToDate, EndPass, Goto
  <2>12. CASE Apply(m)
    BY <2>12 DEF Apply, UpToDate, TreeApplied, EndPass, Goto
  <2>13. CASE CutShort(m)
    BY <2>13 DEF CutShort, Cut, EndPass, Goto
  <2>14. CASE CutApplyShort(m)
    BY <2>14 DEF CutApplyShort, UpToDate, Cut, EndPass, Goto
  <2>15. CASE CutMergeShort(m)
    BY <2>15 DEF CutMergeShort, Cut, EndPass, Goto
  <2> QED
    BY <1>2, <2>1, <2>2, <2>3, <2>4, <2>5, <2>6, <2>7, <2>8, <2>9, <2>10, <2>11, <2>12, <2>13, <2>14, <2>15
    DEF Reader, PassStep, Misfortune, OpenTab, Edit, ChangeTab, CloseTab
<1> QED
  BY <1>1, <1>2 DEF Next, vars

-----------------------------------------------------------------------------
(* Revisions                                                               *)

\* The records of id there are: the repository's, and of every machine the
\* checkout's and the last remote head's.
Known(id) ==
  {remote[id]} \cup {tree[m][id] : m \in Machines} \cup {base[m][id] : m \in Machines}

Stamped(r) == r = NoRecord \/ (r.by \in Machines /\ 0 < r.at /\ r.at <= stamped[r.by])

\* No machine stamps two records of an id with the same time: a revision is one
\* record, wherever it is found.
RevisionInv ==
  \A id \in Ids :
    /\ \A r \in Known(id) : Stamped(r)
    /\ \A r, s \in Known(id) : r.at = s.at /\ r.by = s.by => r = s

RecordsKept == \A id \in Ids : Known(id)' \subseteq Known(id) \cup {NoRecord}

\* A merge, whole or stopped half-way, takes each record from one of its sides,
\* and a snapshot keeps or drops it.
LEMMA MergePicks ==
  ASSUME NEW common, NEW ours, NEW theirs, NEW id \in Ids
  PROVE  /\ Merge(common, ours, theirs)[id] \in {ours[id], theirs[id]}
         /\ \A done : PartialMerge(common, ours, theirs, done)[id] \in {ours[id], theirs[id]}
<1>1. Merge(common, ours, theirs)[id] \in {ours[id], theirs[id]}
  BY DEF Merge, Resolve
<1> QED
  BY <1>1 DEF PartialMerge

\* The records of an id the system knows are records.
LEMMA KnownTyped ==
  ASSUME Typed, NEW id \in Ids
  PROVE  Known(id) \subseteq Records
  BY DEF Known, Typed, RepositoryTyped, CheckoutTyped, Checkouts

\* A step that brings no new record keeps the revisions apart.
LEMMA RecordsKeptIsEnough ==
  ASSUME Typed, RevisionInv, RecordsKept, UNCHANGED stamped
  PROVE  RevisionInv'
<1> SUFFICES ASSUME NEW id \in Ids
             PROVE  /\ \A r \in Known(id)' : Stamped(r)'
                    /\ \A r, s \in Known(id)' : r.at = s.at /\ r.by = s.by => r = s
  BY DEF RevisionInv
<1>1. \A r \in Known(id)' : r \in Known(id) \/ r = NoRecord
  BY DEF RecordsKept
<1>2. \A r \in Known(id)' : Stamped(r)
  BY <1>1 DEF RevisionInv, Stamped
<1>3. \A r : Stamped(r) /\ r # NoRecord => r.at # NoRecord.at
  BY DEF Stamped, NoRecord
<1> QED
  BY <1>1, <1>2, <1>3 DEF RevisionInv, Stamped

\* A capture makes at most one new record per id, with a stamp of its own.
LEMMA CaptureKeepsRevisions ==
  ASSUME Typed, RevisionInv, NEW m \in Machines, CaptureStore(m)
  PROVE  RevisionInv'
<1>1. CASE UNCHANGED <<tree, ahead, clock, stamped>>
  BY <1>1, RecordsKeptIsEnough DEF CaptureStore, RecordsKept, Known
<1>2. ASSUME NEW t \in Stamps(m),
             tree' = [tree EXCEPT ![m] = Capture(@, items[m], applied[m], t, m)],
             stamped' = [stamped EXCEPT ![m] = t]
      PROVE  RevisionInv'
  <2> SUFFICES ASSUME NEW id \in Ids
               PROVE  /\ \A r \in Known(id)' : Stamped(r)'
                      /\ \A r, s \in Known(id)' : r.at = s.at /\ r.by = s.by => r = s
    BY DEF RevisionInv
  <2> DEFINE new == Capture(tree[m], items[m], applied[m], t, m)[id]
  <2>1. /\ t \in Nat /\ stamped[m] \in Nat /\ stamped[m] < t
        /\ stamped'[m] = t
        /\ \A n \in Machines : n # m => stamped'[n] = stamped[n]
    BY <1>2, NaturalBounds DEF Stamps, Typed, BoundsTyped
  <2>2. new = tree[m][id] \/ (new.at = t /\ new.by = m)
    BY DEF Capture, CaptureRecord, TombstoneRecord, new
  <2>. HIDE DEF new
  <2>3. \A r \in Known(id)' : r \in Known(id) \/ r = new
    <3>1. UNCHANGED <<remote, base>>
      BY DEF CaptureStore
    <3>2. \A n \in Machines : tree'[n][id] = tree[n][id] \/ tree'[n][id] = new
      BY <1>2 DEF Typed, CheckoutTyped, new
    <3> QED
      BY <3>1, <3>2 DEF Known
  <2>4. tree[m][id] \in Known(id)
    BY DEF Known
  <2>5. \A r \in Known(id) : Stamped(r)' /\ ~(r.at = t /\ r.by = m)
    <3> SUFFICES ASSUME NEW r \in Known(id)
                 PROVE  Stamped(r)' /\ ~(r.at = t /\ r.by = m)
      OBVIOUS
    <3>1. Stamped(r)
      BY DEF RevisionInv
    <3>2. CASE r = NoRecord
      BY <2>1, <3>2 DEF Stamped, NoRecord
    <3>3. CASE r # NoRecord
      <4>1. r.by \in Machines /\ stamped[r.by] \in Nat /\ r.at \in Nat
        BY <3>1, <3>3, KnownTyped, NaturalBounds DEF Stamped, Typed, BoundsTyped, Records
      <4> QED
        BY <2>1, <3>1, <3>3, <4>1 DEF Stamped
    <3> QED
      BY <3>2, <3>3
  <2>6. CASE new = tree[m][id]
    BY <2>3, <2>4, <2>5, <2>6 DEF RevisionInv
  <2>7. CASE new.at = t /\ new.by = m
    <3>1. \A r : r.at = t /\ r.by = m => Stamped(r)'
      BY <2>1 DEF Stamped
    <3> QED
      BY <2>3, <2>5, <2>7, <3>1 DEF RevisionInv
  <2> QED
    BY <2>2, <2>6, <2>7
<1> QED
  BY <1>1, <1>2 DEF CaptureStore

\* Every step keeps the revisions apart: no two records share a time and a writer.
LEMMA RevisionStep == Typed /\ RevisionInv /\ [Next]_vars => RevisionInv'
<1> SUFFICES ASSUME Typed /\ RevisionInv, [Next]_vars PROVE RevisionInv'
  OBVIOUS
<1> USE DEF Typed, RepositoryTyped, CheckoutTyped
<1>1. CASE UNCHANGED <<remote, tree, base, stamped>>
  BY <1>1, RecordsKeptIsEnough DEF RecordsKept, Known
<1>2. ASSUME NEW m \in Machines, Reader(m) \/ StartPass(m) \/ PassStep(m) \/ Misfortune(m)
      PROVE RevisionInv'
  <2>1. CASE UNCHANGED <<remote, tree, base, stamped>>
    BY <2>1, RecordsKeptIsEnough DEF RecordsKept, Known
  <2>2. CASE CaptureStore(m)
    BY <2>2, CaptureKeepsRevisions
  <2>3. CASE Fetch(m)
    <3>1. UNCHANGED stamped
      BY <2>3 DEF Fetch
    <3>2. ASSUME NEW id \in Ids PROVE Known(id)' \subseteq Known(id)
      <4>1. CASE UNCHANGED <<remote, tree, base>>
        BY <4>1 DEF Known
      <4>2. ASSUME NEW t \in Checkouts, t[id] \in {tree[m][id], remote[id]}, UNCHANGED remote,
                   tree' = [tree EXCEPT ![m] = t], base' = [base EXCEPT ![m] = remote]
            PROVE  Known(id)' \subseteq Known(id)
        BY <4>2 DEF Known
      <4>3. CASE TakeSnapshot(m)
        BY <2>3, <4>2, <4>3 DEF Fetch, TakeSnapshot, TakeRemote
      <4>4. CASE MergeRecords(m)
        BY <2>3, <4>2, <4>4, MergePicks, MergeTyped DEF Fetch, MergeRecords, TakeRemote
      <4> QED
        BY <2>3, <4>1, <4>3, <4>4 DEF Fetch, MergeRemote, RefuseRemote
    <3> QED
      BY <3>1, <3>2, RecordsKeptIsEnough DEF RecordsKept
  <2>4. CASE Push(m)
    <3>1. UNCHANGED stamped
      BY <2>4 DEF Push
    <3>2. RecordsKept
      BY <2>4 DEF RecordsKept, Known, Push, Publishes
    <3> QED
      BY <3>1, <3>2, RecordsKeptIsEnough
  <2>5. CASE StageSnapshot(m)
    <3>1. UNCHANGED <<remote, base, stamped>>
      BY <2>5 DEF StageSnapshot
    <3>2. \A id \in Ids, n \in Machines : tree'[n][id] \in {tree[n][id], NoRecord}
      BY <2>5 DEF StageSnapshot, Compacted
    <3>3. RecordsKept
      BY <3>1, <3>2 DEF RecordsKept, Known
    <3> QED
      BY <3>1, <3>3, RecordsKeptIsEnough
  <2>6. CASE PushSnapshot(m)
    <3>1. UNCHANGED stamped
      BY <2>6 DEF PushSnapshot
    <3>2. RecordsKept
      BY <2>6 DEF RecordsKept, Known, PushSnapshot, Publishes
    <3> QED
      BY <3>1, <3>2, RecordsKeptIsEnough
  <2>7. CASE CutMergeShort(m)
    <3>1. UNCHANGED <<remote, stamped>> /\ base' = [base EXCEPT ![m] = remote]
      BY <2>7 DEF CutMergeShort
    <3>2. \A id \in Ids, n \in Machines : tree'[n][id] \in {tree[n][id], remote[id]}
      <4>1. PICK done \in SUBSET Conflicts(base[m], tree[m], remote) :
              tree' = [tree EXCEPT ![m] = PartialMerge(base[m], tree[m], remote, done)]
        BY <2>7 DEF CutMergeShort
      <4> QED
        BY <4>1, MergePicks
    <3>3. RecordsKept
      BY <3>1, <3>2 DEF RecordsKept, Known
    <3> QED
      BY <3>1, <3>3, RecordsKeptIsEnough
  <2> QED
    BY <1>2, <2>1, <2>2, <2>3, <2>4, <2>5, <2>6, <2>7
    DEF Reader, PassStep, Misfortune, OpenTab, Edit, ChangeTab, CloseTab, StartPass, Goto, KeepHistory, Continue, ResetToSnapshot, Defer, EndPass, NothingToApply, Apply, CutShort, Cut, CutApplyShort
<1> QED
  BY <1>1, <1>2 DEF Next, vars

-----------------------------------------------------------------------------
(* Heads                                                                   *)

AtLeast(t, s) == \A id \in Ids : NotEarlier(t[id], s[id])

\* What a machine holds has moved on from the last remote head it took in, and
\* is that head where it has no commit of its own; a staged snapshot lacks
\* tombstones of it and nothing else.  A machine that staged a snapshot and lost
\* the lease is left out (its epoch is not the one its head descends from): it
\* can neither merge nor push before it takes a later snapshot.
HeadInv ==
  /\ ~published => remote = Empty /\ \A m \in Machines : base[m] = Empty
  /\ \A m \in Machines :
       /\ current[m] => base[m] = remote
       /\ baseEpoch[m] = meta[m] => AtLeast(tree[m], base[m])
       /\ baseEpoch[m] = meta[m] /\ ~ahead[m] => tree[m] = base[m]
       /\ pc[m] \in {"compact", "lease", "reset"} => ~ahead[m]
       /\ pc[m] \in {"compact", "reset"} => tree[m] = base[m]
       /\ pc[m] = "lease" => \A id \in Ids :
            tree[m][id] = base[m][id] \/ (tree[m][id] = NoRecord /\ base[m][id].val = Deleted)

\* The order of revisions is one.
LEMMA NotEarlierTransitive ==
  ASSUME NEW r \in Records, NEW s \in Records, NEW t \in Records, NotEarlier(r, s), NotEarlier(s, t)
  PROVE  NotEarlier(r, t)
  BY DEF NotEarlier, Later, Records

\* The order of revisions chains, record by record.
LEMMA AtLeastTransitive ==
  ASSUME NEW r \in Checkouts, NEW s \in Checkouts, NEW t \in Checkouts, AtLeast(r, s), AtLeast(s, t)
  PROVE  AtLeast(r, t)
  BY NotEarlierTransitive DEF AtLeast, Checkouts

\* A capture writes later revisions only.
LEMMA CaptureAdvances ==
  ASSUME Typed, NEW m \in Machines, NEW t \in Stamps(m)
  PROVE  AtLeast(Capture(tree[m], items[m], applied[m], t, m), tree[m])
<1> SUFFICES ASSUME NEW id \in Ids
             PROVE  NotEarlier(Capture(tree[m], items[m], applied[m], t, m)[id], tree[m][id])
  BY DEF AtLeast
<1>1. CASE Capture(tree[m], items[m], applied[m], t, m)[id] = tree[m][id]
  BY <1>1 DEF NotEarlier
<1>2. CASE Capture(tree[m], items[m], applied[m], t, m)[id] # tree[m][id]
  <2>1. tree[m][id].at < t
    BY <1>2 DEF Stamps
  <2>2. Capture(tree[m], items[m], applied[m], t, m)[id].at = t
    BY <1>2 DEF Capture, CaptureRecord, TombstoneRecord
  <2> QED
    BY <2>1, <2>2 DEF NotEarlier, Later
<1> QED
  BY <1>1, <1>2

\* A merge is not earlier than the remote, given that a machine's own side has
\* moved on from the common base and that a revision is one record.
LEMMA MergeAdvances ==
  ASSUME NEW common \in Checkouts, NEW ours \in Checkouts, NEW theirs \in Checkouts,
         AtLeast(ours, common),
         \A id \in Ids : ours[id].at = theirs[id].at /\ ours[id].by = theirs[id].by => ours[id] = theirs[id]
  PROVE  AtLeast(Merge(common, ours, theirs), theirs)
<1> SUFFICES ASSUME NEW id \in Ids
             PROVE  NotEarlier(Merge(common, ours, theirs)[id], theirs[id])
  BY DEF AtLeast
<1>1. CASE id \in Conflicts(common, ours, theirs)
  <2>1. Merge(common, ours, theirs)[id] = Resolve(ours[id], theirs[id])
    BY <1>1 DEF Merge
  <2>2. ours[id] \in Records /\ theirs[id] \in Records
    BY DEF Checkouts
  <2>3. ~Later(theirs[id], ours[id]) => NotEarlier(ours[id], theirs[id])
    BY <2>2 DEF NotEarlier, Later, Records
  <2> QED
    BY <2>1, <2>3 DEF Resolve, NotEarlier
<1>2. CASE id \notin Conflicts(common, ours, theirs)
  <2>1. CASE ours[id] = common[id]
    BY <1>2, <2>1 DEF Merge, NotEarlier
  <2>2. CASE ours[id] # common[id]
    <3>1. Merge(common, ours, theirs)[id] = ours[id]
      BY <1>2, <2>2 DEF Merge
    <3>2. theirs[id] = common[id] \/ theirs[id] = ours[id]
      BY <1>2, <2>2 DEF Conflicts
    <3> QED
      BY <3>1, <3>2 DEF AtLeast, NotEarlier
  <2> QED
    BY <2>1, <2>2
<1> QED
  BY <1>1, <1>2

\* git merge takes the remote where only the remote changed.
LEMMA MergeOfBase ==
  ASSUME NEW common \in Checkouts, NEW theirs \in Checkouts
  PROVE  Merge(common, common, theirs) = theirs
  BY DEF Merge, Conflicts, Checkouts

\* The epochs of a machine are numbers.
LEMMA EpochsAreNatural ==
  ASSUME Typed, NEW m \in Machines
  PROVE  meta[m] \in Nat /\ baseEpoch[m] \in Nat
<1>1. Epochs \subseteq Nat
  BY NaturalBounds DEF Epochs
<1> QED
  BY <1>1 DEF Typed, CheckoutTyped

\* A checkout is no earlier than itself.
LEMMA AtLeastReflexive == \A t : AtLeast(t, t)
  BY DEF AtLeast, NotEarlier

\* Every step keeps a machine's checkout at or after the head it contains.
LEMMA HeadStep == ~CutsMerges /\ Typed /\ EpochInv /\ RevisionInv /\ HeadInv /\ [Next]_vars => HeadInv'
<1> SUFFICES ASSUME ~CutsMerges /\ Typed /\ EpochInv /\ RevisionInv /\ HeadInv, [Next]_vars PROVE HeadInv'
  OBVIOUS
<1> USE DEF Typed, RepositoryTyped, CheckoutTyped, HeadTyped, PassTyped, EpochInv, HeadInv
<1>1. CASE UNCHANGED <<remote, published, tree, base, meta, baseEpoch, ahead, current, pc>>
  BY <1>1
<1>2. ASSUME NEW m \in Machines, Reader(m) \/ StartPass(m) \/ PassStep(m) \/ Misfortune(m)
      PROVE HeadInv'
  <2>1. CASE UNCHANGED <<remote, published, tree, base, meta, baseEpoch, ahead, current, pc>>
    BY <2>1
  <2>2. CASE StartPass(m)
    BY <2>2 DEF StartPass, Goto
  <2>3. CASE CaptureStore(m)
    <3>1. CASE UNCHANGED <<tree, ahead>>
      BY <2>3, <3>1 DEF CaptureStore, Continue, Goto
    <3>2. ASSUME NEW t \in Stamps(m),
                 tree' = [tree EXCEPT ![m] = Capture(@, items[m], applied[m], t, m)],
                 ahead' = [ahead EXCEPT ![m] = TRUE]
          PROVE  HeadInv'
      <4>1. /\ pc[m] = "capture" /\ pc' = [pc EXCEPT ![m] = "fetch"]
            /\ UNCHANGED <<repository, meta, base, baseEpoch, current>>
        BY <2>3 DEF CaptureStore, Continue, Goto
      <4>2. tree'[m] \in Checkouts /\ tree[m] \in Checkouts /\ base[m] \in Checkouts
        BY <2>3, CaptureStoreTyped
      <4>3. AtLeast(tree'[m], tree[m])
        BY <3>2, CaptureAdvances
      <4>4. baseEpoch[m] = meta[m] => AtLeast(tree'[m], base[m])
        BY <4>2, <4>3, AtLeastTransitive
      <4>5. \A n \in Machines : n # m => UNCHANGED <<tree[n], ahead[n], pc[n]>>
        BY <3>2, <4>1
      <4> QED
        BY <3>2, <4>1, <4>4, <4>5
    <3> QED
      BY <2>3, <3>1, <3>2 DEF CaptureStore
  <2>4. CASE Fetch(m)
    <3>1. CASE UNCHANGED <<checkout, current>>
      BY <2>4, <3>1 DEF Fetch, MergeRemote, RefuseRemote, TakeSnapshot, MergeRecords, TakeRemote, EndPass, Continue, Goto
    <3>2. ASSUME NEW t \in Checkouts, published, UNCHANGED repository,
                 tree' = [tree EXCEPT ![m] = t], base' = [base EXCEPT ![m] = remote],
                 current' = [current EXCEPT ![m] = TRUE],
                 \E phase \in {"apply", "push"} : pc' = [pc EXCEPT ![m] = phase],
                 \A n \in Machines : n # m => UNCHANGED <<meta[n], baseEpoch[n], ahead[n]>>,
                 AtLeast(t, remote), ~ahead'[m] => t = remote
          PROVE  HeadInv'
      BY <3>2
    <3>3. CASE TakeSnapshot(m)
      <4>1. published /\ UNCHANGED repository
        BY <2>4, <3>3 DEF Fetch, TakeSnapshot, TakeRemote, EndPass, Continue, Goto
      <4> QED
        BY <3>2, <3>3, <4>1, AtLeastReflexive DEF TakeSnapshot, TakeRemote, Goto
    <3>4. CASE published /\ MergeRecords(m)
      <4> DEFINE t == Merge(base[m], tree[m], remote)
      <4>1. t \in Checkouts
        BY MergeTyped
      <4>2. \A id \in Ids : tree[m][id].at = remote[id].at /\ tree[m][id].by = remote[id].by
                            => tree[m][id] = remote[id]
        BY DEF RevisionInv, Known
      <4>3. AtLeast(t, remote)
        BY <3>4, <4>2, MergeAdvances DEF MergeRecords
      <4>4. ~ahead[m] => t = remote
        BY <3>4, MergeOfBase DEF MergeRecords
      <4> HIDE DEF t
      <4> QED
        BY <2>4, <3>2, <3>4, <4>1, <4>3, <4>4 DEF Fetch, MergeRecords, TakeRemote, Goto, t
    <3> QED
      BY <2>4, <3>1, <3>3, <3>4 DEF Fetch, MergeRemote, RefuseRemote
  <2>5. CASE Push(m)
    <3>1. CASE UNCHANGED <<remote, published, ahead, base, current>>
      BY <2>5, <3>1 DEF Push, Continue, EndPass, Goto
    <3>2. ASSUME Publishes(m), ahead' = [ahead EXCEPT ![m] = FALSE], Continue(m, "compact")
          PROVE  HeadInv'
      <4>1. /\ tree[m] \in Checkouts /\ UNCHANGED <<tree, meta, baseEpoch>>
            /\ published' = TRUE /\ base' = [base EXCEPT ![m] = tree[m]] /\ remote' = tree[m]
            /\ \A n \in Machines : current'[n] <=> n = m
            /\ pc' = [pc EXCEPT ![m] = "compact"]
        BY <2>5, <3>2 DEF Push, Publishes, Continue, Goto
      <4>2. \A n \in Machines : n # m => UNCHANGED <<ahead[n], base[n], pc[n]>>
        BY <3>2, <4>1
      <4> QED
        BY <3>2, <4>1, <4>2, AtLeastReflexive
    <3> QED
      BY <2>5, <3>1, <3>2 DEF Push
  <2>6. CASE KeepHistory(m)
    BY <2>6 DEF KeepHistory, Continue, Goto
  <2>7. CASE StageSnapshot(m)
    <3>1. /\ pc[m] = "compact" /\ baseEpoch[m] = meta[m] /\ tree[m] = base[m] /\ ~ahead[m]
          /\ pc' = [pc EXCEPT ![m] = "lease"] /\ meta' = [meta EXCEPT ![m] = meta[m] + 1]
          /\ UNCHANGED <<repository, ahead, base, baseEpoch, current>>
      BY <2>7 DEF StageSnapshot, Continue, Goto
    <3>2. meta[m] \in Nat
      BY EpochsAreNatural
    <3>3. meta'[m] # baseEpoch[m]
      BY <3>1, <3>2
    <3>4. \A id \in Ids : tree'[m][id] = base[m][id] \/ (tree'[m][id] = NoRecord /\ base[m][id].val = Deleted)
      BY <2>7, <3>1 DEF StageSnapshot, Compacted, Expired
    <3>5. \A n \in Machines : n # m => UNCHANGED <<tree[n], meta[n], pc[n]>>
      BY <2>7, <3>1 DEF StageSnapshot
    <3>6. published
      BY <3>1
    <3> QED
      BY <3>1, <3>3, <3>4, <3>5, <3>6
  <2>8. CASE PushSnapshot(m)
    BY <2>8, AtLeastReflexive DEF PushSnapshot, Publishes, Continue, EndPass, Goto
  <2>9. CASE ResetToSnapshot(m)
    BY <2>9, AtLeastReflexive DEF ResetToSnapshot, Continue, Goto
  <2>10. CASE Defer(m)
    BY <2>10 DEF Defer, EndPass, Goto
  <2>11. CASE NothingToApply(m)
    BY <2>11 DEF NothingToApply, UpToDate, EndPass, Goto
  <2>12. CASE Apply(m)
    BY <2>12 DEF Apply, UpToDate, TreeApplied, EndPass, Goto
  <2>13. CASE CutShort(m)
    BY <2>13 DEF CutShort, Cut, EndPass, Goto
  <2>14. CASE CutApplyShort(m)
    BY <2>14 DEF CutApplyShort, UpToDate, Cut, EndPass, Goto
  <2>15. CASE CutMergeShort(m)
    BY <2>15 DEF CutMergeShort
  <2> QED
    BY <1>2, <2>1, <2>2, <2>3, <2>4, <2>5, <2>6, <2>7, <2>8, <2>9, <2>10, <2>11, <2>12, <2>13, <2>14, <2>15
    DEF Reader, PassStep, Misfortune, OpenTab, Edit, ChangeTab, CloseTab
<1> QED
  BY <1>1, <1>2 DEF Next, vars

-----------------------------------------------------------------------------
(* The properties                                                          *)

\* The types hold before the first pass.
LEMMA InitTyped == Init => Typed
<1> SUFFICES ASSUME Init PROVE Typed
  OBVIOUS
<1> USE MachineAssumption, NaturalBounds DEF Init
<1>1. Empty \in Checkouts
  BY NoRecordTyped DEF Empty, Checkouts
<1>2. 0 \in Epochs
  BY DEF Epochs
<1>3. RepositoryTyped /\ CheckoutTyped
  BY <1>1, <1>2 DEF RepositoryTyped, CheckoutTyped
<1>4. HeadTyped /\ FlagsTyped
  BY DEF HeadTyped, FlagsTyped
<1>5. StoreTyped
  BY DEF StoreTyped, Contents, AppliedTrees
<1>6. PassTyped /\ BoundsTyped
  BY DEF PassTyped, Phases, BoundsTyped
<1> QED
  BY <1>3, <1>4, <1>5, <1>6 DEF Typed

\* Every step keeps the types.
LEMMA TypedStep == Typed /\ [Next]_vars => Typed'
  BY RepositoryTypedStep, CheckoutTypedStep, HeadTypedStep, StoreTypedStep, PassTypedStep,
     FlagsTypedStep, BoundsTypedStep DEF Typed

\* Type correctness of the repository, the machines and their passes.
THEOREM TypeCorrect == Spec => []TypeOK
<1>1. Typed => TypeOK
  BY TypedIsTypeOK
<1> QED
  BY <1>1, InitTyped, TypedStep, PTL DEF Spec

\* A pass that ends leaves the store alone where the reader edited it while the
\* pass ran: only an apply writes the store, and it looks at the generation.
THEOREM NewerEditsSurvive == Spec => NewerEditSurvives
<1>1. Typed /\ [Next]_vars => [EndLeavesNewerEdit]_vars
  <2> SUFFICES ASSUME Typed, NEW n \in Machines, NEW m \in Machines,
                      Reader(n) \/ StartPass(n) \/ PassStep(n) \/ Misfortune(n),
                      moved[m], pc[m] # "idle", pc'[m] = "idle"
               PROVE  items'[m] = items[m]
    BY DEF Next, EndLeavesNewerEdit
  <2> USE DEF Typed, StoreTyped, PassTyped
  <2>1. CASE Reader(n)
    BY <2>1 DEF Reader, OpenTab, ChangeTab, CloseTab, Edit
  <2>2. CASE Apply(n) \/ CutApplyShort(n)
    <3>1. ~moved[n]
      BY <2>2 DEF Apply, CutApplyShort, UpToDate
    <3>2. m # n
      BY <3>1
    <3>3. items' = [items EXCEPT ![n] = Restored(tree[n], items[n], guarded[n])]
      BY <2>2 DEF Apply, CutApplyShort
    <3> QED
      BY <3>2, <3>3
  <2>3. CASE UNCHANGED items
    BY <2>3
  <2> QED
    BY <2>1, <2>2, <2>3 DEF PassStep, Misfortune, StartPass, CaptureStore, Fetch, Push, KeepHistory,
       StageSnapshot, PushSnapshot, ResetToSnapshot, Defer, NothingToApply, CutShort, CutMergeShort
<1> QED
  BY <1>1, InitTyped, TypedStep, PTL DEF Spec, NewerEditSurvives

\* The repository's epoch never goes back, and what a pass pushes descends from
\* the snapshot the repository stands on.
THEOREM OldHistoryOut == Spec => OldHistoryStaysOut
<1>1. Init => Typed /\ EpochInv
  BY InitTyped DEF Init, EpochInv
<1>2. Typed /\ EpochInv /\ [Next]_vars => (Typed /\ EpochInv)'
  BY TypedStep, EpochStep
<1>3. Typed /\ EpochInv /\ [Next]_vars => [EpochsAdvance]_vars
  <2> SUFFICES ASSUME Typed, EpochInv, NEW n \in Machines,
                      Reader(n) \/ StartPass(n) \/ PassStep(n) \/ Misfortune(n)
               PROVE  EpochsAdvance
    BY DEF Next
  <2> USE DEF EpochsAdvance
  <2>0. remoteEpoch \in Nat
    BY NaturalBounds DEF Typed, RepositoryTyped, Epochs
  <2>1. CASE Push(n)
    <3>1. remoteEpoch' = remoteEpoch
      BY <2>1 DEF Push
    <3>2. \A m \in Machines : m # n => pc'[m] = pc[m]
      BY <2>1 DEF Push, Continue, EndPass, Goto, Typed, PassTyped
    <3>3. remote' # remote => baseEpoch[n] = remoteEpoch
      BY <2>1 DEF Push, EpochInv
    <3> QED
      BY <2>0, <3>1, <3>2, <3>3
  <2>2. CASE PushSnapshot(n)
    <3>1. remoteEpoch' = remoteEpoch \/ (current[n] /\ pc[n] = "lease" /\ remoteEpoch' = meta[n])
      BY <2>2 DEF PushSnapshot
    <3>2. current[n] /\ pc[n] = "lease" => meta[n] = remoteEpoch + 1
      BY DEF EpochInv
    <3>3. \A m \in Machines : pc[m] = "push" => pc'[m] = "push"
      BY <2>2 DEF PushSnapshot, Continue, EndPass, Goto, Typed, PassTyped
    <3> QED
      BY <2>0, <3>1, <3>2, <3>3
  <2>3. CASE UNCHANGED repository
    BY <2>0, <2>3
  <2> QED
    BY <2>1, <2>2, <2>3 DEF Reader, OpenTab, ChangeTab, CloseTab, Edit, PassStep, Misfortune, StartPass,
       CaptureStore, Fetch, KeepHistory, StageSnapshot, ResetToSnapshot, Defer, NothingToApply, Apply,
       CutShort, CutApplyShort, CutMergeShort
<1> QED
  BY <1>1, <1>2, <1>3, PTL DEF Spec, OldHistoryStaysOut

\* The inductive invariant behind RecordsAdvance.
IInv == ~CutsMerges /\ Typed /\ EpochInv /\ RevisionInv /\ HeadInv

\* The inductive invariant holds before the first pass.
LEMMA InitIInv == Init /\ ~CutsMerges => IInv
<1> SUFFICES ASSUME Init, ~CutsMerges PROVE IInv
  OBVIOUS
<1>1. Typed
  BY InitTyped
<1>2. EpochInv
  BY DEF Init, EpochInv
<1>3. RevisionInv
  BY DEF Init, RevisionInv, Known, Stamped, Empty
<1>4. HeadInv
  BY AtLeastReflexive DEF Init, HeadInv
<1> QED
  BY <1>1, <1>2, <1>3, <1>4 DEF IInv

\* Every step keeps the inductive invariant.
LEMMA IInvStep == IInv /\ [Next]_vars => IInv'
  BY TypedStep, EpochStep, RevisionStep, HeadStep DEF IInv

\* The repository implements the map of revisions, for any machines, records,
\* edits and compactions, as long as no pass stops between two resolved
\* conflicts: a push publishes later revisions, a snapshot forgets tombstones,
\* and nothing else moves the repository.
THEOREM RecordsAdvance == Spec /\ ~CutsMerges => RecordsOnlyAdvance
<1>1. Init => Revisions!RevisionInit
  BY DEF Init, Empty, NoRecord, Revisions!RevisionInit, Revisions!NoRecord
<1>2. IInv /\ [Next]_vars => [Revisions!Publish \/ Revisions!Forget]_remote
  <2> SUFFICES ASSUME IInv, NEW m \in Machines,
                      Reader(m) \/ StartPass(m) \/ PassStep(m) \/ Misfortune(m), remote' # remote
               PROVE  Revisions!Publish \/ Revisions!Forget
    BY DEF Next, vars
  <2>1. tree[m] \in Checkouts
    BY DEF IInv, Typed, CheckoutTyped
  <2>2. CASE Push(m)
    <3>1. remote' = tree[m] /\ baseEpoch[m] = meta[m] /\ base[m] = remote
      BY <2>2 DEF Push, Publishes, IInv, EpochInv, HeadInv
    <3>2. AtLeast(tree[m], remote)
      BY <3>1 DEF IInv, HeadInv
    <3> QED
      BY <2>1, <3>1, <3>2 DEF AtLeast, NotEarlier, Later, Checkouts, Records, Revisions!Publish,
         Revisions!NotEarlier, Revisions!Later, Revisions!Checkouts, Revisions!Records
  <2>3. CASE PushSnapshot(m)
    <3> DEFINE gone == {id \in Ids : tree[m][id] # remote[id]}
    <3>1. remote' = tree[m] /\ base[m] = remote /\ pc[m] = "lease"
      BY <2>3 DEF PushSnapshot, Publishes, IInv, HeadInv
    <3>2. \A id \in Ids : tree[m][id] = remote[id] \/ (tree[m][id] = NoRecord /\ remote[id].val = Deleted)
      BY <3>1 DEF IInv, HeadInv
    <3>3. tree[m] = [id \in Ids |-> IF id \in gone THEN NoRecord ELSE remote[id]]
      BY <2>1, <3>2 DEF Checkouts
    <3>4. gone \in SUBSET {id \in Ids : remote[id].val = Deleted}
      BY <3>2
    <3> QED
      BY <3>1, <3>3, <3>4 DEF Revisions!Forget, Revisions!NoRecord, NoRecord
  <2> QED
    BY <2>2, <2>3 DEF Reader, OpenTab, ChangeTab, CloseTab, Edit, PassStep, Misfortune, StartPass,
       CaptureStore, Fetch, KeepHistory, StageSnapshot, ResetToSnapshot, Defer, NothingToApply, Apply,
       CutShort, CutApplyShort, CutMergeShort
<1> QED
  BY <1>1, <1>2, InitIInv, IInvStep, PTL DEF Spec, RecordsOnlyAdvance, Revisions!RevisionSpec

-----------------------------------------------------------------------------
(* Machines in step                                                        *)

\* The repository has moved on from every remote head a machine took in under
\* the epoch it stands on, and no machine descends from an epoch to come.
FollowInv ==
  \A m \in Machines :
    /\ baseEpoch[m] <= remoteEpoch
    /\ baseEpoch[m] = remoteEpoch => AtLeast(remote, base[m])
    /\ pc[m] = "reset" => meta[m] <= remoteEpoch
    /\ pc[m] = "reset" /\ meta[m] = remoteEpoch => AtLeast(remote, base[m])

\* What a machine noted as applied is what its inventory lists, and its checkout
\* has moved on from it, in the same epoch or to a later one.
AppliedInv ==
  \A m \in Machines : appliedTree[m] # NoTree =>
    /\ intent[m] = "reconcile"
    /\ applied[m] = Inventory(appliedTree[m][1])
    /\ appliedTree[m][2] <= meta[m]
    /\ appliedTree[m][2] = meta[m] => AtLeast(tree[m], appliedTree[m][1])

\* An id nobody has used is nowhere.
UsedInv ==
  \A id \in Ids \ used :
    remote[id] = NoRecord /\ \A m \in Machines : tree[m][id] = NoRecord /\ items[m][id] = None

\* Where the checkout is the one applied, what it deletes is not in the store.
DeletedInv ==
  \A m \in Machines, id \in Ids :
    appliedTree[m] = <<tree[m], meta[m]>> /\ tree[m][id].val = Deleted => items[m][id] = None

\* A pass of a machine that has captured, learnt nothing new and been overtaken
\* by no edit leaves nothing to apply only where the store is the checkout's.
Settled(m) ==
  /\ pc[m] \in {"capture", "fetch"} => ~news[m]
  /\ pc[m] # "idle" => ~insync[m]
  /\ /\ pc[m] \notin {"idle", "capture"} /\ intent[m] = "reconcile" /\ ~moved[m] /\ ~news[m]
     /\ appliedTree[m] = <<tree[m], meta[m]>>
     => \A id \in Ids : items[m][id] = Content(tree[m][id])

SettledInv == \A m \in Machines : Settled(m)

\* A pass that gets to its end has pushed what it had, and so has a machine in
\* step: it stands on the last remote head it took in.
Pushed(m) ==
  /\ intent[m] = "adopt" => ~ahead[m] /\ pc[m] # "capture"
  /\ pc[m] = "apply" \/ (pc[m] = "idle" /\ insync[m]) => ~ahead[m] /\ baseEpoch[m] = meta[m]

PushedInv == \A m \in Machines : Pushed(m)

\* The order of revisions is antisymmetric.
LEMMA AtLeastAntisymmetric ==
  ASSUME NEW r \in Checkouts, NEW s \in Checkouts, AtLeast(r, s), AtLeast(s, r)
  PROVE  r = s
<1>1. \A id \in Ids : r[id] \in Records /\ s[id] \in Records
  BY DEF Checkouts
<1>2. \A id \in Ids : r[id] = s[id]
  BY <1>1 DEF AtLeast, NotEarlier, Later, Records
<1> QED
  BY <1>2 DEF Checkouts

\* A merge is not earlier than a machine's own side, given that the remote has
\* moved on from the common base.
LEMMA MergeKeepsOurs ==
  ASSUME NEW common \in Checkouts, NEW ours \in Checkouts, NEW theirs \in Checkouts,
         AtLeast(theirs, common)
  PROVE  AtLeast(Merge(common, ours, theirs), ours)
<1> SUFFICES ASSUME NEW id \in Ids
             PROVE  NotEarlier(Merge(common, ours, theirs)[id], ours[id])
  BY DEF AtLeast
<1>1. CASE id \in Conflicts(common, ours, theirs)
  BY <1>1 DEF Merge, Resolve, NotEarlier
<1>2. CASE id \notin Conflicts(common, ours, theirs)
  BY <1>2 DEF Merge, AtLeast, NotEarlier
<1> QED
  BY <1>1, <1>2

\* A tree that is pushed has moved on from the repository's.
LEMMA PushAdvances ==
  ASSUME IInv, NEW m \in Machines, pc[m] = "push", published => current[m]
  PROVE  AtLeast(tree[m], remote) /\ baseEpoch[m] = remoteEpoch
<1> USE DEF IInv, EpochInv, HeadInv
<1>1. baseEpoch[m] = meta[m] /\ AtLeast(tree[m], base[m])
  OBVIOUS
<1>2. base[m] = remote /\ meta[m] = remoteEpoch
  BY <1>1
<1> QED
  BY <1>1, <1>2

\* Every step keeps the repository at or after the heads the machines took in.
LEMMA FollowStep == IInv /\ FollowInv /\ [Next]_vars => FollowInv'
<1> SUFFICES ASSUME IInv /\ FollowInv, [Next]_vars PROVE FollowInv'
  OBVIOUS
<1> USE DEF IInv, Typed, RepositoryTyped, CheckoutTyped, PassTyped, FollowInv
<1>0. remoteEpoch \in Nat /\ \A n \in Machines : meta[n] \in Nat /\ baseEpoch[n] \in Nat
  BY NaturalBounds, EpochsAreNatural DEF Epochs
<1>1. CASE UNCHANGED <<remote, remoteEpoch, base, meta, baseEpoch, pc>>
  BY <1>1
<1>2. ASSUME NEW m \in Machines, Reader(m) \/ StartPass(m) \/ PassStep(m) \/ Misfortune(m)
      PROVE FollowInv'
  <2>1. ASSUME UNCHANGED <<remote, remoteEpoch, base, meta, baseEpoch>>, NEW phase, phase # "reset",
               pc' = [pc EXCEPT ![m] = phase]
        PROVE  FollowInv'
    BY <2>1
  <2>2. CASE UNCHANGED <<remote, remoteEpoch, base, meta, baseEpoch, pc>>
    BY <2>2
  <2>3. CASE Fetch(m)
    <3>1. ASSUME NEW phase, phase # "reset", pc' = [pc EXCEPT ![m] = phase],
                 UNCHANGED <<remote, remoteEpoch>>, base' = [base EXCEPT ![m] = remote],
                 \A n \in Machines : n # m => UNCHANGED <<meta[n], baseEpoch[n]>>,
                 baseEpoch'[m] = remoteEpoch
          PROVE  FollowInv'
      BY <1>0, <3>1, AtLeastReflexive
    <3>2. CASE TakeSnapshot(m) \/ MergeRecords(m)
      <4>1. \E phase \in {"apply", "push"} : pc' = [pc EXCEPT ![m] = phase]
        BY <3>2 DEF TakeSnapshot, MergeRecords, TakeRemote, Goto
      <4> QED
        BY <2>3, <3>1, <3>2, <4>1 DEF Fetch, TakeSnapshot, MergeRecords, TakeRemote
    <3>3. CASE RefuseRemote(m)
      BY <2>1, <2>3, <3>3 DEF Fetch, RefuseRemote, EndPass, Goto
    <3> QED
      BY <2>1, <2>3, <3>2, <3>3 DEF Fetch, MergeRemote, Continue, Goto
  <2>4. CASE Push(m)
    <3>1. CASE (published => current[m]) /\ Publishes(m)
      <4>1. AtLeast(tree[m], remote) /\ baseEpoch[m] = remoteEpoch
        BY <2>4, <3>1, PushAdvances DEF Push
      <4>2. /\ remote' = tree[m] /\ base' = [base EXCEPT ![m] = tree[m]]
            /\ UNCHANGED <<remoteEpoch, meta, baseEpoch>>
        BY <2>4, <3>1 DEF Push, Publishes
      <4>3. \A n \in Machines : AtLeast(remote, base[n]) => AtLeast(remote', base'[n])
        BY <4>1, <4>2, AtLeastReflexive, AtLeastTransitive
      <4>4. \A n \in Machines : pc'[n] = "reset" => pc[n] = "reset"
        BY <2>4 DEF Push, Continue, EndPass, Goto
      <4> QED
        BY <4>2, <4>3, <4>4
    <3> QED
      BY <2>1, <2>4, <3>1 DEF Push, Continue, EndPass, Goto
  <2>5. CASE StageSnapshot(m)
    <3>1. /\ UNCHANGED <<repository, base, baseEpoch>> /\ pc' = [pc EXCEPT ![m] = "lease"]
          /\ \A n \in Machines : n # m => meta'[n] = meta[n]
      BY <2>5 DEF StageSnapshot, Continue, Goto
    <3> QED
      BY <3>1
  <2>6. CASE PushSnapshot(m)
    <3>1. CASE Publishes(m)
      <4>1. /\ remoteEpoch' = meta[m] /\ remote' = tree[m] /\ base' = [base EXCEPT ![m] = tree[m]]
            /\ UNCHANGED <<meta, baseEpoch>>
            /\ \A n \in Machines : n # m => pc'[n] = pc[n]
            /\ current[m] /\ pc[m] = "lease"
        BY <2>6, <3>1 DEF PushSnapshot, Publishes, Continue, EndPass, Goto
      <4>2. meta[m] = remoteEpoch + 1
        BY <4>1 DEF EpochInv
      <4> QED
        BY <1>0, <4>1, <4>2, AtLeastReflexive
    <3> QED
      BY <2>1, <2>6, <3>1 DEF PushSnapshot, EndPass, Goto
  <2>7. CASE ResetToSnapshot(m)
    <3>1. /\ UNCHANGED <<repository, base, meta>> /\ pc' = [pc EXCEPT ![m] = "apply"]
          /\ pc[m] = "reset" /\ baseEpoch' = [baseEpoch EXCEPT ![m] = meta[m]]
      BY <2>7 DEF ResetToSnapshot, Continue, Goto
    <3> QED
      BY <3>1
  <2>8. CASE StartPass(m)
    BY <2>1, <2>8 DEF StartPass, Goto
  <2>9. CASE CaptureStore(m) \/ KeepHistory(m) \/ Defer(m) \/ NothingToApply(m) \/ Apply(m)
    BY <2>1, <2>9 DEF CaptureStore, KeepHistory, Defer, NothingToApply, Apply, Continue, EndPass, Goto
  <2>10. CASE CutShort(m) \/ CutApplyShort(m)
    BY <2>1, <2>10 DEF CutShort, CutApplyShort, Cut, EndPass, Goto
  <2> QED
    BY <1>2, <2>2, <2>3, <2>4, <2>5, <2>6, <2>7, <2>8, <2>9, <2>10
    DEF Reader, PassStep, Misfortune, OpenTab, Edit, ChangeTab, CloseTab, CutMergeShort
<1> QED
  BY <1>1, <1>2 DEF Next, vars

\* A machine's checkout moves on to later revisions of its epoch, or to a later epoch.
Advances(m) ==
  meta'[m] > meta[m] \/ (meta'[m] = meta[m] /\ AtLeast(tree'[m], tree[m]))

\* Every step moves every checkout on.
LEMMA CheckoutsAdvance ==
  ASSUME IInv, FollowInv, [Next]_vars, NEW n \in Machines
  PROVE  Advances(n)
<1> USE DEF IInv, Typed, RepositoryTyped, CheckoutTyped, Advances
<1>1. CASE UNCHANGED <<tree, meta>>
  BY <1>1, AtLeastReflexive
<1>2. ASSUME NEW m \in Machines, Reader(m) \/ StartPass(m) \/ PassStep(m) \/ Misfortune(m)
      PROVE  Advances(n)
  <2>0. meta[m] \in Nat /\ remoteEpoch \in Nat
    BY NaturalBounds, EpochsAreNatural DEF Epochs
  <2>1. CASE UNCHANGED <<tree[n], meta[n]>>
    BY <2>1, AtLeastReflexive
  <2>2. CASE CaptureStore(m)
    <3>1. CASE UNCHANGED tree
      BY <2>1, <2>2, <3>1 DEF CaptureStore
    <3>2. ASSUME NEW t \in Stamps(m),
                 tree' = [tree EXCEPT ![m] = Capture(@, items[m], applied[m], t, m)]
          PROVE  Advances(n)
      BY <2>1, <2>2, <3>2, CaptureAdvances DEF CaptureStore
    <3> QED
      BY <2>2, <3>1, <3>2 DEF CaptureStore
  <2>3. CASE Fetch(m)
    <3>1. CASE TakeSnapshot(m)
      BY <2>0, <2>1, <3>1 DEF TakeSnapshot, TakeRemote
    <3>2. CASE MergeRecords(m)
      <4>1. AtLeast(remote, base[m])
        BY <3>2 DEF MergeRecords, FollowInv
      <4>2. AtLeast(Merge(base[m], tree[m], remote), tree[m])
        BY <4>1, MergeKeepsOurs
      <4> QED
        BY <2>1, <3>2, <4>2 DEF MergeRecords, TakeRemote
    <3> QED
      BY <2>1, <2>3, <3>1, <3>2 DEF Fetch, MergeRemote, RefuseRemote
  <2>4. CASE StageSnapshot(m)
    BY <2>0, <2>1, <2>4 DEF StageSnapshot
  <2> QED
    BY <1>2, <2>1, <2>2, <2>3, <2>4
    DEF Reader, PassStep, Misfortune, OpenTab, Edit, ChangeTab, CloseTab, StartPass, Push, KeepHistory,
        PushSnapshot, ResetToSnapshot, Defer, NothingToApply, Apply, CutShort, CutApplyShort, CutMergeShort
<1> QED
  BY <1>1, <1>2 DEF Next, vars

\* What is noted as applied is a checkout and its epoch.
LEMMA AppliedTreeTyped ==
  ASSUME Typed, NEW m \in Machines, appliedTree[m] # NoTree
  PROVE  /\ appliedTree[m][1] \in Checkouts /\ appliedTree[m][2] \in Nat
         /\ appliedTree[m] = <<appliedTree[m][1], appliedTree[m][2]>>
  BY NaturalBounds DEF Typed, StoreTyped, AppliedTrees, Epochs

\* A checkout with its epoch is never taken for no tree at all.
LEMMA NoTreeIsNone ==
  ASSUME Typed, NEW m \in Machines
  PROVE  <<tree[m], meta[m]>> # NoTree
  BY MachineAssumption, EpochsAreNatural DEF Typed, CheckoutTyped

\* Every step keeps what is noted as applied true and behind the checkout.
LEMMA AppliedStep == IInv /\ FollowInv /\ AppliedInv /\ [Next]_vars => AppliedInv'
<1> SUFFICES ASSUME IInv, FollowInv, AppliedInv, [Next]_vars, NEW n \in Machines, appliedTree'[n] # NoTree
             PROVE  /\ intent'[n] = "reconcile"
                    /\ applied'[n] = Inventory(appliedTree'[n][1])
                    /\ appliedTree'[n][2] <= meta'[n]
                    /\ appliedTree'[n][2] = meta'[n] => AtLeast(tree'[n], appliedTree'[n][1])
  BY DEF AppliedInv
<1>0. Typed /\ Typed'
  BY TypedStep DEF IInv
<1>1. CASE appliedTree'[n] = appliedTree[n] /\ intent'[n] = intent[n] /\ applied'[n] = applied[n]
  <2>1. appliedTree[n] # NoTree
    BY <1>1
  <2>2. /\ intent[n] = "reconcile" /\ applied[n] = Inventory(appliedTree[n][1])
        /\ appliedTree[n][2] <= meta[n]
        /\ appliedTree[n][2] = meta[n] => AtLeast(tree[n], appliedTree[n][1])
    BY <2>1 DEF AppliedInv
  <2>3. appliedTree[n][1] \in Checkouts /\ appliedTree[n][2] \in Nat
    BY <1>0, <2>1, AppliedTreeTyped
  <2>4. meta[n] \in Nat /\ meta'[n] \in Nat
    BY <1>0, NaturalBounds DEF Typed, CheckoutTyped, Epochs
  <2>5. Advances(n)
    BY CheckoutsAdvance
  <2>6. tree[n] \in Checkouts /\ tree'[n] \in Checkouts
    BY <1>0 DEF Typed, CheckoutTyped
  <2>7. AtLeast(tree'[n], tree[n]) /\ AtLeast(tree[n], appliedTree[n][1]) => AtLeast(tree'[n], appliedTree[n][1])
    BY <2>3, <2>6, AtLeastTransitive
  <2> QED
    BY <1>1, <2>2, <2>3, <2>4, <2>5, <2>7 DEF Advances
<1>2. ASSUME NEW m \in Machines, Reader(m) \/ StartPass(m) \/ PassStep(m) \/ Misfortune(m)
      PROVE  \/ appliedTree'[n] = appliedTree[n] /\ intent'[n] = intent[n] /\ applied'[n] = applied[n]
             \/ m = n /\ Apply(m)
  <2> USE <1>0 DEF Typed, StoreTyped
  <2>1. CASE Fetch(m)
    <3>1. UNCHANGED <<appliedTree, intent>>
      BY <2>1 DEF Fetch
    <3>2. intent[n] = "reconcile"
      BY <3>1 DEF AppliedInv
    <3> QED
      BY <2>1, <3>1, <3>2 DEF Fetch, Baseline
  <2>2. CASE Apply(m)
    BY <2>2 DEF Apply
  <2> QED
    BY <1>2, <2>1, <2>2
    DEF Reader, PassStep, Misfortune, OpenTab, Edit, ChangeTab, CloseTab, StartPass, CaptureStore, Push,
        KeepHistory, StageSnapshot, PushSnapshot, ResetToSnapshot, Defer, NothingToApply, CutShort,
        CutApplyShort, CutMergeShort
<1>3. CASE Apply(n)
  <2>1. /\ appliedTree'[n] = <<tree[n], meta[n]>> /\ intent'[n] = "reconcile"
        /\ applied'[n] = Inventory(tree[n]) /\ UNCHANGED <<tree, meta>>
    BY <1>0, <1>3 DEF Apply, TreeApplied, Typed, StoreTyped
  <2> QED
    BY <1>0, <2>1, AtLeastReflexive, EpochsAreNatural
<1> QED
  BY <1>1, <1>2, <1>3 DEF Next, vars

\* A capture writes no record for an item that neither the store nor the checkout has.
LEMMA CaptureOfNothing ==
  ASSUME NEW old, NEW held, NEW digests, NEW now, NEW m, NEW id \in Ids,
         old[id] = NoRecord, held[id] = None
  PROVE  Capture(old, held, digests, now, m)[id] = NoRecord
  BY RecordAssumption DEF Capture, TombstoneRecord, IsLive, NoRecord

\* An apply brings nothing the checkout does not have.
LEMMA RestoredOfNothing ==
  ASSUME NEW old, NEW held, NEW kept, NEW id \in Ids, ~IsLive(old[id]), held[id] = None
  PROVE  Restored(old, held, kept)[id] = None
  BY DEF Restored, Content

\* Every step keeps the ids apart that nobody has used.
LEMMA UsedStep == Typed /\ UsedInv /\ [Next]_vars => UsedInv'
<1> SUFFICES ASSUME Typed, UsedInv, [Next]_vars, NEW id \in Ids \ used'
             PROVE  /\ remote'[id] = NoRecord
                    /\ \A n \in Machines : tree'[n][id] = NoRecord /\ items'[n][id] = None
  BY DEF UsedInv
<1> USE DEF Typed, CheckoutTyped, StoreTyped
<1>0. ~IsLive(NoRecord)
  BY RecordAssumption DEF IsLive, NoRecord
<1>1. used \subseteq used'
  BY DEF Next, vars, Reader, PassStep, Misfortune, OpenTab, Edit, ChangeTab, CloseTab, StartPass,
     CaptureStore, Fetch, Push, KeepHistory, StageSnapshot, PushSnapshot, ResetToSnapshot, Defer,
     NothingToApply, Apply, CutShort, CutApplyShort, CutMergeShort
<1>2. /\ remote[id] = NoRecord
      /\ \A n \in Machines : tree[n][id] = NoRecord /\ items[n][id] = None
  BY <1>1 DEF UsedInv
<1>3. CASE UNCHANGED <<remote, tree, items>>
  BY <1>2, <1>3
<1>4. ASSUME NEW m \in Machines, Reader(m) \/ StartPass(m) \/ PassStep(m) \/ Misfortune(m)
      PROVE  /\ remote'[id] = NoRecord
             /\ \A n \in Machines : tree'[n][id] = NoRecord /\ items'[n][id] = None
  <2>1. CASE UNCHANGED <<remote, tree, items>>
    BY <1>2, <2>1
  <2>2. ASSUME NEW i \in Ids, NEW v \in Vals, OpenTab(m, i, v) PROVE items'[m][id] = None
    <3>1. i # id
      BY <2>2 DEF OpenTab
    <3> QED
      BY <1>2, <2>2, <3>1 DEF OpenTab, Edit, Contents
  <2>3. ASSUME NEW i \in Ids, NEW v \in Vals, ChangeTab(m, i, v) PROVE items'[m][id] = None
    <3>1. i # id
      BY <1>2, <2>3, RecordAssumption DEF ChangeTab
    <3> QED
      BY <1>2, <2>3, <3>1 DEF ChangeTab, Edit, Contents
  <2>4. ASSUME NEW i \in Ids, CloseTab(m, i) PROVE items'[m][id] = None
    BY <1>2, <2>4 DEF CloseTab, Edit, Contents
  <2>5. CASE Reader(m)
    <3>1. UNCHANGED <<remote, tree>> /\ \A n \in Machines : n # m => items'[n] = items[n]
      BY <2>5 DEF Reader, OpenTab, ChangeTab, CloseTab, Edit
    <3> QED
      BY <1>2, <2>2, <2>3, <2>4, <2>5, <3>1 DEF Reader
  <2>6. CASE CaptureStore(m)
    BY <1>2, <2>6, CaptureOfNothing DEF CaptureStore
  <2>7. CASE Fetch(m)
    <3>1. UNCHANGED <<remote, items>>
      BY <2>7 DEF Fetch
    <3>2. \A n \in Machines : tree'[n][id] \in {tree[n][id], remote[id]}
      BY <2>7, MergePicks DEF Fetch, MergeRemote, RefuseRemote, TakeSnapshot, MergeRecords, TakeRemote
    <3> QED
      BY <1>2, <3>1, <3>2
  <2>8. CASE Push(m) \/ PushSnapshot(m)
    BY <1>2, <2>8 DEF Push, PushSnapshot, Publishes
  <2>9. CASE StageSnapshot(m)
    BY <1>2, <2>9 DEF StageSnapshot, Compacted
  <2>10. CASE Apply(m) \/ CutApplyShort(m)
    BY <1>0, <1>2, <2>10, RestoredOfNothing DEF Apply, CutApplyShort
  <2>11. CASE CutMergeShort(m)
    <3>1. UNCHANGED <<remote, items>>
      BY <2>11 DEF CutMergeShort
    <3>2. \A n \in Machines : tree'[n][id] \in {tree[n][id], remote[id]}
      <4>1. PICK done \in SUBSET Conflicts(base[m], tree[m], remote) :
              tree' = [tree EXCEPT ![m] = PartialMerge(base[m], tree[m], remote, done)]
        BY <2>11 DEF CutMergeShort
      <4> QED
        BY <4>1, MergePicks
    <3> QED
      BY <1>2, <3>1, <3>2
  <2> QED
    BY <1>4, <2>1, <2>5, <2>6, <2>7, <2>8, <2>9, <2>10, <2>11
    DEF PassStep, Misfortune, StartPass, KeepHistory, ResetToSnapshot, Defer, NothingToApply, CutShort
<1> QED
  BY <1>3, <1>4 DEF Next, vars

\* A machine whose checkout is the one it noted as applied has had no other since.
LEMMA SameCheckoutSince ==
  ASSUME IInv, FollowInv, AppliedInv, [Next]_vars, NEW n \in Machines,
         appliedTree'[n] = appliedTree[n], appliedTree'[n] = <<tree'[n], meta'[n]>>
  PROVE  tree'[n] = tree[n] /\ meta'[n] = meta[n]
<1>0. Typed /\ Typed'
  BY TypedStep DEF IInv
<1>1. appliedTree[n] # NoTree
  BY <1>0, MachineAssumption, NaturalBounds DEF Typed, CheckoutTyped, Epochs
<1>2. meta'[n] <= meta[n] /\ (meta'[n] = meta[n] => AtLeast(tree[n], tree'[n]))
  <2>1. appliedTree[n][1] = tree'[n] /\ appliedTree[n][2] = meta'[n]
    OBVIOUS
  <2>2. /\ appliedTree[n][2] <= meta[n]
        /\ appliedTree[n][2] = meta[n] => AtLeast(tree[n], appliedTree[n][1])
    BY <1>1 DEF AppliedInv
  <2> QED
    BY <2>1, <2>2
<1>3. meta[n] \in Nat /\ meta'[n] \in Nat /\ tree[n] \in Checkouts /\ tree'[n] \in Checkouts
  BY <1>0, NaturalBounds DEF Typed, CheckoutTyped, Epochs
<1>4. meta'[n] = meta[n] /\ AtLeast(tree'[n], tree[n])
  BY <1>2, <1>3, CheckoutsAdvance DEF Advances
<1> QED
  BY <1>2, <1>3, <1>4, AtLeastAntisymmetric

\* Every step keeps what an applied checkout deletes out of the store.
LEMMA DeletedStep ==
  IInv /\ FollowInv /\ AppliedInv /\ UsedInv /\ DeletedInv /\ [Next]_vars => DeletedInv'
<1> SUFFICES ASSUME IInv, FollowInv, AppliedInv, UsedInv, DeletedInv, [Next]_vars,
                    NEW n \in Machines, NEW id \in Ids,
                    appliedTree'[n] = <<tree'[n], meta'[n]>>, tree'[n][id].val = Deleted
             PROVE  items'[n][id] = None
  BY DEF DeletedInv
<1> USE DEF IInv, Typed, CheckoutTyped, StoreTyped
<1>1. CASE appliedTree'[n] = appliedTree[n]
  <2>1. tree'[n] = tree[n] /\ meta'[n] = meta[n]
    BY <1>1, SameCheckoutSince
  <2>2. items[n][id] = None /\ tree[n][id].val = Deleted
    BY <1>1, <2>1 DEF DeletedInv
  <2>3. ~IsLive(tree[n][id]) /\ id \in used
    BY <2>2, RecordAssumption DEF IsLive, UsedInv, NoRecord
  <2>4. CASE UNCHANGED items
    BY <2>2, <2>4
  <2>5. ASSUME NEW m \in Machines, Reader(m) PROVE items'[n][id] = None
    <3>1. ASSUME NEW i \in Ids, NEW v \in Vals, OpenTab(m, i, v) \/ ChangeTab(m, i, v)
          PROVE  items'[n][id] = None
      <4>1. m # n \/ i # id
        BY <2>2, <2>3, <3>1, RecordAssumption DEF OpenTab, ChangeTab
      <4> QED
        BY <2>2, <3>1, <4>1 DEF OpenTab, ChangeTab, Edit, Contents
    <3>2. ASSUME NEW i \in Ids, CloseTab(m, i) PROVE items'[n][id] = None
      BY <2>2, <3>2 DEF CloseTab, Edit, Contents
    <3> QED
      BY <2>5, <3>1, <3>2 DEF Reader
  <2>6. ASSUME NEW m \in Machines, Apply(m) \/ CutApplyShort(m) PROVE items'[n][id] = None
    BY <2>2, <2>3, <2>6, RestoredOfNothing DEF Apply, CutApplyShort
  <2> QED
    BY <2>4, <2>5, <2>6
    DEF Next, vars, PassStep, Misfortune, StartPass, CaptureStore, Fetch, Push, KeepHistory,
        StageSnapshot, PushSnapshot, ResetToSnapshot, Defer, NothingToApply, CutShort, CutMergeShort
<1>2. CASE Apply(n)
  <2>1. UNCHANGED tree /\ appliedTree'[n] = TreeApplied(n)
        /\ items'[n] = Restored(tree[n], items[n], guarded[n])
    BY <1>2 DEF Apply
  <2>2. ~HoldsBack(tree[n], items[n], guarded[n])
    BY <1>2, <2>1, NoTreeIsNone DEF TreeApplied, Apply
  <2> QED
    BY <2>1, <2>2, RecordAssumption DEF Restored, Content, IsLive
<1> QED
  BY <1>1, <1>2
  DEF Next, vars, Reader, PassStep, Misfortune, OpenTab, Edit, ChangeTab, CloseTab, StartPass,
      CaptureStore, Fetch, Push, KeepHistory, StageSnapshot, PushSnapshot, ResetToSnapshot, Defer,
      NothingToApply, Apply, CutShort, CutApplyShort, CutMergeShort

\* A capture over the checkout it leaves behind, from an inventory that lists
\* that checkout, says of every item what the store says.
LEMMA CaptureOfApplied ==
  ASSUME NEW old \in Checkouts, NEW held \in Contents, NEW now, NEW m, NEW digests, NEW id \in Ids,
         digests = Inventory(Capture(old, held, digests, now, m)),
         Capture(old, held, digests, now, m)[id].val = Deleted => held[id] = None
  PROVE  held[id] = Content(Capture(old, held, digests, now, m)[id])
<1> DEFINE r == old[id]
           new == Capture(old, held, digests, now, m)[id]
<1>0. held[id] \in Vals \cup {None} /\ None \notin Vals /\ Deleted \notin Vals /\ None # Deleted
  BY RecordAssumption DEF Contents
<1>1. digests[id] = Content(new)
  BY DEF Inventory
<1>2. CASE held[id] # None
  <2>1. new = CaptureRecord(r, held[id], digests[id], now, m)
    BY <1>2 DEF Capture
  <2>2. new.val # Deleted
    BY <1>2
  <2> HIDE DEF new, r
  <2>3. CASE new = r
    <3>1. r.val = held[id] \/ (IsLive(r) /\ digests[id] = held[id])
      BY <1>0, <1>2, <2>1, <2>2, <2>3 DEF CaptureRecord
    <3> QED
      BY <1>0, <1>1, <1>2, <2>3, <3>1 DEF Content, IsLive, new
  <2>4. CASE new = [val |-> held[id], at |-> now, by |-> m]
    <3>1. new.val = held[id]
      BY <2>4
    <3> QED
      BY <1>0, <1>2, <3>1 DEF Content, IsLive, new
  <2> QED
    BY <2>1, <2>3, <2>4 DEF CaptureRecord
<1>3. CASE held[id] = None
  <2>1. new = TombstoneRecord(r, digests[id], now, m)
    BY <1>3 DEF Capture
  <2> HIDE DEF new, r
  <2>2. CASE IsLive(r) /\ digests[id] # None
    <3>1. new.val = Deleted
      BY <2>1, <2>2 DEF TombstoneRecord
    <3> QED
      BY <1>0, <1>3, <3>1 DEF Content, IsLive, new
  <2>3. CASE new = r /\ (IsLive(r) => digests[id] = None)
    BY <1>0, <1>1, <1>3, <2>3 DEF Content, IsLive, new
  <2> QED
    BY <2>1, <2>2, <2>3 DEF TombstoneRecord
<1> QED
  BY <1>2, <1>3

\* Every step keeps what a pass with nothing to apply says of the store.
LEMMA SettledStep ==
  IInv /\ FollowInv /\ AppliedInv /\ UsedInv /\ DeletedInv /\ SettledInv /\ [Next]_vars => SettledInv'
<1> SUFFICES ASSUME IInv, FollowInv, AppliedInv, UsedInv, DeletedInv, SettledInv, [Next]_vars,
                    NEW n \in Machines
             PROVE  Settled(n)'
  BY DEF SettledInv
<1>0. Typed /\ Settled(n)
  BY DEF IInv, SettledInv
<1> USE DEF Typed, CheckoutTyped, StoreTyped, PassTyped, FlagsTyped, Settled
<1>1. ASSUME UNCHANGED <<items[n], tree[n], meta[n], appliedTree[n], pc[n], intent[n],
                         moved[n], news[n], insync[n]>>
      PROVE  Settled(n)'
  BY <1>0, <1>1
<1>2. ASSUME NEW m \in Machines, m # n, Reader(m) \/ StartPass(m) \/ PassStep(m) \/ Misfortune(m)
      PROVE  UNCHANGED <<items[n], tree[n], meta[n], appliedTree[n], pc[n], intent[n],
                         moved[n], news[n], insync[n]>>
  <2>1. UNCHANGED <<tree[n], meta[n]>>
    BY <1>0, <1>2
    DEF Reader, PassStep, Misfortune, OpenTab, Edit, ChangeTab, CloseTab, StartPass, CaptureStore, Fetch,
        MergeRemote, RefuseRemote, TakeSnapshot, MergeRecords, TakeRemote, Push, KeepHistory,
        StageSnapshot, PushSnapshot, ResetToSnapshot, Defer, NothingToApply, Apply, CutShort,
        CutApplyShort, CutMergeShort
  <2>2. UNCHANGED <<items[n], appliedTree[n], intent[n], insync[n]>>
    BY <1>0, <1>2
    DEF Reader, PassStep, Misfortune, OpenTab, Edit, ChangeTab, CloseTab, StartPass, CaptureStore, Fetch,
        Push, KeepHistory, StageSnapshot, PushSnapshot, ResetToSnapshot, Defer, NothingToApply, Apply,
        CutShort, CutApplyShort, CutMergeShort
  <2>3. UNCHANGED <<pc[n], moved[n], news[n]>>
    BY <1>0, <1>2
    DEF Reader, PassStep, Misfortune, OpenTab, Edit, ChangeTab, CloseTab, StartPass, CaptureStore, Fetch,
        MergeRemote, RefuseRemote, TakeSnapshot, MergeRecords, TakeRemote, Push, KeepHistory,
        StageSnapshot, PushSnapshot, ResetToSnapshot, Defer, NothingToApply, Apply, CutShort,
        CutApplyShort, CutMergeShort, Cut, EndPass, Continue, Goto
  <2> QED
    BY <2>1, <2>2, <2>3
<1>3. CASE Reader(n)
  <2>1. /\ UNCHANGED <<pc[n], news[n], tree[n], meta[n], appliedTree[n], intent[n]>>
        /\ moved'[n] = (pc[n] # "idle") /\ insync'[n] = FALSE
    BY <1>0, <1>3 DEF Reader, OpenTab, ChangeTab, CloseTab, Edit
  <2> QED
    BY <1>0, <2>1
<1>4. CASE StartPass(n)
  <2>1. /\ pc'[n] = "capture" \/ (pc'[n] = "fetch" /\ intent'[n] = "adopt")
        /\ news'[n] = FALSE /\ insync'[n] = FALSE
    BY <1>0, <1>4 DEF StartPass, Goto
  <2> QED
    BY <2>1
<1>5. CASE CaptureStore(n)
  <2>1. /\ pc[n] = "capture" /\ pc'[n] = "fetch"
        /\ UNCHANGED <<items, moved, news, insync, intent, inventory, meta>>
    BY <1>0, <1>5 DEF CaptureStore, Continue, Goto
  <2>2. \E t : tree'[n] = Capture(tree[n], items[n], applied[n], t, n)
    BY <1>0, <1>5 DEF CaptureStore
  <2>3. ASSUME appliedTree[n] = <<tree'[n], meta'[n]>>, NEW id \in Ids
        PROVE  items[n][id] = Content(tree'[n][id])
    <3>1. DeletedInv' /\ AppliedInv'
      BY DeletedStep, AppliedStep
    <3>2. tree'[n][id].val = Deleted => items[n][id] = None
      BY <2>1, <2>3, <3>1 DEF DeletedInv
    <3>3. appliedTree'[n] # NoTree
      <4>1. Typed'
        BY TypedStep DEF IInv
      <4> QED
        BY <2>1, <2>3, <4>1, MachineAssumption, NaturalBounds DEF Epochs
    <3>4. applied[n] = Inventory(tree'[n])
      <4>1. appliedTree'[n][1] = tree'[n]
        BY <2>1, <2>3
      <4>2. applied'[n] = Inventory(appliedTree'[n][1])
        BY <3>1, <3>3 DEF AppliedInv
      <4> QED
        BY <2>1, <4>1, <4>2
    <3>5. tree[n] \in Checkouts /\ items[n] \in Contents
      BY <1>0
    <3> QED
      BY <2>2, <3>2, <3>4, <3>5, CaptureOfApplied
  <2> QED
    BY <1>0, <2>1, <2>3
<1>6. CASE Fetch(n)
  <2>1. pc[n] = "fetch" /\ UNCHANGED <<items, intent, appliedTree, insync>>
    BY <1>6 DEF Fetch
  <2>2. CASE Continue(n, "push") /\ UNCHANGED checkout
    BY <1>0, <2>1, <2>2 DEF Continue, Goto
  <2>3. CASE RefuseRemote(n)
    BY <1>0, <2>1, <2>3 DEF RefuseRemote, EndPass, Goto
  <2>4. CASE TakeSnapshot(n)
    <3>1. news'[n] = TRUE /\ pc'[n] \in {"apply", "push"}
      BY <1>0, <2>4 DEF TakeSnapshot, TakeRemote, Goto
    <3> QED
      BY <1>0, <2>1, <3>1
  <2>5. CASE MergeRecords(n)
    <3>1. /\ pc'[n] \in {"apply", "push"} /\ UNCHANGED <<meta, moved>>
          /\ news'[n] = (tree'[n] # tree[n])
      BY <1>0, <2>5 DEF MergeRecords, TakeRemote, Goto
    <3> QED
      BY <1>0, <2>1, <3>1
  <2> QED
    BY <1>6, <2>2, <2>3, <2>4, <2>5 DEF Fetch, MergeRemote
<1>7. CASE Push(n) \/ KeepHistory(n) \/ PushSnapshot(n) \/ ResetToSnapshot(n)
  <2>1. /\ UNCHANGED <<items, tree, meta, appliedTree, intent, insync>>
        /\ pc[n] \in {"push", "compact", "lease", "reset"}
        /\ \/ pc'[n] = "idle"
           \/ pc'[n] \in {"compact", "apply", "reset"} /\ UNCHANGED <<moved, news>>
    BY <1>0, <1>7 DEF Push, KeepHistory, PushSnapshot, ResetToSnapshot, Continue, EndPass, Goto
  <2>2. insync'[n] = FALSE
    BY <1>0, <2>1
  <2> QED
    BY <1>0, <2>1, <2>2
<1>8. CASE StageSnapshot(n)
  <2>1. /\ pc[n] = "compact" /\ pc'[n] = "lease" /\ meta'[n] = meta[n] + 1
        /\ UNCHANGED <<appliedTree, insync>>
    BY <1>0, <1>8 DEF StageSnapshot, Continue, Goto
  <2>2. meta[n] \in Nat
    BY <1>0, EpochsAreNatural
  <2>3. appliedTree'[n] # <<tree'[n], meta'[n]>>
    <3>1. SUFFICES ASSUME appliedTree'[n] = <<tree'[n], meta'[n]>> PROVE FALSE
      OBVIOUS
    <3>2. Advances(n) /\ tree'[n] = tree[n] /\ meta'[n] = meta[n]
      BY <2>1, <3>1, SameCheckoutSince, CheckoutsAdvance
    <3> QED
      BY <2>1, <2>2, <3>2
  <2> QED
    BY <1>0, <2>1, <2>3
<1>9. CASE Defer(n) \/ NothingToApply(n) \/ Apply(n) \/ CutShort(n) \/ CutApplyShort(n) \/ CutMergeShort(n)
  <2>1. pc'[n] = "idle"
    BY <1>0, <1>9 DEF Defer, NothingToApply, Apply, CutShort, CutApplyShort, CutMergeShort, Cut, EndPass, Goto
  <2> QED
    BY <2>1
<1> QED
  BY <1>1, <1>2, <1>3, <1>4, <1>5, <1>6, <1>7, <1>8, <1>9 DEF Next, vars, PassStep, Misfortune

\* Every step keeps machines in step with what they pushed.
LEMMA PushedStep == IInv /\ SettledInv /\ PushedInv /\ [Next]_vars => PushedInv'
<1> SUFFICES ASSUME IInv, SettledInv, PushedInv, [Next]_vars, NEW n \in Machines
             PROVE  Pushed(n)'
  BY DEF PushedInv
<1>0. Typed /\ Pushed(n) /\ (pc[n] # "idle" => ~insync[n])
  BY DEF IInv, SettledInv, Settled, PushedInv
<1> USE DEF Typed, CheckoutTyped, StoreTyped, HeadTyped, PassTyped, FlagsTyped, Pushed
<1>1. ASSUME UNCHANGED <<intent[n], ahead[n], pc[n], insync[n], meta[n], baseEpoch[n]>>
      PROVE  Pushed(n)'
  BY <1>0, <1>1
<1>2. ASSUME NEW m \in Machines, m # n, Reader(m) \/ StartPass(m) \/ PassStep(m) \/ Misfortune(m)
      PROVE  UNCHANGED <<intent[n], ahead[n], pc[n], insync[n], meta[n], baseEpoch[n]>>
  <2>1. UNCHANGED <<ahead[n], meta[n], baseEpoch[n]>>
    BY <1>0, <1>2
    DEF Reader, PassStep, Misfortune, OpenTab, Edit, ChangeTab, CloseTab, StartPass, CaptureStore, Fetch,
        MergeRemote, RefuseRemote, TakeSnapshot, MergeRecords, TakeRemote, Push, KeepHistory,
        StageSnapshot, PushSnapshot, ResetToSnapshot, Defer, NothingToApply, Apply, CutShort,
        CutApplyShort, CutMergeShort
  <2>2. UNCHANGED <<intent[n], insync[n], pc[n]>>
    BY <1>0, <1>2
    DEF Reader, PassStep, Misfortune, OpenTab, Edit, ChangeTab, CloseTab, StartPass, CaptureStore, Fetch,
        MergeRemote, RefuseRemote, TakeSnapshot, MergeRecords, TakeRemote, Push, KeepHistory,
        StageSnapshot, PushSnapshot, ResetToSnapshot, Defer, NothingToApply, Apply, CutShort,
        CutApplyShort, CutMergeShort, Cut, EndPass, Continue, Goto
  <2> QED
    BY <2>1, <2>2
<1>3. CASE Reader(n)
  <2>1. /\ UNCHANGED <<pc, intent, ahead, meta, baseEpoch>> /\ insync'[n] = FALSE
    BY <1>0, <1>3 DEF Reader, OpenTab, ChangeTab, CloseTab, Edit
  <2> QED
    BY <1>0, <2>1
<1>4. CASE StartPass(n)
  <2>1. /\ UNCHANGED <<intent, ahead>> /\ insync'[n] = FALSE
        /\ \/ intent[n] = "reconcile" /\ pc'[n] = "capture"
           \/ pc'[n] = "fetch"
    BY <1>0, <1>4 DEF StartPass, Goto
  <2> QED
    BY <1>0, <2>1
<1>5. CASE CaptureStore(n)
  <2>1. pc[n] = "capture" /\ pc'[n] = "fetch" /\ UNCHANGED intent
    BY <1>0, <1>5 DEF CaptureStore, Continue, Goto
  <2> QED
    BY <1>0, <2>1
<1>6. CASE Fetch(n)
  <2>1. pc[n] = "fetch" /\ UNCHANGED <<intent, insync>>
    BY <1>6 DEF Fetch
  <2>2. insync'[n] = FALSE
    BY <1>0, <2>1
  <2>3. CASE UNCHANGED checkout /\ pc'[n] \in {"idle", "push"}
    BY <1>0, <2>1, <2>2, <2>3
  <2>4. CASE TakeSnapshot(n)
    <3>1. ahead'[n] = FALSE /\ meta'[n] = remoteEpoch /\ baseEpoch'[n] = remoteEpoch
          /\ pc'[n] \in {"apply", "push"}
      BY <1>0, <2>4 DEF TakeSnapshot, TakeRemote, Goto
    <3> QED
      BY <2>1, <2>2, <3>1
  <2>5. CASE MergeRecords(n)
    <3>1. /\ UNCHANGED <<ahead, meta, baseEpoch>> /\ baseEpoch[n] = meta[n]
          /\ pc'[n] = IF intent[n] = "adopt" THEN "apply" ELSE "push"
      BY <1>0, <2>5 DEF MergeRecords, TakeRemote, Goto
    <3> QED
      BY <1>0, <2>1, <2>2, <3>1
  <2> QED
    BY <1>0, <1>6, <2>3, <2>4, <2>5 DEF Fetch, MergeRemote, RefuseRemote, EndPass, Continue, Goto
<1>7. CASE Push(n) \/ StageSnapshot(n) \/ PushSnapshot(n)
  <2>1. /\ UNCHANGED <<intent, insync>> /\ pc[n] \in {"push", "compact", "lease"}
        /\ pc'[n] \in {"idle", "compact", "lease", "reset"} /\ ahead'[n] \in {FALSE, ahead[n]}
    BY <1>0, <1>7 DEF Push, StageSnapshot, PushSnapshot, Continue, EndPass, Goto
  <2> QED
    BY <1>0, <2>1
<1>8. CASE KeepHistory(n)
  <2>1. pc[n] = "compact" /\ UNCHANGED <<intent, insync, ahead, meta, baseEpoch>> /\ pc'[n] = "apply"
    BY <1>0, <1>8 DEF KeepHistory, Continue, Goto
  <2>2. ~ahead[n] /\ baseEpoch[n] = meta[n]
    BY <2>1 DEF IInv, HeadInv, EpochInv
  <2> QED
    BY <2>1, <2>2
<1>9. CASE ResetToSnapshot(n)
  <2>1. /\ pc[n] = "reset" /\ UNCHANGED <<intent, insync, ahead, meta>> /\ baseEpoch'[n] = meta[n]
        /\ pc'[n] = "apply"
    BY <1>0, <1>9 DEF ResetToSnapshot, Continue, Goto
  <2>2. ~ahead[n]
    BY <2>1 DEF IInv, HeadInv
  <2> QED
    BY <2>1, <2>2
<1>10. CASE Apply(n) \/ NothingToApply(n)
  <2>1. /\ pc[n] = "apply" /\ UNCHANGED <<ahead, meta, baseEpoch>> /\ pc'[n] = "idle"
    BY <1>0, <1>10 DEF Apply, NothingToApply, UpToDate, EndPass, Goto
  <2> QED
    BY <1>0, <2>1
<1>11. CASE Defer(n) \/ CutShort(n) \/ CutApplyShort(n)
  <2>1. pc[n] # "idle" /\ UNCHANGED <<intent, insync, ahead>> /\ pc'[n] = "idle"
    BY <1>0, <1>11 DEF Defer, CutShort, CutApplyShort, UpToDate, Cut, EndPass, Goto
  <2> QED
    BY <1>0, <2>1
<1>12. ~CutMergeShort(n)
  BY DEF IInv, CutMergeShort
<1> QED
  BY <1>1, <1>2, <1>3, <1>4, <1>5, <1>6, <1>7, <1>8, <1>9, <1>10, <1>11, <1>12
  DEF Next, vars, PassStep, Misfortune

\* Every step leaves a machine in step with its checkout, or not in step.
LEMMA SyncedStep == Typed /\ SettledInv /\ SyncedMeansSame /\ [Next]_vars => SyncedMeansSame'
<1> SUFFICES ASSUME Typed, SettledInv, SyncedMeansSame, [Next]_vars,
                    NEW n \in Machines, pc'[n] = "idle", insync'[n], NEW id \in Ids \ {guarded'[n]}
             PROVE  items'[n][id] = Content(tree'[n][id])
  BY DEF SyncedMeansSame
<1> USE DEF Typed, CheckoutTyped, StoreTyped, PassTyped, FlagsTyped
<1>1. CASE UNCHANGED <<items[n], tree[n], guarded[n], pc[n], insync[n]>>
  BY <1>1 DEF SyncedMeansSame
<1>2. ASSUME NEW m \in Machines, m # n, Reader(m) \/ StartPass(m) \/ PassStep(m) \/ Misfortune(m)
      PROVE  UNCHANGED <<items[n], tree[n], guarded[n], pc[n], insync[n]>>
  <2>1. UNCHANGED <<items[n], tree[n], insync[n]>>
    BY <1>2
    DEF Reader, PassStep, Misfortune, OpenTab, Edit, ChangeTab, CloseTab, StartPass, CaptureStore, Fetch,
        MergeRemote, RefuseRemote, TakeSnapshot, MergeRecords, TakeRemote, Push, KeepHistory,
        StageSnapshot, PushSnapshot, ResetToSnapshot, Defer, NothingToApply, Apply, CutShort,
        CutApplyShort, CutMergeShort
  <2>2. UNCHANGED <<guarded[n], pc[n]>>
    BY <1>2
    DEF Reader, PassStep, Misfortune, OpenTab, Edit, ChangeTab, CloseTab, StartPass, CaptureStore, Fetch,
        MergeRemote, RefuseRemote, TakeSnapshot, MergeRecords, TakeRemote, Push, KeepHistory,
        StageSnapshot, PushSnapshot, ResetToSnapshot, Defer, NothingToApply, Apply, CutShort,
        CutApplyShort, CutMergeShort, Cut, EndPass, Continue, Goto
  <2> QED
    BY <2>1, <2>2
<1>3. ~Reader(n) /\ ~StartPass(n)
  BY DEF Reader, OpenTab, ChangeTab, CloseTab, Edit, StartPass
<1>4. ASSUME PassStep(n) \/ Misfortune(n), insync'[n] = insync[n]
      PROVE  FALSE
  <2>1. pc[n] # "idle"
    BY <1>4 DEF PassStep, Misfortune, CaptureStore, Fetch, Push, KeepHistory, StageSnapshot, PushSnapshot,
       ResetToSnapshot, Defer, NothingToApply, Apply, UpToDate, CutShort, CutApplyShort, CutMergeShort
  <2> QED
    BY <1>4, <2>1 DEF SettledInv, Settled
<1>5. CASE NothingToApply(n)
  <2>1. /\ pc[n] = "apply" /\ ~moved[n] /\ ~AwaitsLocalApply(n) /\ UNCHANGED <<items, tree>>
    BY <1>5 DEF NothingToApply, UpToDate
  <2>2. intent[n] = "reconcile" /\ ~news[n] /\ appliedTree[n] = <<tree[n], meta[n]>>
    BY <2>1 DEF AwaitsLocalApply
  <2> QED
    BY <2>1, <2>2 DEF SettledInv, Settled
<1>6. CASE Apply(n)
  <2>1. /\ items'[n] = Restored(tree[n], items[n], guarded[n])
        /\ UNCHANGED <<tree, guarded>>
    BY <1>6 DEF Apply, EndPass
  <2> QED
    BY <2>1 DEF Restored
<1>7. PassStep(n) \/ Misfortune(n) => insync'[n] = insync[n] \/ NothingToApply(n) \/ Apply(n)
  BY DEF PassStep, Misfortune, CaptureStore, Fetch, Push, KeepHistory, StageSnapshot, PushSnapshot,
     ResetToSnapshot, Defer, CutShort, CutApplyShort, CutMergeShort
<1> QED
  BY <1>1, <1>2, <1>3, <1>4, <1>5, <1>6, <1>7 DEF Next, vars

\* The inductive invariant behind SyncedSame and SyncedAgree.
SInv ==
  /\ IInv /\ FollowInv /\ AppliedInv /\ UsedInv /\ DeletedInv /\ SettledInv /\ PushedInv
  /\ SyncedMeansSame

\* It holds before the first pass.
LEMMA InitSInv == Init /\ ~CutsMerges => SInv
<1> SUFFICES ASSUME Init, ~CutsMerges PROVE SInv
  OBVIOUS
<1>1. IInv
  BY InitIInv
<1>2. FollowInv /\ SettledInv /\ PushedInv /\ SyncedMeansSame
  BY AtLeastReflexive DEF Init, FollowInv, SettledInv, Settled, PushedInv, Pushed, SyncedMeansSame
<1>3. \A m \in Machines : appliedTree[m] = NoTree
  BY DEF Init
<1>4. AppliedInv /\ DeletedInv
  <2>1. \A m \in Machines : <<tree[m], meta[m]>> # NoTree
    BY <1>1, NoTreeIsNone DEF IInv
  <2> QED
    BY <1>3, <2>1 DEF AppliedInv, DeletedInv
<1>5. UsedInv
  BY DEF Init, UsedInv, Empty
<1> QED
  BY <1>1, <1>2, <1>4, <1>5 DEF SInv

\* Every step keeps it.
LEMMA SInvStep == SInv /\ [Next]_vars => SInv'
<1>1. IInv => Typed
  BY DEF IInv
<1> QED
  BY <1>1, IInvStep, FollowStep, AppliedStep, UsedStep, DeletedStep, SettledStep, PushedStep, SyncedStep DEF SInv

\* A machine whose pass ended in step shows what its checkout holds, for any
\* machines, records, edits, compactions and passes cut short, as long as no
\* pass stops between two resolved conflicts: a pass skips its apply only where
\* the store already is the checkout.
THEOREM SyncedSame == Spec /\ ~CutsMerges => []SyncedMeansSame
<1>1. SInv => SyncedMeansSame
  BY DEF SInv
<1> QED
  BY <1>1, InitSInv, SInvStep, PTL DEF Spec

\* Machines that ended in step and stand on the repository's head show the same
\* tabs, but for those held back: each pushed what it had before it ended.
THEOREM SyncedAgree == Spec /\ ~CutsMerges => []SyncedMachinesAgree
<1>1. SInv => SyncedMachinesAgree
  <2> SUFFICES ASSUME SInv, NEW m \in Machines, NEW n \in Machines, pc[m] = "idle", pc[n] = "idle",
                      insync[m], current[m], insync[n], current[n],
                      NEW id \in Ids \ {guarded[m], guarded[n]}
               PROVE  items[m][id] = items[n][id]
    BY DEF SyncedMachinesAgree
  <2>1. ASSUME NEW k \in {m, n} PROVE tree[k] = remote /\ items[k][id] = Content(tree[k][id])
    <3>1. ~ahead[k] /\ baseEpoch[k] = meta[k]
      BY DEF SInv, PushedInv, Pushed
    <3>2. tree[k] = base[k] /\ base[k] = remote
      BY <3>1 DEF SInv, IInv, HeadInv
    <3> QED
      BY <3>2 DEF SInv, SyncedMeansSame
  <2> QED
    BY <2>1
<1> QED
  BY <1>1, InitSInv, SInvStep, PTL DEF Spec

=============================================================================
