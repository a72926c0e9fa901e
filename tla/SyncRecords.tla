---------------------------- MODULE SyncRecords ----------------------------
(***************************************************************************)
(* The record rules of modules/sync/SyncModule.cpp as pure operators: what *)
(* a capture writes over a checkout, how two sides of a merge resolve, and *)
(* what an apply puts into the session store.                              *)
(*                                                                         *)
(* A checkout is a function from record ids to records.  A record carries  *)
(* its content, the time it was written at (modifiedAt) and the machine    *)
(* that wrote it (modifiedBy).  Encryption and JSON are left out; every    *)
(* record is of the version this browser reads.  The three kinds of record *)
(* (spaces, tabs, folders) are one kind here: a capture and a merge treat  *)
(* them alike, and an apply follows the rule for tabs.  (It treats a Space *)
(* apart: a local Space the checkout has no record of is kept unless the   *)
(* machine adopts the repository or takes a new epoch.)                    *)
(***************************************************************************)
EXTENDS Naturals

CONSTANTS
  Machines,   \* machine ids, numbers so that they can be compared as strings are
  Ids,        \* record ids (random UUIDs in the code, never used twice)
  Vals,       \* contents of a live record
  Deleted,    \* the content of a tombstone
  None        \* no content: a record or a local item that is not there

ASSUME RecordAssumption ==
  /\ Machines \subseteq Nat
  /\ Deleted \notin Vals
  /\ None \notin Vals \cup {Deleted}

\* A checkout without a file for an id holds NoRecord there: revision 0.
NoRecord == [val |-> None, at |-> 0, by |-> 0]

Records == [val : Vals \cup {Deleted, None}, at : Nat, by : Nat]
Checkouts == [Ids -> Records]

\* Local items, and the digests of the inventory: the content or None.
Contents == [Ids -> Vals \cup {None}]

IsLive(r) == r.val \in Vals

\* Bug variant of Content: a tombstone's content is taken for an item's.
ContentOfAny(r) == r.val

Content(r) == IF IsLive(r) THEN r.val ELSE None

-----------------------------------------------------------------------------
(* The order of revisions: modification time, then machine identifier.     *)

Later(r, s) == r.at > s.at \/ (r.at = s.at /\ r.by > s.by)
NotEarlier(r, s) == r = s \/ Later(r, s)

-----------------------------------------------------------------------------
(* Capture                                                                 *)

\* writeEncryptedRecord for an item the store holds.  A tombstone stays, an
\* equal record stays, and so does a record that changed remotely while the
\* local item is still the one last applied (applied is its inventory digest).
CaptureRecord(r, item, applied, now, m) ==
  IF \/ r.val = Deleted
     \/ r.val = item
     \/ IsLive(r) /\ applied = item
  THEN r
  ELSE [val |-> item, at |-> now, by |-> m]

\* tombstoneMissingRecords for an id the store does not hold: only a live
\* record the inventory lists becomes a tombstone.
TombstoneRecord(r, applied, now, m) ==
  IF IsLive(r) /\ applied # None
  THEN [val |-> Deleted, at |-> now, by |-> m]
  ELSE r

\* The capture half of reconcileRemote: one pass over the store, then the
\* tombstones, committed to the checkout.
Capture(tree, items, applied, now, m) ==
  [id \in Ids |->
     IF items[id] # None
     THEN CaptureRecord(tree[id], items[id], applied[id], now, m)
     ELSE TombstoneRecord(tree[id], applied[id], now, m)]

-----------------------------------------------------------------------------
(* Merge                                                                   *)

\* Bug variant of Resolve: git's own answer, without the revisions.
ResolveOurs(ours, theirs) == ours

\* resolveMergeConflicts: the later revision wins, a tie keeps the local one.
Resolve(ours, theirs) == IF Later(theirs, ours) THEN theirs ELSE ours

\* Both sides changed the same file since the merge base.
Conflicts(base, ours, theirs) ==
  {id \in Ids : /\ ours[id] # base[id]
                /\ theirs[id] # base[id]
                /\ ours[id] # theirs[id]}

\* git merge over the files of the two trees, its conflicts resolved per record.
Merge(base, ours, theirs) ==
  [id \in Ids |->
     IF id \in Conflicts(base, ours, theirs) THEN Resolve(ours[id], theirs[id])
     ELSE IF ours[id] = base[id] THEN theirs[id]
     ELSE ours[id]]

\* The same merge stopped between two records: what is not in done was left as
\* git leaves a conflict between encrypted files, at this machine's side, and
\* the next pass commits it that way.
PartialMerge(base, ours, theirs, done) ==
  [id \in Ids |->
     IF id \in Conflicts(base, ours, theirs) \ done THEN ours[id]
     ELSE Merge(base, ours, theirs)[id]]

-----------------------------------------------------------------------------
(* Compaction                                                              *)

\* compactHistoryIfNeeded drops the tombstones older than the retention.
Expired(r, now, retention) == r.val = Deleted /\ now > r.at + retention

Compacted(tree, now, retention) ==
  [id \in Ids |-> IF Expired(tree[id], now, retention) THEN NoRecord ELSE tree[id]]

-----------------------------------------------------------------------------
(* Apply                                                                   *)

\* The tab the reader is looking at is held back where the checkout has no
\* live record of it (guarded is None when nothing is protected).
HoldsBack(tree, items, guarded) ==
  /\ guarded \in Ids
  /\ items[guarded] # None
  /\ ~IsLive(tree[guarded])

\* Bug variant of Restored: what the checkout does not have stays in the store.
RestoredOver(tree, items, guarded) ==
  [id \in Ids |-> IF IsLive(tree[id]) THEN tree[id].val ELSE items[id]]

\* restoreRemoteState: the live records replace what the store held.
Restored(tree, items, guarded) ==
  [id \in Ids |->
     IF id = guarded /\ HoldsBack(tree, items, guarded)
     THEN items[id]
     ELSE Content(tree[id])]

\* writeAppliedRecordInventory: the digest of every live record.
Inventory(tree) == [id \in Ids |-> Content(tree[id])]

=============================================================================
