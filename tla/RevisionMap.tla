---------------------------- MODULE RevisionMap ----------------------------
(***************************************************************************)
(* What Sync promises about the shared repository, without git, machines   *)
(* or passes: a map from record ids to records in which a record is only   *)
(* ever replaced by a later revision of itself.  "Records resolve          *)
(* independently by modification time and machine identifier"              *)
(* (docs/adr/0039-sync-configuration-through-a-git-remote.md:58).  A       *)
(* deletion is itself a revision; only a compaction may forget one.        *)
(***************************************************************************)
EXTENDS SyncRecords

VARIABLE map

RevisionInit == map = [id \in Ids |-> NoRecord]

\* Any number of records move on to later revisions in one step (one push).
Publish ==
  /\ map' \in Checkouts
  /\ \A id \in Ids : NotEarlier(map'[id], map[id])

\* A snapshot leaves out tombstones and nothing else.
Forget ==
  \E gone \in SUBSET {id \in Ids : map[id].val = Deleted} :
    map' = [id \in Ids |-> IF id \in gone THEN NoRecord ELSE map[id]]

RevisionSpec == RevisionInit /\ [][Publish \/ Forget]_map

=============================================================================
