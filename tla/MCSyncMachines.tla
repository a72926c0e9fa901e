--------------------------- MODULE MCSyncMachines ---------------------------
(***************************************************************************)
(* Two machines for TLC: the first created the repository and holds one    *)
(* tab, the second joins with an empty store.                              *)
(***************************************************************************)
EXTENDS SyncMachines

CONSTANTS a, b, t1, t2

MCMachines == {1, 2}
MCVals == {a, b}
MCFirstItems ==
  [m \in MCMachines |-> [id \in Ids |-> IF m = Creator /\ id = t1 THEN a ELSE None]]

=============================================================================
