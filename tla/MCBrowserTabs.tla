--------------------------- MODULE MCBrowserTabs ---------------------------
(***************************************************************************)
(* Two Spaces and a few tabs for TLC.  Tab ids and Space ids are random, so *)
(* any permutation of them gives the same behaviours.                       *)
(***************************************************************************)
EXTENDS BrowserTabs

MCSymmetry == Permutations(Tab) \cup Permutations(Space)

=============================================================================
