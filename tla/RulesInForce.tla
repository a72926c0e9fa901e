---------------------------- MODULE RulesInForce ----------------------------
(***************************************************************************)
(* What Content blocking promises of the rules that decide a request:      *)
(* however many compiles are under way and in whatever order they end, the *)
(* rules in force change only to those last asked for, and stand until     *)
(* then (docs/architecture.md, "Content blocker").                         *)
(***************************************************************************)
CONSTANTS
  RuleSet,  \* what a compile is asked for
  Nothing   \* no rules at all, as before the first compile of a session

VARIABLES
  wanted,   \* what was last asked for
  inForce   \* what decides requests

Init ==
  /\ wanted \in RuleSet
  /\ inForce = Nothing

\* A change: the rules in force go on deciding.
Want == wanted' \in RuleSet /\ UNCHANGED inForce

\* The rules wanted come into force, and never others.
Land == inForce' = wanted /\ UNCHANGED wanted

\* The program starts again, from what it had written.
Restart == wanted' \in RuleSet /\ inForce' = Nothing

Next == Want \/ Land \/ Restart

Spec == Init /\ [][Next]_<<wanted, inForce>>

=============================================================================
