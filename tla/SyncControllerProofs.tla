------------------------ MODULE SyncControllerProofs ------------------------
(***************************************************************************)
(* Proofs about SyncController for every value of its bounds: the type     *)
(* invariant and the safety properties the run SyncController checks.      *)
(*                                                                         *)
(* The inductive invariant comes in four layers, each proved with the ones *)
(* before it: what the switch, the marker and a pass have to do with each  *)
(* other (SwitchInv), who may publish (AdoptionInv), which version of the  *)
(* page each part of the system knows of (VersionInv), and what waits to   *)
(* sync (PendingInv).                                                      *)
(***************************************************************************)
EXTENDS SyncController, TLAPS

-----------------------------------------------------------------------------
(* Types                                                                   *)

\* TypeOK variable by variable: what is on or off, and what holds a value.
FlagsTyped ==
  /\ up \in BOOLEAN /\ login \in BOOLEAN /\ connecting \in BOOLEAN /\ adopts \in BOOLEAN
  /\ enabled \in BOOLEAN /\ pending \in BOOLEAN /\ disconnectPending \in BOOLEAN
  /\ quiet \in BOOLEAN /\ periodic \in BOOLEAN /\ starting \in BOOLEAN
  /\ unlanded \in BOOLEAN /\ checkDue \in BOOLEAN /\ joined \in BOOLEAN

DataTyped ==
  /\ marker \in Markers \cup {NoMarker}
  /\ pass \in Passes \cup {NoPass}
  /\ page \in Nat /\ stored \in Nat /\ seen \in Nat /\ generation \in Nat /\ theme \in Nat
  /\ synced \in Nat /\ connects \in Nat /\ stops \in Nat

Typed == FlagsTyped /\ DataTyped

\* TypeOK says of every variable what Typed says of it.
LEMMA TypedIsTypeOK == Typed <=> TypeOK
  BY DEF Typed, FlagsTyped, DataTyped, TypeOK

USE DEF account, switch, local, shared, bounds

\* The operators the handlers are built from keep the types of what they set.
LEMMA MarkerTyped ==
  ASSUME NEW on \in BOOLEAN, NEW adopting \in BOOLEAN, Remember(on, adopting)
  PROVE  marker' \in Markers \cup {NoMarker} /\ checkDue' \in BOOLEAN
  BY DEF Remember, Markers

\* A pass that begins is a pass (syncNow, past its guard).
LEMMA PassTyped ==
  ASSUME Typed, NEW adopting \in BOOLEAN, BeginPass(adopting)
  PROVE  pass' \in Passes \cup {NoPass}
  BY DEF Typed, DataTyped, BeginPass, Passes, Outcomes

\* syncNow leaves a pass or none.
LEMMA SyncNowTyped ==
  ASSUME Typed, SyncNow
  PROVE  pass' \in Passes \cup {NoPass}
  BY PassTyped DEF Typed, FlagsTyped, DataTyped, SyncNow

\* reportFailure keeps the types of the switch, the timers and the marker.
LEMMA FailureTyped ==
  ASSUME Typed, NEW outcome, ReportFailure(outcome)
  PROVE  /\ marker' \in Markers \cup {NoMarker} /\ checkDue' \in BOOLEAN
         /\ enabled' \in BOOLEAN /\ pending' \in BOOLEAN /\ quiet' \in BOOLEAN /\ periodic' \in BOOLEAN
<1>1. CASE outcome = "rejected"
  <2>1. Remember(FALSE, adopts) /\ SwitchOff
    BY <1>1 DEF ReportFailure
  <2>2. marker' \in Markers \cup {NoMarker} /\ checkDue' \in BOOLEAN
    BY <2>1, MarkerTyped DEF Typed, FlagsTyped
  <2> QED
    BY <2>1, <2>2 DEF SwitchOff
<1>2. CASE outcome # "rejected"
  BY <1>2 DEF ReportFailure, Typed, FlagsTyped, DataTyped
<1> QED
  BY <1>1, <1>2

\* A pass is a record, never NoPass, and the worker changes what it has got and
\* not what it was given.
LEMMA PassIsRecord ==
  ASSUME Typed, Syncing
  PROVE  pass \in Passes /\ pass.generation \in Nat /\ pass.page \in Nat
  BY DEF Typed, DataTyped, Syncing, Passes

\* What the shell thread gave the worker stays as it was given while the pass runs.
LEMMA WorkerKeepsPass ==
  ASSUME Typed, Worker
  PROVE  /\ Syncing /\ Syncing'
         /\ pass'.adopt = pass.adopt /\ pass'.generation = pass.generation
<1>1. pass \in Passes
  BY PassIsRecord DEF Worker, WorkerCaptures, WorkerFails, WorkerSucceeds
<1>2. /\ pass' \in Passes
      /\ pass'.adopt = pass.adopt /\ pass'.generation = pass.generation
  BY <1>1 DEF Worker, WorkerCaptures, WorkerFails, WorkerSucceeds, Passes, Outcomes, Typed, DataTyped
<1> QED
  BY <1>1, <1>2, ControllerAssumption DEF Syncing

\* Every handler keeps what is on or off Boolean, the switch and the timers with it.
LEMMA FlagsStep == Typed /\ [Next]_vars => FlagsTyped'
<1> SUFFICES ASSUME Typed, [Next]_vars PROVE FlagsTyped'
  OBVIOUS
<1> USE DEF Typed, FlagsTyped
<1>1. CASE Browser
  <2>1. CASE MovePage \/ EditTabs
    BY <2>1 DEF MovePage, EditTabs
  <2>2. CASE Land
    BY <2>2 DEF Land
  <2>3. CASE ChangeTheme
    BY <2>3 DEF ChangeTheme
  <2>4. CASE Check
    BY <2>4 DEF Check
  <2> QED
    BY <1>1, <2>1, <2>2, <2>3, <2>4 DEF Browser
<1>2. CASE Timers
  <2>1. CASE QuietFires
    BY <2>1 DEF QuietFires
  <2>2. CASE PeriodicFires
    BY <2>2 DEF PeriodicFires
  <2>3. CASE StartingFires
    BY <2>3 DEF StartingFires
  <2> QED
    BY <1>2, <2>1, <2>2, <2>3 DEF Timers
<1>3. CASE PressSyncNow
  BY <1>3 DEF PressSyncNow
<1>4. CASE Pause
  BY <1>4 DEF Pause, SwitchOff, Remember
<1>5. CASE Resume
  BY <1>5 DEF Resume, Remember
<1>6. CASE DisconnectLater
  BY <1>6 DEF DisconnectLater, SwitchOff
<1>7. CASE DisconnectNow
  BY <1>7 DEF DisconnectNow, SwitchOff, Forget
<1>8. CASE Connect
  BY <1>8 DEF Connect
<1>9. CASE ConnectionFails
  BY <1>9 DEF ConnectionFails
<1>10. ASSUME NEW created \in BOOLEAN, ConnectionReady(created) PROVE FlagsTyped'
  BY <1>10 DEF ConnectionReady, Remember
<1>11. CASE Worker
  BY <1>11 DEF Worker, WorkerCaptures, WorkerFails, WorkerSucceeds
<1>12. CASE FinishDisconnecting
  BY <1>12 DEF FinishDisconnecting, Ends, Forget
<1>13. CASE FinishFailed
  BY <1>13, FailureTyped DEF FinishFailed, Ends
<1>14. CASE FinishPaused
  BY <1>14 DEF FinishPaused, Ends
<1>15. CASE FinishDeferred
  BY <1>15 DEF FinishDeferred, Answered, Deferred, Ends, Remember
<1>16. CASE FinishSettled
  BY <1>16 DEF FinishSettled, Answered, Ends, Remember
<1>17. CASE FinishStale
  BY <1>17 DEF FinishStale, Answered, Deferred, Ends, Remember
<1>18. CASE FinishApplied
  BY <1>18 DEF FinishApplied, Applies, Ends, Remember
<1>19. CASE FinishApplyFailed
  BY <1>19, FailureTyped DEF FinishApplyFailed, Applies, Ends
<1>20. CASE Stop
  BY <1>20 DEF Stop, SwitchOff
<1>21. CASE Launch
  BY <1>21 DEF Launch
<1>22. CASE UNCHANGED vars
  BY <1>22 DEF vars
<1> QED
  BY <1>1, <1>2, <1>3, <1>4, <1>5, <1>6, <1>7, <1>8, <1>9, <1>10, <1>11, <1>12, <1>13, <1>14,
     <1>15, <1>16, <1>17, <1>18, <1>19, <1>20, <1>21, <1>22 DEF Next, Reader, Forge, Finished

\* Every handler keeps the marker, the pass and the versions what they are.
LEMMA DataStep == Typed /\ [Next]_vars => DataTyped'
<1> SUFFICES ASSUME Typed, [Next]_vars PROVE DataTyped'
  OBVIOUS
<1> USE DEF Typed, FlagsTyped, DataTyped
<1>1. CASE Browser
  BY <1>1 DEF Browser, MovePage, EditTabs, Land, ChangeTheme, Check
<1>2. CASE Timers
  BY <1>2, SyncNowTyped DEF Timers, QuietFires, PeriodicFires, StartingFires
<1>3. CASE PressSyncNow
  BY <1>3, SyncNowTyped DEF PressSyncNow
<1>4. CASE Pause
  BY <1>4, MarkerTyped DEF Pause, SwitchOff
<1>5. CASE Resume
  BY <1>5, MarkerTyped, PassTyped DEF Resume
<1>6. CASE DisconnectLater
  BY <1>6 DEF DisconnectLater, SwitchOff
<1>7. CASE DisconnectNow
  BY <1>7 DEF DisconnectNow, SwitchOff, Forget
<1>8. CASE Connect
  BY <1>8 DEF Connect
<1>9. CASE ConnectionFails
  BY <1>9 DEF ConnectionFails
<1>10. ASSUME NEW created \in BOOLEAN, ConnectionReady(created) PROVE DataTyped'
  <2>1. (~created) \in BOOLEAN
    OBVIOUS
  <2> QED
    BY <1>10, <2>1, MarkerTyped, PassTyped DEF ConnectionReady
<1>11. CASE Worker
  <2>1. pass \in Passes
    BY <1>11 DEF Worker, WorkerCaptures, WorkerFails, WorkerSucceeds, Syncing
  <2>2. pass' \in Passes
    BY <1>11, <2>1 DEF Worker, WorkerCaptures, WorkerFails, WorkerSucceeds, Passes, Outcomes
  <2> QED
    BY <1>11, <2>1, <2>2 DEF Worker, WorkerCaptures, WorkerFails, WorkerSucceeds, Passes
<1>12. CASE FinishDisconnecting
  BY <1>12 DEF FinishDisconnecting, Ends, Forget
<1>13. CASE FinishFailed
  BY <1>13, FailureTyped DEF FinishFailed, Ends
<1>14. CASE FinishPaused
  BY <1>14 DEF FinishPaused, Ends
<1>15. CASE FinishDeferred
  BY <1>15, MarkerTyped DEF FinishDeferred, Answered, Deferred, Ends
<1>16. CASE FinishSettled
  BY <1>16, MarkerTyped DEF FinishSettled, Answered, Ends
<1>17. CASE FinishStale
  <2>1. marker' \in Markers \cup {NoMarker}
    BY <1>17, MarkerTyped DEF FinishStale, Deferred
  <2> QED
    BY <1>17, <2>1 DEF FinishStale, Answered, Deferred, Ends
<1>18. CASE FinishApplied
  BY <1>18, MarkerTyped DEF FinishApplied, Applies, Ends, Syncing, Passes
<1>19. CASE FinishApplyFailed
  BY <1>19, FailureTyped DEF FinishApplyFailed, Applies, Ends
<1>20. CASE Stop
  BY <1>20 DEF Stop, SwitchOff
<1>21. CASE Launch
  BY <1>21 DEF Launch, Markers
<1>22. CASE UNCHANGED vars
  BY <1>22 DEF vars
<1> QED
  BY <1>1, <1>2, <1>3, <1>4, <1>5, <1>6, <1>7, <1>8, <1>9, <1>10, <1>11, <1>12, <1>13, <1>14,
     <1>15, <1>16, <1>17, <1>18, <1>19, <1>20, <1>21, <1>22 DEF Next, Reader, Forge, Finished

\* Type correctness of the switch, its account, the pass and the local state,
\* for any number of edits, connections and restarts.
THEOREM TypeCorrect == Spec => []TypeOK
<1>1. Init => Typed
  <2>1. Init => FlagsTyped
    BY DEF Init, FlagsTyped
  <2>2. Init => DataTyped
    BY DEF Init, DataTyped
  <2> QED
    BY <2>1, <2>2 DEF Typed
<1>2. Typed /\ [Next]_vars => Typed'
  BY FlagsStep, DataStep DEF Typed
<1>3. Typed => TypeOK
  BY TypedIsTypeOK
<1> QED
  BY <1>1, <1>2, <1>3, PTL DEF Spec


-----------------------------------------------------------------------------
(* The switch                                                              *)

\* Without a login there is no pass, and a Disconnect only waits for one: the
\* handlers that write the marker run with the login it is written for.
SwitchInv ==
  /\ ~up => ~login /\ ~connecting /\ ~enabled /\ ~disconnectPending
  /\ disconnectPending => Syncing
  /\ Syncing => login
  /\ login => ~connecting
  /\ TimersFollowSwitch
  /\ MarkerIsCurrent

\* Every handler that sets the switch sets the timers and the marker with it.
LEMMA SwitchStep == Typed /\ SwitchInv /\ [Next]_vars => SwitchInv'
<1> SUFFICES ASSUME Typed /\ SwitchInv, [Next]_vars PROVE SwitchInv'
  OBVIOUS
<1> USE DEF Typed, FlagsTyped, DataTyped, SwitchInv, TimersFollowSwitch, MarkerIsCurrent, Syncing
<1>1. CASE UNCHANGED <<up, login, connecting, adopts, marker, switch, pass>>
  BY <1>1
<1>2. CASE Check
  BY <1>2 DEF Check
<1>3. CASE QuietFires
  BY <1>3 DEF QuietFires, SyncNow, BeginPass
<1>4. CASE PeriodicFires
  BY <1>4 DEF PeriodicFires, SyncNow, BeginPass
<1>5. CASE StartingFires
  BY <1>5 DEF StartingFires, SyncNow, BeginPass
<1>6. CASE PressSyncNow
  BY <1>6 DEF PressSyncNow, SyncNow, BeginPass
<1>7. CASE Pause
  BY <1>7 DEF Pause, SwitchOff, Remember
<1>8. CASE Resume
  BY <1>8 DEF Resume, Remember, BeginPass
<1>9. CASE DisconnectLater
  BY <1>9 DEF DisconnectLater, SwitchOff
<1>10. CASE DisconnectNow
  BY <1>10 DEF DisconnectNow, SwitchOff, Forget
<1>11. CASE Connect
  BY <1>11 DEF Connect
<1>12. CASE ConnectionFails
  BY <1>12 DEF ConnectionFails
<1>13. ASSUME NEW created \in BOOLEAN, ConnectionReady(created) PROVE SwitchInv'
  BY <1>13 DEF ConnectionReady, Remember, BeginPass
<1>14. CASE WorkerCaptures
  BY <1>14, WorkerKeepsPass DEF Worker, WorkerCaptures
<1>15. CASE WorkerFails
  BY <1>15, WorkerKeepsPass DEF Worker, WorkerFails
<1>16. CASE WorkerSucceeds
  BY <1>16, WorkerKeepsPass DEF Worker, WorkerSucceeds
<1>17. CASE FinishDisconnecting
  BY <1>17 DEF FinishDisconnecting, Ends, Forget
<1>18. CASE FinishFailed
  BY <1>18 DEF FinishFailed, Ends, ReportFailure, SwitchOff, Remember
<1>19. CASE FinishPaused
  BY <1>19 DEF FinishPaused, Ends
<1>20. CASE FinishDeferred
  BY <1>20 DEF FinishDeferred, Answered, Ends, Deferred, Remember
<1>21. CASE FinishSettled
  BY <1>21 DEF FinishSettled, Answered, Ends, Remember
<1>22. CASE FinishStale
  BY <1>22 DEF FinishStale, Answered, Ends, Deferred, Remember
<1>23. CASE FinishApplied
  BY <1>23 DEF FinishApplied, Applies, Ends, Remember
<1>24. CASE FinishApplyFailed
  BY <1>24 DEF FinishApplyFailed, Applies, Ends, ReportFailure, SwitchOff, Remember
<1>25. CASE Stop
  BY <1>25 DEF Stop, SwitchOff
<1>26. CASE Launch
  <2>1. marker # NoMarker => marker = [enabled |-> marker.enabled, adopts |-> marker.adopts]
    BY DEF Markers
  <2>2. CASE marker = NoMarker
    <3>1. login' = FALSE /\ enabled' = FALSE
      BY <1>26, <2>2 DEF Launch
    <3> QED
      BY <1>26, <2>2, <3>1 DEF Launch
  <2>3. CASE marker # NoMarker
    <3>1. login' = TRUE /\ enabled' = marker.enabled /\ adopts' = marker.adopts /\ marker' = marker
      BY <1>26, <2>3 DEF Launch, Markers
    <3>2. marker' = [enabled |-> enabled', adopts |-> adopts']
      BY <2>1, <2>3, <3>1
    <3>3. periodic' = enabled' /\ pending' = enabled' /\ quiet' = quiet /\ ~quiet
      BY <1>26 DEF Launch
    <3> QED
      BY <1>26, <3>1, <3>2, <3>3 DEF Launch
  <2> QED
    BY <2>2, <2>3
<1> QED
  BY <1>1, <1>2, <1>3, <1>4, <1>5, <1>6, <1>7, <1>8, <1>9, <1>10, <1>11, <1>12, <1>13,
     <1>14, <1>15, <1>16, <1>17, <1>18, <1>19, <1>20, <1>21, <1>22, <1>23, <1>24,
     <1>25, <1>26
  DEF Next, Browser, Timers, Reader, Forge, Worker, Finished, MovePage, EditTabs, Land, ChangeTheme, vars

-----------------------------------------------------------------------------
(* Who may publish                                                         *)

\* Whoever is to publish has joined: the account, the marker a restart reads it
\* from, and the pass that took it from the account; and only a pass that
\* publishes ends settled, which is what clears m_adoptsRemote.
AdoptionInv ==
  /\ login /\ ~adopts => joined
  /\ marker # NoMarker => marker.adopts \/ joined
  /\ AdoptBeforePublish
  /\ Syncing /\ pass.outcome = "settled" => ~pass.adopt

\* No handler makes a machine publish that has not joined the repository.
LEMMA AdoptionStep == Typed /\ SwitchInv /\ AdoptionInv /\ [Next]_vars => AdoptionInv'
<1> SUFFICES ASSUME Typed /\ SwitchInv /\ AdoptionInv, [Next]_vars PROVE AdoptionInv'
  OBVIOUS
<1> USE DEF AdoptionInv, AdoptBeforePublish, Syncing, SwitchInv
<1>1. CASE UNCHANGED <<login, adopts, marker, joined, pass>>
  BY <1>1
<1>2. CASE QuietFires
  BY <1>2 DEF QuietFires, SyncNow, BeginPass
<1>3. CASE PeriodicFires
  BY <1>3 DEF PeriodicFires, SyncNow, BeginPass
<1>4. CASE StartingFires
  BY <1>4 DEF StartingFires, SyncNow, BeginPass
<1>5. CASE PressSyncNow
  BY <1>5 DEF PressSyncNow, SyncNow, BeginPass
<1>6. CASE Pause
  BY <1>6 DEF Pause, SwitchOff, Remember
<1>7. CASE Resume
  BY <1>7 DEF Resume, Remember, BeginPass
<1>8. CASE DisconnectNow
  BY <1>8 DEF DisconnectNow, SwitchOff, Forget
<1>9. ASSUME NEW created \in BOOLEAN, ConnectionReady(created) PROVE AdoptionInv'
  <2>1. CASE created = TRUE
    BY <1>9, <2>1 DEF ConnectionReady, Remember, BeginPass
  <2>2. CASE created = FALSE
    <3>1. ~Syncing
      BY <1>9 DEF ConnectionReady
    <3>2. (~created) = TRUE
      BY <2>2
    <3>3. adopts' = TRUE /\ marker'.adopts = TRUE
      BY <1>9, <3>2 DEF ConnectionReady, Remember
    <3>4. BeginPass(TRUE)
      BY <1>9, <3>1, <3>2 DEF ConnectionReady
    <3>5. pass'.adopt = TRUE /\ pass'.outcome = "failed"
      BY <3>4 DEF BeginPass
    <3> QED
      BY <3>3, <3>5
  <2> QED
    BY <2>1, <2>2
<1>10. CASE WorkerCaptures
  BY <1>10 DEF WorkerCaptures
<1>11. CASE WorkerFails
  BY <1>11 DEF WorkerFails
<1>12. CASE WorkerSucceeds
  BY <1>12 DEF WorkerSucceeds
<1>13. CASE FinishDisconnecting
  BY <1>13 DEF FinishDisconnecting, Ends, Forget
<1>14. CASE FinishFailed
  BY <1>14 DEF FinishFailed, Ends, ReportFailure, SwitchOff, Remember
<1>15. CASE FinishPaused
  BY <1>15 DEF FinishPaused, Ends
<1>16. CASE FinishDeferred
  BY <1>16 DEF FinishDeferred, Answered, Ends, Deferred, Remember
<1>17. CASE FinishSettled
  BY <1>17 DEF FinishSettled, Answered, Ends, Remember
<1>18. CASE FinishStale
  BY <1>18 DEF FinishStale, Answered, Ends, Deferred, Remember
<1>19. CASE FinishApplied
  BY <1>19 DEF FinishApplied, Applies, Ends, Remember
<1>20. CASE FinishApplyFailed
  <2>1. login /\ UNCHANGED <<login, adopts, joined>> /\ pass' = NoPass
    BY <1>20 DEF FinishApplyFailed, Applies, Ends
  <2>2. UNCHANGED marker \/ marker' = [enabled |-> FALSE, adopts |-> adopts]
    BY <1>20 DEF FinishApplyFailed, ReportFailure, Remember
  <2> QED
    BY <2>1, <2>2
<1>21. CASE Stop
  BY <1>21 DEF Stop, SwitchOff
<1>22. CASE Launch
  BY <1>22 DEF Launch
<1> QED
  BY <1>1, <1>2, <1>3, <1>4, <1>5, <1>6, <1>7, <1>8, <1>9, <1>10, <1>11, <1>12, <1>13,
     <1>14, <1>15, <1>16, <1>17, <1>18, <1>19, <1>20, <1>21, <1>22
  DEF Next, Browser, Timers, Reader, Forge, Worker, Finished, MovePage, EditTabs, Land, ChangeTheme, Check, DisconnectLater, Connect, ConnectionFails, vars

-----------------------------------------------------------------------------
(* Versions of the page                                                    *)

\* The fingerprints lag the store and the store lags the page; and a pass whose
\* generation still is the current one has captured all the fingerprints saw.
VersionInv ==
  /\ seen <= stored /\ stored <= page
  /\ Syncing => pass.generation <= generation
  /\ Syncing /\ pass.generation = generation
       /\ (pass.at = "captured" \/ pass.outcome \in {"settled", "ahead"})
     => seen <= pass.page

\* Only a pass that has captured what the fingerprints saw carries their generation.
LEMMA VersionStep == Typed /\ SwitchInv /\ VersionInv /\ [Next]_vars => VersionInv'
<1> SUFFICES ASSUME Typed /\ SwitchInv /\ VersionInv, [Next]_vars PROVE VersionInv'
  OBVIOUS
<1> USE DEF VersionInv, Syncing, Typed, DataTyped
<1>1. CASE UNCHANGED <<page, stored, seen, generation, pass>>
  BY <1>1
<1>2. CASE MovePage
  BY <1>2 DEF MovePage
<1>3. CASE EditTabs
  BY <1>3 DEF EditTabs
<1>4. CASE Land
  BY <1>4 DEF Land
<1>5. CASE Check
  <2>1. CASE stored = seen
    BY <1>5, <2>1 DEF Check
  <2>2. CASE stored # seen
    <3>1. seen' = stored /\ generation' = generation + 1 /\ UNCHANGED <<pass, stored, page>>
      BY <1>5, <2>2 DEF Check
    <3> QED
      BY <3>1, PassIsRecord
  <2> QED
    BY <2>1, <2>2
<1>6. CASE QuietFires
  BY <1>6 DEF QuietFires, SyncNow, BeginPass
<1>7. CASE PeriodicFires
  BY <1>7 DEF PeriodicFires, SyncNow, BeginPass
<1>8. CASE StartingFires
  BY <1>8 DEF StartingFires, SyncNow, BeginPass
<1>9. CASE PressSyncNow
  BY <1>9 DEF PressSyncNow, SyncNow, BeginPass
<1>10. CASE Resume
  BY <1>10 DEF Resume, Remember, BeginPass
<1>11. ASSUME NEW created \in BOOLEAN, ConnectionReady(created) PROVE VersionInv'
  BY <1>11 DEF ConnectionReady, Remember, BeginPass
<1>12. CASE WorkerCaptures
  BY <1>12 DEF WorkerCaptures
<1>13. CASE WorkerFails
  BY <1>13 DEF WorkerFails
<1>14. CASE WorkerSucceeds
  BY <1>14 DEF WorkerSucceeds
<1>15. CASE FinishDisconnecting
  BY <1>15 DEF FinishDisconnecting, Ends, Forget
<1>16. CASE FinishFailed
  BY <1>16 DEF FinishFailed, Ends, ReportFailure, SwitchOff, Remember
<1>17. CASE FinishPaused
  BY <1>17 DEF FinishPaused, Ends
<1>18. CASE FinishDeferred
  BY <1>18 DEF FinishDeferred, Answered, Ends, Deferred, Remember
<1>19. CASE FinishSettled
  BY <1>19 DEF FinishSettled, Answered, Ends, Remember
<1>20. CASE FinishStale
  BY <1>20 DEF FinishStale, Answered, Ends, Deferred, Remember
<1>21. CASE FinishApplied
  BY <1>21, PassIsRecord DEF FinishApplied, Applies, Ends
<1>22. CASE FinishApplyFailed
  BY <1>22 DEF FinishApplyFailed, Applies, Ends, ReportFailure, SwitchOff, Remember
<1>23. CASE Stop
  BY <1>23 DEF Stop, SwitchOff
<1> QED
  BY <1>1, <1>2, <1>3, <1>4, <1>5, <1>6, <1>7, <1>8, <1>9, <1>10, <1>11, <1>12, <1>13,
     <1>14, <1>15, <1>16, <1>17, <1>18, <1>19, <1>20, <1>21, <1>22, <1>23
  DEF Next, Browser, Timers, Reader, Forge, Worker, Finished, ChangeTheme, Pause, DisconnectLater, DisconnectNow, Connect, ConnectionFails, Launch, vars

-----------------------------------------------------------------------------
(* What waits to sync                                                      *)

\* A change not yet in the repository is pending, also while a pass runs, and so
\* is one that came after the pass started; a settled pass has published what
\* it captured.
PendingInv ==
  /\ up /\ enabled /\ seen > synced => pending
  /\ Syncing /\ enabled /\ generation # pass.generation => pending
  /\ Syncing /\ pass.at = "started" => pass.outcome = "failed"
  /\ Syncing /\ pass.outcome = "settled" => synced = pass.page

\* No result of a pass takes a change for synced that came after its capture.
LEMMA PendingStep == Typed /\ SwitchInv /\ AdoptionInv /\ VersionInv /\ PendingInv /\ [Next]_vars => PendingInv'
<1> SUFFICES ASSUME Typed /\ SwitchInv /\ AdoptionInv /\ VersionInv /\ PendingInv, [Next]_vars PROVE PendingInv'
  OBVIOUS
<1> USE DEF PendingInv, Syncing, Typed, DataTyped
<1>1. CASE UNCHANGED <<up, enabled, pending, seen, synced, generation, pass>>
  BY <1>1
<1>2. CASE Check
  BY <1>2 DEF Check
<1>3. CASE QuietFires
  BY <1>3 DEF QuietFires, SyncNow, BeginPass
<1>4. CASE PeriodicFires
  BY <1>4 DEF PeriodicFires, SyncNow, BeginPass
<1>5. CASE StartingFires
  BY <1>5 DEF StartingFires, SyncNow, BeginPass
<1>6. CASE PressSyncNow
  BY <1>6 DEF PressSyncNow, SyncNow, BeginPass
<1>7. CASE Pause
  BY <1>7 DEF Pause, SwitchOff, Remember
<1>8. CASE Resume
  BY <1>8 DEF Resume, Remember, BeginPass
<1>9. CASE DisconnectLater
  BY <1>9 DEF DisconnectLater, SwitchOff
<1>10. CASE DisconnectNow
  BY <1>10 DEF DisconnectNow, SwitchOff, Forget
<1>11. ASSUME NEW created \in BOOLEAN, ConnectionReady(created) PROVE PendingInv'
  <2>1. ~Syncing
    BY <1>11 DEF ConnectionReady, SwitchInv
  <2>2. pending' /\ UNCHANGED generation
    BY <1>11 DEF ConnectionReady
  <2>3. pass'.generation = generation /\ pass'.outcome = "failed"
    BY <1>11, <2>1 DEF ConnectionReady, BeginPass
  <2> QED
    BY <2>2, <2>3
<1>12. CASE WorkerCaptures
  <2>1. pass \in Passes
    BY <1>12, PassIsRecord DEF WorkerCaptures
  <2>2. pass.outcome = "failed"
    BY <1>12 DEF WorkerCaptures
  <2> QED
    BY <1>12, <2>1, <2>2 DEF WorkerCaptures, Passes
<1>13. CASE WorkerFails
  BY <1>13 DEF WorkerFails
<1>14. CASE WorkerSucceeds
  <2>1. pass \in Passes /\ pass.generation \in Nat /\ pass.page \in Nat /\ pass.at = "captured"
    BY <1>14, PassIsRecord DEF WorkerSucceeds
  <2>2. UNCHANGED <<up, enabled, pending, seen, generation>>
    BY <1>14 DEF WorkerSucceeds
  <2>3. /\ pass'.generation = pass.generation /\ pass'.page = pass.page /\ pass'.at = "ended"
        /\ pass'.outcome = "settled" => ~pass.adopt
        /\ synced' = IF pass.adopt THEN synced ELSE pass.page
    BY <1>14, <2>1 DEF WorkerSucceeds, Passes
  <2>4. Syncing /\ (generation = pass.generation => seen <= pass.page)
    BY <1>14, <2>1 DEF WorkerSucceeds, VersionInv
  <2>5. up /\ enabled /\ seen > synced' => pending
    <3>1. CASE synced' = synced
      BY <3>1
    <3>2. CASE synced' = pass.page
      BY <2>1, <2>4, <3>2
    <3> QED
      BY <2>3, <3>1, <3>2
  <2> QED
    BY <2>2, <2>3, <2>4, <2>5
<1>15. CASE FinishDisconnecting
  BY <1>15 DEF FinishDisconnecting, Ends, Forget
<1>16. CASE FinishFailed
  BY <1>16 DEF FinishFailed, Ends, ReportFailure, SwitchOff, Remember
<1>17. CASE FinishPaused
  BY <1>17 DEF FinishPaused, Ends
<1>18. CASE FinishDeferred
  BY <1>18 DEF FinishDeferred, Answered, Ends, Deferred, Remember
<1>19. CASE FinishSettled
  <2>1. /\ Syncing /\ pass.outcome = "settled" /\ pass.generation = generation
        /\ pass' = NoPass /\ UNCHANGED <<seen, synced>>
    BY <1>19 DEF FinishSettled, Answered, Ends
  <2>2. seen <= pass.page /\ synced = pass.page
    BY <2>1 DEF VersionInv
  <2> QED
    BY <2>1, <2>2
<1>20. CASE FinishStale
  BY <1>20 DEF FinishStale, Answered, Ends, Deferred, Remember
<1>21. CASE FinishApplied
  BY <1>21, PassIsRecord DEF FinishApplied, Applies, Ends
<1>22. CASE FinishApplyFailed
  BY <1>22 DEF FinishApplyFailed, Applies, Ends, ReportFailure, SwitchOff, Remember
<1>23. CASE Stop
  BY <1>23 DEF Stop, SwitchOff
<1>24. CASE Launch
  BY <1>24 DEF Launch
<1> QED
  BY <1>1, <1>2, <1>3, <1>4, <1>5, <1>6, <1>7, <1>8, <1>9, <1>10, <1>11, <1>12, <1>13,
     <1>14, <1>15, <1>16, <1>17, <1>18, <1>19, <1>20, <1>21, <1>22, <1>23, <1>24
  DEF Next, Browser, Timers, Reader, Forge, Worker, Finished, MovePage, EditTabs, Land, ChangeTheme, Connect, ConnectionFails, vars

-----------------------------------------------------------------------------
(* The properties                                                          *)

\* The inductive invariant, layer by layer.
IInv == Typed /\ SwitchInv /\ AdoptionInv /\ VersionInv /\ PendingInv

\* The inductive invariant holds before Sync is connected.
LEMMA InitIInv == Init => IInv
<1> SUFFICES ASSUME Init PROVE IInv
  OBVIOUS
<1>1. FlagsTyped
  BY DEF Init, FlagsTyped
<1>2. DataTyped
  BY DEF Init, DataTyped
<1>3. SwitchInv
  BY DEF Init, SwitchInv, TimersFollowSwitch, MarkerIsCurrent, Syncing
<1>4. AdoptionInv
  BY DEF Init, AdoptionInv, AdoptBeforePublish, Syncing
<1>5. VersionInv
  BY DEF Init, VersionInv, Syncing
<1>6. PendingInv
  BY DEF Init, PendingInv, Syncing
<1> QED
  BY <1>1, <1>2, <1>3, <1>4, <1>5, <1>6 DEF IInv, Typed

\* The inductive invariant holds of every reachable state, for any bounds.
LEMMA Invariance == Spec => []IInv
<1>1. IInv /\ [Next]_vars => IInv'
  <2>1. Typed /\ [Next]_vars => Typed'
    BY FlagsStep, DataStep DEF Typed
  <2> QED
    BY <2>1, SwitchStep, AdoptionStep, VersionStep, PendingStep DEF IInv
<1> QED
  BY <1>1, InitIInv, PTL DEF Spec

\* No timer runs on a machine that is paused or disconnected, and the periodic
\* one runs on every machine that is on, whatever handler set the switch last.
THEOREM TimersFollow == Spec => []TimersFollowSwitch
<1>1. IInv => TimersFollowSwitch
  BY DEF IInv, SwitchInv
<1> QED
  BY <1>1, Invariance, PTL

\* sync.json holds what the running controller would do, at every moment but
\* while a Disconnect waits for its pass.
THEOREM MarkerStaysCurrent == Spec => []MarkerIsCurrent
<1>1. IInv => MarkerIsCurrent
  BY DEF IInv, SwitchInv
<1> QED
  BY <1>1, Invariance, PTL

\* A pass that publishes belongs to a machine that created the repository or
\* has adopted it, over any number of failures, pauses and restarts.
THEOREM AdoptsFirst == Spec => []AdoptBeforePublish
<1>1. IInv => AdoptBeforePublish
  BY DEF IInv, AdoptionInv
<1> QED
  BY <1>1, Invariance, PTL

\* A noticed change that no pass has published and none is about to is pending.
THEOREM NoticedStaysPending == Spec => []NoticedEditIsPending
<1>1. IInv => NoticedEditIsPending
  BY DEF IInv, PendingInv, NoticedEditIsPending
<1> QED
  BY <1>1, Invariance, PTL

\* The only handler that writes the page from a pass is FinishApplied, and what
\* its pass captured is at least what the fingerprints, the store and the page
\* are known to hold then: no handler takes the page back.
THEOREM EditsSurvive == Spec => PageEditSurvives
<1>1. IInv /\ [Next]_vars => [up /\ up' => page' >= page]_vars
  <2> SUFFICES ASSUME IInv, Next PROVE up /\ up' => page' >= page
    OBVIOUS
  <2> USE DEF IInv, Typed, DataTyped
  <2>1. CASE MovePage \/ EditTabs
    BY <2>1 DEF MovePage, EditTabs
  <2>2. CASE FinishApplied
    <3>1. page = seen /\ page' = pass.page /\ seen <= pass.page
      BY <2>2 DEF FinishApplied, Applies, Ends, VersionInv
    <3> QED
      BY <3>1
  <2>3. CASE Stop
    BY <2>3 DEF Stop
  <2>4. CASE page' = page
    BY <2>4
  <2> QED
    BY <2>1, <2>2, <2>3, <2>4
    DEF Next, Browser, Timers, Reader, Forge, Worker, Finished, Land, ChangeTheme, Check, QuietFires,
        PeriodicFires, StartingFires, PressSyncNow, Pause, Resume, DisconnectLater, DisconnectNow,
        Connect, ConnectionReady, ConnectionFails, WorkerCaptures, WorkerFails, WorkerSucceeds,
        FinishDisconnecting, FinishFailed, FinishPaused, FinishDeferred, FinishSettled, FinishStale,
        FinishApplyFailed, Launch, Answered, Applies, Ends
<1> QED
  BY <1>1, Invariance, PTL DEF Spec, PageEditSurvives

=============================================================================
