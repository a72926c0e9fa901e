--------------------------- MODULE SyncController ---------------------------
(***************************************************************************)
(* One machine's switch for Sync and the browser state a pass meets:       *)
(* modules/sync/SyncController.cpp on the shell thread, composed with      *)
(* LocalSyncState.cpp (what counts as a change), the parts of              *)
(* SyncAccount.cpp that outlive a run (the marker sync.json) and the       *)
(* worker thread of one pass (SyncModule::reconcile).                      *)
(*                                                                         *)
(* Every handler of the shell thread is one action.  The reader acts at    *)
(* any point, with the buttons SettingsPage.qml shows in that state.  Of   *)
(* the local state the model keeps version numbers: page is what the tabs  *)
(* of the window hold, stored is what the session store holds, seen is     *)
(* what LocalSyncState last took its fingerprints of.  theme is the        *)
(* version of a setting Sync carries and the fingerprints leave out.       *)
(***************************************************************************)
EXTENDS Naturals

CONSTANTS
  NoPass,           \* no pass runs (m_syncing is false)
  NoMarker,         \* there is no sync.json
  PatientReader,    \* the reader never presses Resume while Disconnect waits
  MaxEdits,         \* bound: changes of the page
  MaxThemes,        \* bound: changes of the setting
  MaxConnects,      \* bound: connections begun
  MaxStops          \* bound: times the browser goes down

Outcomes == {"settled", "ahead", "failed", "rejected"}
Passes == [generation : Nat, adopt : BOOLEAN, page : Nat, theme : Nat,
           at : {"started", "captured", "ended"}, outcome : Outcomes]
Markers == [enabled : BOOLEAN, adopts : BOOLEAN]

ASSUME ControllerAssumption ==
  /\ NoPass \notin Passes
  /\ NoMarker \notin Markers
  /\ PatientReader \in BOOLEAN
  /\ {MaxEdits, MaxThemes, MaxConnects, MaxStops} \subseteq Nat

VARIABLES
  up,                \* the browser runs, its Sync module loaded
  \* SyncAccount
  login,             \* connected: a login and a repository are known
  connecting,
  adopts,            \* m_adoptsRemote
  marker,            \* sync.json
  \* SyncController
  enabled, pending, disconnectPending,
  quiet,             \* m_quietReconcile is running (30 s, single shot)
  periodic,          \* m_periodicReconcile is running (5 min)
  starting,          \* the constructor's zero timer has not fired yet
  pass,              \* the pass on the worker thread, until its result is taken
  \* the local state
  page, stored, seen,
  unlanded,          \* a coalesced write of the tabs waits (400 ms)
  checkDue,          \* m_projectionCheck is running (0 ms)
  generation, theme,
  \* what the repository holds of this machine (for the properties)
  synced,            \* the version of the page it holds
  joined,            \* this machine created the repository or has adopted it
  \* bounded surroundings
  connects, stops

account == <<login, connecting, adopts, marker>>
switch == <<enabled, pending, disconnectPending, quiet, periodic, starting>>
local == <<page, stored, seen, unlanded, generation, theme>>
shared == <<synced, joined>>
bounds == <<connects, stops>>
vars == <<up, account, switch, pass, local, checkDue, shared, bounds>>

TypeOK ==
  /\ {up, login, connecting, adopts, enabled, pending, disconnectPending} \subseteq BOOLEAN
  /\ {quiet, periodic, starting, unlanded, checkDue, joined} \subseteq BOOLEAN
  /\ marker \in Markers \cup {NoMarker}
  /\ pass \in Passes \cup {NoPass}
  /\ {page, stored, seen, generation, theme, synced, connects, stops} \subseteq Nat

Init ==
  /\ up = TRUE
  /\ login = FALSE /\ connecting = FALSE /\ adopts = FALSE /\ marker = NoMarker
  /\ enabled = FALSE /\ pending = FALSE /\ disconnectPending = FALSE
  /\ quiet = FALSE /\ periodic = FALSE /\ starting = FALSE
  /\ pass = NoPass
  /\ page = 0 /\ stored = 0 /\ seen = 0 /\ unlanded = FALSE /\ checkDue = FALSE
  /\ generation = 0 /\ theme = 0
  /\ synced = 0 /\ joined = FALSE
  /\ connects = 0 /\ stops = 0

Syncing == pass # NoPass

-----------------------------------------------------------------------------
(* Parts of the handlers                                                   *)

\* Bug variant of Remember: the marker keeps the switch only.
RememberSwitch(on, adopting) == marker' = [enabled |-> on] /\ checkDue' = TRUE

\* SyncAccount::remember, with the values the handler leaves.  sync.json lies in
\* the directory LocalSyncState watches: writing it makes a check due.
Remember(on, adopting) ==
  /\ marker' = [enabled |-> on, adopts |-> adopting]
  /\ checkDue' = TRUE

\* SyncController::syncNow past its guard: a checkpoint, then the worker.
BeginPass(adopting) ==
  pass' = [generation |-> generation, adopt |-> adopting, page |-> 0, theme |-> 0,
           at |-> "started", outcome |-> "failed"]

\* SyncController::syncNow: not while it is off, disconnected or syncing.
SyncNow ==
  IF enabled /\ login /\ ~Syncing THEN BeginPass(adopts) ELSE UNCHANGED pass

\* Bug variant of SwitchOff: the quiet timer is left running.
SwitchOffPeriodic ==
  /\ enabled' = FALSE /\ pending' = FALSE
  /\ periodic' = FALSE /\ UNCHANGED quiet

\* m_enabled, m_pending and both timers go off.
SwitchOff ==
  /\ enabled' = FALSE /\ pending' = FALSE
  /\ quiet' = FALSE /\ periodic' = FALSE

\* SyncController::reportFailure: a rejected recovery key pauses Sync, any
\* other failure waits for the next pass.
ReportFailure(outcome) ==
  IF outcome = "rejected"
  THEN SwitchOff /\ Remember(FALSE, adopts)
  ELSE pending' = (pending \/ enabled) /\ UNCHANGED <<enabled, quiet, periodic, marker, checkDue>>

\* Bug variant of Forget: sync.json stays on disk.
ForgetInMemory ==
  /\ login' = FALSE /\ adopts' = FALSE /\ joined' = FALSE
  /\ checkDue' = TRUE /\ UNCHANGED marker
  /\ disconnectPending' = FALSE

\* SyncAccount::forget.  The switch is not touched.
Forget ==
  /\ login' = FALSE /\ adopts' = FALSE /\ joined' = FALSE
  /\ marker' = NoMarker /\ checkDue' = TRUE
  /\ disconnectPending' = FALSE

-----------------------------------------------------------------------------
(* The browser                                                             *)

\* A page reports a new address: the tab changes at once, its write waits.
MovePage ==
  /\ up /\ page < MaxEdits
  /\ page' = page + 1
  /\ unlanded' = TRUE /\ checkDue' = TRUE
  /\ UNCHANGED <<up, account, switch, pass, stored, seen, generation, theme, shared, bounds>>

\* The reader opens, moves or closes a tab: every tab is written at once.
EditTabs ==
  /\ up /\ page < MaxEdits
  /\ page' = page + 1 /\ stored' = page + 1
  /\ unlanded' = FALSE /\ checkDue' = TRUE
  /\ UNCHANGED <<up, account, switch, pass, seen, generation, theme, shared, bounds>>

\* The coalesced write lands; nothing looks at the store for it.
Land ==
  /\ unlanded
  /\ stored' = page /\ unlanded' = FALSE
  /\ UNCHANGED <<up, account, switch, pass, page, seen, checkDue, generation, theme, shared,
                 bounds>>

\* A setting Sync carries and LocalSyncState::selection leaves out.
ChangeTheme ==
  /\ up /\ theme < MaxThemes
  /\ theme' = theme + 1 /\ checkDue' = TRUE
  /\ UNCHANGED <<up, account, switch, pass, page, stored, seen, unlanded, generation, shared,
                 bounds>>

\* LocalSyncState::checkProjection, and markPending where the store changed.
Check ==
  /\ checkDue
  /\ checkDue' = FALSE
  /\ IF stored = seen
     THEN UNCHANGED <<seen, generation, pending, quiet>>
     ELSE /\ seen' = stored /\ generation' = generation + 1
          /\ pending' = (pending \/ enabled)
          /\ quiet' = (quiet \/ (enabled /\ ~Syncing))
  /\ UNCHANGED <<up, account, enabled, disconnectPending, periodic, starting, pass, page,
                 stored, unlanded, theme, shared, bounds>>

-----------------------------------------------------------------------------
(* Timers                                                                  *)

QuietFires ==
  /\ quiet
  /\ quiet' = FALSE
  /\ SyncNow
  /\ UNCHANGED <<up, account, enabled, pending, disconnectPending, periodic, starting, local, checkDue,
                 shared, bounds>>

PeriodicFires ==
  /\ periodic
  /\ SyncNow
  /\ UNCHANGED <<up, account, switch, local, checkDue, shared, bounds>>

StartingFires ==
  /\ starting
  /\ starting' = FALSE
  /\ SyncNow
  /\ UNCHANGED <<up, account, enabled, pending, disconnectPending, quiet, periodic, local, checkDue,
                 shared, bounds>>

-----------------------------------------------------------------------------
(* The reader's buttons                                                    *)

PressSyncNow ==
  /\ up /\ login
  /\ SyncNow
  /\ UNCHANGED <<up, account, switch, local, checkDue, shared, bounds>>

Pause ==
  /\ up /\ login /\ enabled
  /\ SwitchOff
  /\ Remember(FALSE, adopts)
  /\ UNCHANGED <<up, login, connecting, adopts, disconnectPending, starting, pass, local, shared,
                 bounds>>

\* The button is there as long as a login is, so also while Disconnect waits.
Resume ==
  /\ up /\ login /\ ~enabled
  /\ PatientReader => ~disconnectPending
  /\ enabled' = TRUE /\ pending' = TRUE /\ periodic' = TRUE
  /\ Remember(TRUE, adopts)
  /\ IF Syncing THEN UNCHANGED pass ELSE BeginPass(adopts)
  /\ UNCHANGED <<up, login, connecting, adopts, disconnectPending, quiet, starting, local, shared,
                 bounds>>

\* Disconnect waits for the pass that runs, which it asks to stop.
DisconnectLater ==
  /\ up /\ login /\ Syncing
  /\ SwitchOff
  /\ disconnectPending' = TRUE
  /\ UNCHANGED <<up, account, starting, pass, local, checkDue, shared, bounds>>

DisconnectNow ==
  /\ up /\ login /\ ~Syncing
  /\ SwitchOff
  /\ Forget
  /\ UNCHANGED <<up, connecting, starting, pass, local, synced, bounds>>

Connect ==
  /\ up /\ ~login /\ ~enabled /\ ~connecting
  /\ connects < MaxConnects
  /\ connects' = connects + 1
  /\ connecting' = TRUE
  /\ UNCHANGED <<up, login, adopts, marker, switch, pass, local, checkDue, shared, stops>>

\* connectionReady: a repository that was not created here is adopted first.
ConnectionReady(created) ==
  /\ connecting
  /\ connecting' = FALSE
  /\ login' = TRUE /\ adopts' = ~created
  /\ joined' = created /\ synced' = 0
  /\ enabled' = TRUE /\ pending' = TRUE /\ periodic' = TRUE
  /\ Remember(TRUE, ~created)
  /\ IF Syncing THEN UNCHANGED pass ELSE BeginPass(~created)
  /\ UNCHANGED <<up, disconnectPending, quiet, starting, local, bounds>>

ConnectionFails ==
  /\ connecting
  /\ connecting' = FALSE
  /\ UNCHANGED <<up, login, adopts, marker, switch, pass, local, checkDue, shared, bounds>>

-----------------------------------------------------------------------------
(* The worker thread                                                       *)

\* The worker reads the store and the settings through connections of its own.
WorkerCaptures ==
  /\ Syncing /\ pass.at = "started"
  /\ pass' = [pass EXCEPT !.at = "captured", !.page = stored, !.theme = theme]
  /\ UNCHANGED <<up, account, switch, local, checkDue, shared, bounds>>

\* The session, the checkout or a git command failed, or a Pause or Disconnect
\* was noticed at one of the points the pass looks for one.
WorkerFails ==
  /\ Syncing /\ pass.at # "ended"
  /\ \E outcome \in {"failed", "rejected"} :
       pass' = [pass EXCEPT !.at = "ended", !.outcome = outcome]
  /\ UNCHANGED <<up, account, switch, local, checkDue, shared, bounds>>

\* awaitsLocalApply holds of an adopting pass, and of any that merged something.
WorkerSucceeds ==
  /\ Syncing /\ pass.at = "captured"
  /\ \E outcome \in {"settled", "ahead"} :
       /\ pass.adopt => outcome = "ahead"
       /\ pass' = [pass EXCEPT !.at = "ended", !.outcome = outcome]
  /\ synced' = IF pass.adopt THEN synced ELSE pass.page
  /\ UNCHANGED <<up, account, switch, local, checkDue, joined, bounds>>

-----------------------------------------------------------------------------
(* The result reaches the shell thread                                     *)

\* Bug variant of Ends: m_syncing is not cleared.
EndsSyncing == Syncing /\ pass.at = "ended" /\ UNCHANGED pass

\* m_reconcileWatcher's finished handler takes the result.
Ends ==
  /\ Syncing /\ pass.at = "ended"
  /\ pass' = NoPass

FinishDisconnecting ==
  /\ Ends
  /\ disconnectPending
  /\ Forget
  /\ UNCHANGED <<up, connecting, enabled, pending, quiet, periodic, starting, local, synced,
                 bounds>>

\* Bug variant of FinishFailed: the failure is looked at before the Disconnect.
FailedFirst ==
  /\ Ends
  /\ pass.outcome \in {"failed", "rejected"}
  /\ ReportFailure(pass.outcome)
  /\ UNCHANGED <<up, login, connecting, adopts, disconnectPending, starting, local, shared,
                 bounds>>

FinishFailed ==
  /\ Ends
  /\ ~disconnectPending
  /\ pass.outcome \in {"failed", "rejected"}
  /\ ReportFailure(pass.outcome)
  /\ UNCHANGED <<up, login, connecting, adopts, disconnectPending, starting, local, shared,
                 bounds>>

\* A pass that ended well in spite of a Pause changes nothing here.
FinishPaused ==
  /\ Ends
  /\ ~disconnectPending /\ ~enabled
  /\ pass.outcome \in {"settled", "ahead"}
  /\ UNCHANGED <<up, account, switch, local, checkDue, shared, bounds>>

Answered ==
  /\ Ends
  /\ ~disconnectPending /\ enabled
  /\ pass.outcome \in {"settled", "ahead"}
  /\ UNCHANGED <<up, login, connecting, enabled, disconnectPending, periodic, starting, bounds>>

\* Bug variants of Deferred: the result counts as the newer edit's, the remote as
\* adopted.
DeferredDone ==
  /\ pending' = FALSE /\ UNCHANGED <<quiet, adopts, shared>>
  /\ Remember(TRUE, adopts)

DeferredAdopted ==
  /\ pending' = TRUE /\ quiet' = TRUE
  /\ adopts' = FALSE /\ Remember(TRUE, FALSE)
  /\ UNCHANGED shared

\* The apply, or the answer itself, waits for a pass that has the newer edit.
Deferred ==
  /\ pending' = TRUE /\ quiet' = TRUE
  /\ Remember(TRUE, adopts)
  /\ UNCHANGED <<adopts, shared>>

FinishDeferred ==
  /\ Answered
  /\ generation # pass.generation
  /\ Deferred
  /\ UNCHANGED local

FinishSettled ==
  /\ Answered
  /\ generation = pass.generation
  /\ pass.outcome = "settled"
  /\ pending' = FALSE /\ adopts' = FALSE
  /\ Remember(TRUE, FALSE)
  /\ UNCHANGED <<quiet, local, shared>>

\* LocalSyncState::applyRemoteState up to its own check: the waiting write
\* lands and the store is looked at again, which may find a newer edit.
FinishStale ==
  /\ Answered
  /\ generation = pass.generation
  /\ pass.outcome = "ahead"
  /\ stored' = page /\ unlanded' = FALSE
  /\ page # seen
  /\ seen' = page /\ generation' = generation + 1
  /\ Deferred
  /\ UNCHANGED <<page, theme>>

\* Bug variant of Applies: no second look at the store before the apply.
AppliesUnchecked ==
  /\ Ends
  /\ ~disconnectPending /\ enabled
  /\ pass.outcome = "ahead"
  /\ generation = pass.generation
  /\ unlanded' = FALSE
  /\ UNCHANGED <<up, login, connecting, disconnectPending, starting, generation, bounds>>

\* The checkpoint still is what the store and the window hold.
Applies ==
  /\ Ends
  /\ ~disconnectPending /\ enabled
  /\ pass.outcome = "ahead"
  /\ generation = pass.generation
  /\ page = seen
  /\ unlanded' = FALSE
  /\ UNCHANGED <<up, login, connecting, disconnectPending, starting, generation, bounds>>

\* The checkout replaces what the store, the window and the settings held.
FinishApplied ==
  /\ Applies
  /\ page' = pass.page /\ stored' = pass.page /\ seen' = pass.page
  /\ theme' = pass.theme
  /\ synced' = pass.page
  /\ joined' = TRUE
  /\ adopts' = FALSE /\ pending' = FALSE
  /\ Remember(TRUE, FALSE)
  /\ UNCHANGED <<enabled, quiet, periodic>>

FinishApplyFailed ==
  /\ Applies
  /\ stored' = page
  /\ \E outcome \in {"failed", "rejected"} : ReportFailure(outcome)
  /\ UNCHANGED <<adopts, page, seen, theme, shared>>

-----------------------------------------------------------------------------
(* The browser goes down and comes back                                    *)

\* A quit lands the waiting write, a crash loses it; a pass goes with either.
Stop ==
  /\ up /\ stops < MaxStops
  /\ stops' = stops + 1
  /\ up' = FALSE
  /\ login' = FALSE /\ connecting' = FALSE /\ adopts' = FALSE
  /\ SwitchOff
  /\ disconnectPending' = FALSE /\ starting' = FALSE
  /\ pass' = NoPass
  /\ stored' \in {stored, page}
  /\ page' = stored' /\ seen' = stored'
  /\ unlanded' = FALSE /\ checkDue' = FALSE /\ generation' = 0
  /\ UNCHANGED <<marker, theme, shared, connects>>

\* The constructors: the marker says whether Sync was on.
Launch ==
  /\ ~up
  /\ up' = TRUE
  /\ login' = (marker # NoMarker)
  /\ adopts' = (marker # NoMarker /\ marker.adopts)
  /\ enabled' = (marker # NoMarker /\ marker.enabled)
  /\ pending' = enabled' /\ periodic' = enabled' /\ starting' = enabled'
  /\ UNCHANGED <<connecting, marker, disconnectPending, quiet, pass, local, checkDue, shared, bounds>>

-----------------------------------------------------------------------------

Browser == MovePage \/ EditTabs \/ Land \/ ChangeTheme \/ Check
Timers == QuietFires \/ PeriodicFires \/ StartingFires
Reader == PressSyncNow \/ Pause \/ Resume \/ DisconnectLater \/ DisconnectNow \/ Connect
Forge == ConnectionFails \/ \E created \in BOOLEAN : ConnectionReady(created)
Worker == WorkerCaptures \/ WorkerFails \/ WorkerSucceeds
Finished ==
  \/ FinishDisconnecting \/ FinishFailed \/ FinishPaused \/ FinishDeferred \/ FinishSettled
  \/ FinishStale \/ FinishApplied \/ FinishApplyFailed

Next == Browser \/ Timers \/ Reader \/ Forge \/ Worker \/ Finished \/ Stop \/ Launch

Spec == Init /\ [][Next]_vars

\* The event loop runs what is due and the worker ends (every git command of a
\* pass has a timeout).  The forge answers one of any number of tries.
Fairness ==
  /\ WF_vars(Land) /\ WF_vars(Check)
  /\ WF_vars(QuietFires) /\ WF_vars(StartingFires) /\ WF_vars(PeriodicFires)
  /\ WF_vars(Worker) /\ WF_vars(Finished)
  /\ SF_vars(WorkerCaptures) /\ SF_vars(WorkerSucceeds) /\ SF_vars(FinishApplied)

FairSpec == Spec /\ Fairness

-----------------------------------------------------------------------------
(* Safety                                                                  *)

\* The timers follow the switch: no timer of a paused or disconnected machine is
\* left running to contact the forge, and a machine that is on keeps its five
\* minutes, whichever of Pause, a rejected key, Resume, a connection, a result
\* or a restart set it last.
TimersFollowSwitch ==
  /\ periodic = enabled
  /\ quiet \/ pending => enabled

\* A change that was noticed and that the repository does not have yet is
\* waiting to sync, or a pass is under way: no result that comes in, pause,
\* resume or restart in between makes it look synced.
NoticedEditIsPending == up /\ enabled /\ ~Syncing /\ seen > synced => pending

\* A machine that joins a repository publishes nothing into it before it has
\* adopted what is there (the marker's initialRemoteRestore), however often the
\* adopting pass failed, was deferred, paused or cut short by a restart.
AdoptBeforePublish == Syncing /\ ~pass.adopt => joined

\* What a restart would read back is what this run would do: a paused machine
\* stays paused, and one that has not adopted the remote still will.
MarkerIsCurrent ==
  up /\ ~disconnectPending =>
    marker = IF login THEN [enabled |-> enabled, adopts |-> adopts] ELSE NoMarker

\* The second phase checks the generation, so "the completed worker cannot
\* overwrite a newer edit" (docs/architecture.md:77): while the browser runs, no
\* handler takes the page back behind what the reader last saw.
PageEditSurvives == [][up /\ up' => page' >= page]_vars

-----------------------------------------------------------------------------
(* Liveness                                                                *)

\* A noticed change reaches the repository, or Sync is switched off first.
NoticedEditIsPublished ==
  up /\ enabled /\ seen > synced ~> seen <= synced \/ ~enabled \/ ~up

\* Disconnect leaves no account behind, also where it had to wait for a pass.
DisconnectCompletes == disconnectPending ~> ~login

-----------------------------------------------------------------------------
(* What the code does not keep                                             *)

\* The same sentence of docs/architecture.md:77 for a setting that Sync carries.
ThemeEditSurvives ==
  [][up /\ up' /\ Syncing /\ ~pass.adopt => theme' >= theme]_vars

\* "Thirty seconds after your last change" (docs/sync-privacy.md:114): once every
\* write has landed and every check has run, a change the repository does not
\* have is waiting to sync.
LastChangeIsPending ==
  up /\ enabled /\ ~Syncing /\ ~unlanded /\ ~checkDue /\ stored > synced => pending

\* "every five minutes while Sync is on" (docs/sync-privacy.md:114).
EveryFiveMinutesWhileOn == up /\ enabled ~> Syncing \/ ~enabled \/ ~up

=============================================================================
