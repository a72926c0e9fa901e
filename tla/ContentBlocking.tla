--------------------------- MODULE ContentBlocking ---------------------------
(***************************************************************************)
(* Filter lists, the reader's own rules and the compiles that put them in  *)
(* force, as src/content-blocking/ContentBlocker.cpp runs them: a list is  *)
(* fetched on the network thread, checked on the refresh thread, stored on *)
(* the writer's thread and compiled on the refresh thread, while a change  *)
(* of the reader's compiles on a thread of its own.  Every result comes    *)
(* back to the interface thread through its event queue.                   *)
(***************************************************************************)
EXTENDS Integers, Sequences, FiniteSets

CONSTANTS
  List,        \* ids of filter lists
  Rules,       \* texts the reader's own rules may have
  Version,     \* contents a filter list may have
  Unusable,    \* those without usable rules
  Uncompiled,  \* reader's rules with which the library compiles nothing
  Seeded,      \* the lists subscribed to by default
  None,        \* no rules, nothing stored, a fetch that failed
  MaxAsks,     \* bound: changes and fetches asked for
  MaxStarts    \* bound: sessions

ASSUME BlockingAssumption ==
  /\ IsFiniteSet(List)
  /\ Unusable \subseteq Version
  /\ Uncompiled \subseteq Rules
  /\ Seeded \subseteq List
  /\ None \notin Rules \cup Version

VARIABLES
  config,        \* m_userRules, m_subscriptions and m_disabledSites
  status,        \* updateStatus of each list
  pending,       \* m_pendingCurrent
  dropped,       \* lists Sync took away while they were pending
  generation,    \* m_compileGeneration
  asked,         \* what the newest compile was asked for
  active,        \* m_activeCompilations
  rulesPending,  \* m_rulesPending: pages wait for the first rules
  runtime,       \* m_runtime: the matcher in force and the sites it spares
  lane,          \* m_compiler and m_refresher: the jobs of each, in order
  writer,        \* m_writer: the files to write, in order
  fetching,      \* the fetches under way of each list
  events,        \* what the threads have posted to the interface thread
  disk,          \* settings.json
  stored,        \* the list files
  asks,          \* changes and fetches asked for so far
  starts         \* sessions so far

memory == <<config, status, pending, dropped, generation, asked, active, rulesPending, runtime>>
threads == <<lane, writer, fetching, events>>
vars == <<memory, threads, disk, stored, asks, starts>>

\* The reader's rules, the lists subscribed to, those enabled, and whether
\* blocking is off for a site.
Configs ==
  {c \in [rules : Rules, known : SUBSET List, on : SUBSET List, off : BOOLEAN] :
     c.on \subseteq c.known}

Statuses == {"none", "updating", "validating", "compiling", "current", "failed"}

\* Statuses of a list that something is still to be done with.
Working == {"validating", "compiling"}

\* What a compile is asked for; what it makes names the list contents it read.
Request(c) == [rules |-> c.rules, on |-> c.on]
NoMatcher == [rules |-> None, on |-> {}, read |-> << >>]

Lanes == {"compiler", "refresher"}
Push(x, job) == lane' = [lane EXCEPT ![x] = Append(@, job)]

\* writeFile of settings.json: a newer save carries everything an older one
\* does, which the writer then skips (m_saveGeneration).
Skipping(queue) ==
  [i \in DOMAIN queue |-> IF queue[i].kind = "save" THEN [kind |-> "skipped"] ELSE queue[i]]
Saved(queue, c, st) ==
  Append(Skipping(queue), [kind |-> "save", config |-> c, status |-> st])

CompileJob(n, c) == [kind |-> "compile", generation |-> n, request |-> Request(c)]

\* recompileOn
Recompile(x, c) ==
  /\ generation' = generation + 1
  /\ asked' = Request(c)
  /\ Push(x, CompileJob(generation + 1, c))

\* recompile, for a change of the reader's or of Sync's, and n fetches with it
Changed(c, n) ==
  /\ asks + 1 + n <= MaxAsks
  /\ asks' = asks + 1 + n
  /\ active' = active + 1
  /\ Recompile("compiler", c)

-----------------------------------------------------------------------------
(* What the reader and the clock do                                        *)

\* A defect for a run to find: the rules are compiled and not saved.
SetUserRulesUnsaved(r) ==
  LET c == [config EXCEPT !.rules = r]
  IN  /\ r # config.rules
      /\ config' = c
      /\ Changed(c, 0)
      /\ UNCHANGED <<status, pending, dropped, rulesPending, runtime, writer, fetching, events, disk,
                     stored, starts>>

\* setUserRules
SetUserRules(r) ==
  LET c == [config EXCEPT !.rules = r]
  IN  /\ r # config.rules
      /\ config' = c
      /\ writer' = Saved(writer, c, status)
      /\ Changed(c, 0)
      /\ UNCHANGED <<status, pending, dropped, rulesPending, runtime, fetching, events, disk, stored,
                     starts>>

\* A defect for a run to find: a list switched on waits for its next fetch.
SetEnabledLater(l, enabled) ==
  LET c == [config EXCEPT !.on = IF enabled THEN @ \cup {l} ELSE @ \ {l}]
  IN  /\ l \in config.known
      /\ (l \in config.on) # enabled
      /\ config' = c
      /\ writer' = Saved(writer, c, status)
      /\ asks < MaxAsks
      /\ asks' = asks + 1
      /\ UNCHANGED <<status, pending, dropped, generation, asked, active, rulesPending, runtime, lane,
                     fetching, events, disk, stored, starts>>

\* setSubscriptionEnabled
SetEnabled(l, enabled) ==
  LET c == [config EXCEPT !.on = IF enabled THEN @ \cup {l} ELSE @ \ {l}]
  IN  /\ l \in config.known
      /\ (l \in config.on) # enabled
      /\ config' = c
      /\ writer' = Saved(writer, c, status)
      /\ Changed(c, 0)
      /\ UNCHANGED <<status, pending, dropped, rulesPending, runtime, fetching, events, disk, stored,
                     starts>>

\* setSiteEnabled: the sites spared change at once, and no compile is needed.
SetSite(off) ==
  LET c == [config EXCEPT !.off = off]
  IN  /\ asks < MaxAsks
      /\ asks' = asks + 1
      /\ config' = c
      /\ runtime' = [runtime EXCEPT !.off = off]
      /\ writer' = Saved(writer, c, status)
      /\ UNCHANGED <<status, pending, dropped, generation, asked, active, rulesPending, lane, fetching,
                     events, disk, stored, starts>>

\* The fetches an update of the lists ls starts.
Fetch(ls) == fetching' = [l \in List |-> fetching[l] + (IF l \in ls THEN 1 ELSE 0)]
Updating(st, ls) == [l \in List |-> IF l \in ls THEN "updating" ELSE st[l]]

\* updateSubscription, asked for or because the list is a day old
Update(l) ==
  /\ l \in config.on
  /\ asks < MaxAsks
  /\ asks' = asks + 1
  /\ Fetch({l})
  /\ status' = Updating(status, {l})
  /\ UNCHANGED <<config, pending, dropped, generation, asked, active, rulesPending, runtime, lane, writer,
                 events, disk, stored, starts>>

\* addSubscription, subscribeKnownList: fetched, and compiled once it is stored.
Subscribe(l) ==
  LET c == [config EXCEPT !.known = @ \cup {l}, !.on = @ \cup {l}]
  IN  /\ l \notin config.known
      /\ asks < MaxAsks
      /\ asks' = asks + 1
      /\ config' = c
      /\ writer' = Saved(writer, c, [status EXCEPT ![l] = "none"])
      /\ Fetch({l})
      /\ status' = Updating(status, {l})
      /\ UNCHANGED <<pending, dropped, generation, asked, active, rulesPending, runtime, lane, events,
                     disk, stored, starts>>

\* restoreDefaultSubscriptions: the default lists that are gone come back, are
\* compiled as they may still be stored, and are fetched.  The file is saved
\* whether or not any was gone.
RestoreDefaults ==
  LET back == Seeded \ config.known
      c == [config EXCEPT !.known = @ \cup back, !.on = @ \cup back]
      st == [l \in List |-> IF l \in back THEN "none" ELSE status[l]]
  IN  /\ config' = c
      /\ writer' = Saved(writer, c, st)
      /\ IF back = {}
         THEN /\ asks < MaxAsks
              /\ asks' = asks + 1
              /\ UNCHANGED <<status, generation, asked, active, lane, fetching>>
         ELSE /\ Changed(c, Cardinality(back))
              /\ Fetch(back)
              /\ status' = Updating(st, back)
      /\ UNCHANGED <<pending, dropped, rulesPending, runtime, events, disk, stored, starts>>

\* A defect for a run to find: the reload forgets only which lists there were.
ApplySyncKnown(known, on) ==
  LET c == [disk.config EXCEPT !.known = known, !.on = @ \cup on]
  IN  /\ disk' = [config |-> c, status |-> [l \in List |-> "none"]]
      /\ config' = c
      /\ dropped' = dropped \cup (pending \ known)
      /\ Changed(c, Cardinality(on))
      /\ Fetch(on)
      /\ status' = Updating([l \in List |-> "none"], on)
      /\ UNCHANGED <<pending, rulesPending, runtime, writer, events, stored, starts>>

\* restoreConfiguration and reloadSyncedConfiguration: Sync writes the lists it
\* has into the file, and the file is read again when they are others than it
\* held.  Neither asks the writer.
ApplySync(known, on) ==
  LET c == [disk.config EXCEPT !.known = known, !.on = on]
  IN  /\ disk' = [config |-> c, status |-> [l \in List |-> "none"]]
      /\ IF c = disk.config
         THEN UNCHANGED <<config, status, dropped, generation, asked, active, lane, fetching, asks>>
         ELSE /\ config' = c
              /\ dropped' = dropped \cup (pending \ known)
              /\ Changed(c, Cardinality(on))
              /\ Fetch(on)
              /\ status' = Updating([l \in List |-> "none"], on)
      /\ UNCHANGED <<pending, rulesPending, runtime, writer, events, stored, starts>>

-----------------------------------------------------------------------------
(* The threads                                                             *)

\* The network thread: a list, or a failure, is handed back whole.
Reply(l, v) ==
  /\ fetching[l] > 0
  /\ fetching' = [fetching EXCEPT ![l] = @ - 1]
  /\ events' = Append(events, [kind |-> "reply", list |-> l, version |-> v])
  /\ UNCHANGED <<memory, lane, writer, disk, stored, asks, starts>>

\* hasUsableRules, on the refresh thread
Check ==
  LET job == Head(lane["refresher"])
  IN  /\ lane["refresher"] # <<>>
      /\ job.kind = "check"
      /\ lane' = [lane EXCEPT !["refresher"] = Tail(@)]
      /\ events' = Append(events, [kind |-> "checked", list |-> job.list,
                                   version |-> job.version,
                                   usable |-> job.version \notin Unusable])
      /\ UNCHANGED <<memory, writer, fetching, disk, stored, asks, starts>>

\* A compile begins by reading the list files as they are now, unless a newer
\* one has replaced it.
BeginCompile(x) ==
  LET job == Head(lane[x])
      on == {l \in job.request.on : stored[l] # None}
      matcher == [rules |-> job.request.rules, on |-> job.request.on,
                  read |-> [l \in on |-> stored[l]]]
      made == IF job.generation = generation /\ job.request.rules \notin Uncompiled
              THEN matcher ELSE NoMatcher
  IN  /\ lane[x] # <<>>
      /\ job.kind = "compile"
      /\ lane' = [lane EXCEPT ![x] = <<[kind |-> "made", generation |-> job.generation,
                                       matcher |-> made]>> \o Tail(@)]
      /\ UNCHANGED <<memory, writer, fetching, events, disk, stored, asks, starts>>

\* It ends whenever the library is done.
EndCompile(x) ==
  LET job == Head(lane[x])
  IN  /\ lane[x] # <<>>
      /\ job.kind = "made"
      /\ lane' = [lane EXCEPT ![x] = Tail(@)]
      /\ events' = Append(events, [job EXCEPT !.kind = "compiled"])
      /\ UNCHANGED <<memory, writer, fetching, disk, stored, asks, starts>>

\* The writer's thread: the settings, or a list, which it may fail to write.
Write(ok) ==
  LET job == Head(writer)
  IN  /\ writer # <<>>
      /\ writer' = Tail(writer)
      /\ \/ /\ job.kind = "skipped" /\ ok
            /\ UNCHANGED <<events, disk, stored>>
         \/ /\ job.kind = "save" /\ ok
            /\ disk' = [config |-> job.config, status |-> job.status]
            /\ UNCHANGED <<events, stored>>
         \/ /\ job.kind = "store"
            /\ stored' = [stored EXCEPT ![job.list] = IF ok THEN job.version ELSE @]
            /\ events' = Append(events, [kind |-> "stored", list |-> job.list, ok |-> ok])
            /\ UNCHANGED disk
      /\ UNCHANGED <<memory, lane, fetching, asks, starts>>

-----------------------------------------------------------------------------
(* The interface thread takes what the threads posted                      *)

NextEvent(kind) == events # <<>> /\ Head(events).kind = kind /\ events' = Tail(events)

\* takeFetchedList
TakeFetched ==
  LET e == Head(events)
      st == [status EXCEPT ![e.list] = IF e.version = None THEN "failed" ELSE "validating"]
  IN  /\ NextEvent("reply")
      /\ IF e.list \notin config.known
         THEN UNCHANGED <<status, active, lane, writer>>
         ELSE /\ status' = st
              /\ writer' = Saved(writer, config, st)
              /\ IF e.version = None THEN UNCHANGED <<active, lane>>
                 ELSE /\ active' = active + 1
                      /\ Push("refresher", [kind |-> "check", list |-> e.list,
                                            version |-> e.version])
      /\ UNCHANGED <<config, pending, dropped, generation, asked, rulesPending, runtime, fetching, disk,
                     stored, asks, starts>>

\* A defect for a run to find: a list Sync took away meanwhile is not counted off.
SettleKnown(l, usable, isStored, queue) ==
  LET compiles == isStored /\ l \in config.on
      st == [status EXCEPT ![l] = IF ~usable \/ ~isStored THEN "failed"
                                  ELSE IF compiles THEN "compiling" ELSE "current"]
  IN  IF l \notin config.known
      THEN /\ writer' = queue
           /\ UNCHANGED <<status, pending, generation, asked, active, lane>>
      ELSE /\ status' = st
           /\ writer' = Saved(queue, config, st)
           /\ IF compiles
              THEN /\ pending' = pending \cup {l}
                   /\ Recompile("refresher", config)
                   /\ UNCHANGED active
              ELSE /\ active' = active - 1
                   /\ UNCHANGED <<pending, generation, asked, lane>>

\* A defect for a run to find: a stored list joins the compile already under way.
SettleJoining(l, usable, isStored, queue) ==
  LET compiles == isStored /\ l \in config.on
      st == [status EXCEPT ![l] = IF ~usable \/ ~isStored THEN "failed"
                                  ELSE IF compiles THEN "compiling" ELSE "current"]
  IN  IF l \notin config.known
      THEN /\ active' = active - 1
           /\ writer' = queue
           /\ UNCHANGED <<status, pending, generation, asked, lane>>
      ELSE /\ status' = st
           /\ writer' = Saved(queue, config, st)
           /\ IF compiles /\ active = 1
              THEN /\ pending' = pending \cup {l}
                   /\ Recompile("refresher", config)
                   /\ UNCHANGED active
              ELSE /\ active' = active - 1
                   /\ pending' = IF compiles THEN pending \cup {l} ELSE pending
                   /\ UNCHANGED <<generation, asked, lane>>

\* settleFetchedList.  A list switched off meanwhile is current as stored.
Settle(l, usable, isStored, queue) ==
  LET compiles == isStored /\ l \in config.on
      st == [status EXCEPT ![l] = IF ~usable \/ ~isStored THEN "failed"
                                  ELSE IF compiles THEN "compiling" ELSE "current"]
  IN  IF l \notin config.known
      THEN /\ active' = active - 1
           /\ writer' = queue
           /\ UNCHANGED <<status, pending, generation, asked, lane>>
      ELSE /\ status' = st
           /\ writer' = Saved(queue, config, st)
           /\ IF compiles
              THEN /\ pending' = pending \cup {l}
                   /\ Recompile("refresher", config)
                   /\ UNCHANGED active  \* the check is over and a compile begins
              ELSE /\ active' = active - 1
                   /\ UNCHANGED <<pending, generation, asked, lane>>

\* A defect for a run to find: a usable list is settled while it is being stored.
TakeCheckedEarly ==
  LET e == Head(events)
      store == [kind |-> "store", list |-> e.list, version |-> e.version]
  IN  /\ NextEvent("checked")
      /\ Settle(e.list, e.usable, e.usable, IF e.usable THEN Append(writer, store) ELSE writer)
      /\ UNCHANGED <<config, dropped, rulesPending, runtime, fetching, disk, stored, asks, starts>>

\* The check is over: a usable list is stored before it is compiled.
TakeChecked ==
  LET e == Head(events)
  IN  /\ NextEvent("checked")
      /\ IF e.usable
         THEN /\ writer' = Append(writer, [kind |-> "store", list |-> e.list,
                                           version |-> e.version])
              /\ UNCHANGED <<status, pending, generation, asked, active, lane>>
         ELSE Settle(e.list, FALSE, FALSE, writer)
      /\ UNCHANGED <<config, dropped, rulesPending, runtime, fetching, disk, stored, asks, starts>>

TakeStored ==
  LET e == Head(events)
  IN  /\ NextEvent("stored")
      /\ Settle(e.list, TRUE, e.ok, writer)
      /\ UNCHANGED <<config, dropped, rulesPending, runtime, fetching, disk, stored, asks, starts>>

\* A defect for a run to find: only rules that were made let the pages go.
LandMade(matcher) ==
  LET ok == matcher # NoMatcher
      st == [l \in List |-> IF l \in pending \cap config.known
                            THEN IF ok THEN "current" ELSE "failed"
                            ELSE status[l]]
  IN  /\ rulesPending' = (rulesPending /\ ~ok)
      /\ pending' = {}
      /\ status' = st
      /\ writer' = Saved(writer, config, st)
      /\ runtime' = IF ok THEN [matcher |-> matcher, off |-> config.off] ELSE runtime

\* A defect for a run to find: a compile that made nothing settles no list.
LandSettlingMade(matcher) ==
  LET ok == matcher # NoMatcher
      st == [l \in List |-> IF ok /\ l \in pending \cap config.known
                            THEN "current" ELSE status[l]]
  IN  /\ rulesPending' = FALSE
      /\ pending' = IF ok THEN {} ELSE pending
      /\ status' = st
      /\ writer' = Saved(writer, config, st)
      /\ runtime' = IF ok THEN [matcher |-> matcher, off |-> config.off] ELSE runtime

\* What a compile that ended does: the lists waiting on it end with it, and one
\* that made nothing leaves the rules in force as they were.
Land(matcher) ==
  LET ok == matcher # NoMatcher
      st == [l \in List |-> IF l \in pending \cap config.known
                            THEN IF ok THEN "current" ELSE "failed"
                            ELSE status[l]]
  IN  /\ rulesPending' = FALSE
      /\ pending' = {}
      /\ status' = st
      /\ writer' = Saved(writer, config, st)
      /\ runtime' = IF ok THEN [matcher |-> matcher, off |-> config.off] ELSE runtime

\* A defect for a run to find: whatever compile ended lands.
TakeAnyCompiled ==
  LET e == Head(events)
  IN  /\ NextEvent("compiled")
      /\ active' = active - 1
      /\ IF e.matcher = NoMatcher /\ e.generation # generation
         THEN UNCHANGED <<status, pending, rulesPending, runtime, writer>>
         ELSE Land(e.matcher)
      /\ UNCHANGED <<config, dropped, generation, asked, lane, fetching, disk, stored, asks, starts>>

\* The newest compile lands; one that a newer one replaced is let go of.
TakeCompiled ==
  LET e == Head(events)
  IN  /\ NextEvent("compiled")
      /\ active' = active - 1
      /\ IF e.generation = generation THEN Land(e.matcher)
         ELSE UNCHANGED <<status, pending, rulesPending, runtime, writer>>
      /\ UNCHANGED <<config, dropped, generation, asked, lane, fetching, disk, stored, asks, starts>>

-----------------------------------------------------------------------------
(* Starting and stopping                                                   *)

NoRuntime == [matcher |-> NoMatcher, off |-> FALSE]
FirstLanes(c) == [x \in Lanes |-> IF x = "compiler" THEN <<CompileJob(1, c)>> ELSE <<>>]

\* load and the first compile of a session, from what the disk holds
Start(d, files) ==
  /\ config' = d.config
  /\ status' = d.status
  /\ pending' = {}
  /\ dropped' = {}
  /\ generation' = 1
  /\ asked' = Request(d.config)
  /\ active' = 1
  /\ rulesPending' = TRUE
  /\ runtime' = NoRuntime
  /\ lane' = FirstLanes(d.config)
  /\ writer' = <<>>
  /\ fetching' = [l \in List |-> 0]
  /\ events' = <<>>
  /\ disk' = d
  /\ stored' = files
  /\ starts < MaxStarts
  /\ starts' = starts + 1
  /\ UNCHANGED asks

\* A crash: nothing more is written.
Crash == Start(disk, stored)

\* What is in the writer's queue and not skipped.
Queued(kind) == {writer[i] : i \in {j \in DOMAIN writer : writer[j].kind = kind}}

\* The destructor: fetches and compiles are dropped, and the writes are made,
\* of which those of lists may fail.
Quit ==
  \E d \in IF Queued("save") = {} THEN {disk}
           ELSE {[config |-> job.config, status |-> job.status] : job \in Queued("save")} :
    \E files \in [List -> Version \cup {None}] :
      /\ \A l \in List :
           \/ files[l] = stored[l]
           \/ \E job \in Queued("store") : job.list = l /\ job.version = files[l]
      /\ Start(d, files)

\* A first session with settings of an earlier one, its lists current or never
\* fetched, and no site spared yet.
Init ==
  \E c \in Configs, files \in [List -> Version \cup {None}] :
    /\ ~c.off
    /\ \A l \in List : files[l] \in (Version \ Unusable) \cup {None}
    /\ config = c
    /\ stored = files
    /\ status = [l \in List |-> IF l \in c.known /\ files[l] # None THEN "current" ELSE "none"]
    /\ pending = {} /\ dropped = {} /\ generation = 1 /\ active = 1 /\ rulesPending = TRUE
    /\ asked = Request(c)
    /\ runtime = NoRuntime
    /\ lane = FirstLanes(c)
    /\ writer = <<>> /\ events = <<>>
    /\ fetching = [l \in List |-> 0]
    /\ disk = [config |-> c, status |-> status]
    /\ asks = 0 /\ starts = 1

Reader ==
  \/ \E r \in Rules : SetUserRules(r)
  \/ \E l \in List, enabled \in BOOLEAN : SetEnabled(l, enabled)
  \/ \E off \in BOOLEAN : SetSite(off)
  \/ \E l \in List : Update(l) \/ Subscribe(l)
  \/ RestoreDefaults
  \/ \E known \in SUBSET List : \E on \in SUBSET known : ApplySync(known, on)

Interface == TakeFetched \/ TakeChecked \/ TakeStored \/ TakeCompiled

Network == \E l \in List, v \in Version \cup {None} : Reply(l, v)

Threads ==
  \/ Check
  \/ \E x \in Lanes : BeginCompile(x) \/ EndCompile(x)
  \/ \E ok \in BOOLEAN : Write(ok)

Next == Reader \/ Network \/ Threads \/ Interface \/ Crash \/ Quit

\* The threads run what they are handed and the interface thread takes what
\* comes back.  Nothing makes a fetch end.
Fairness ==
  /\ WF_vars(Check)
  /\ \A x \in Lanes : WF_vars(BeginCompile(x) \/ EndCompile(x))
  /\ WF_vars(\E ok \in BOOLEAN : Write(ok))
  /\ WF_vars(Interface)

Spec == Init /\ [][Next]_vars /\ Fairness

-----------------------------------------------------------------------------
(* Properties                                                              *)

Requests == [rules : Rules, on : SUBSET List]
Matchers ==
  {NoMatcher} \cup
  [rules : Rules, on : SUBSET List, read : UNION {[ls -> Version] : ls \in SUBSET List}]
Results(kind) == [kind : {kind}, generation : Nat, matcher : Matchers]
CheckJobs == [kind : {"check"}, list : List, version : Version]
Jobs ==
  [kind : {"compile"}, generation : Nat, request : Requests] \cup Results("made") \cup CheckJobs
Writes ==
  [kind : {"skipped"}] \cup [kind : {"store"}, list : List, version : Version] \cup
  [kind : {"save"}, config : Configs, status : [List -> Statuses]]
Events ==
  [kind : {"reply"}, list : List, version : Version \cup {None}] \cup
  [kind : {"checked"}, list : List, version : Version, usable : BOOLEAN] \cup
  [kind : {"stored"}, list : List, ok : BOOLEAN] \cup Results("compiled")

\* Everything the blocker and its threads hold is of the kind the code gives it,
\* and no list is enabled that is not subscribed to.
Held ==
  /\ config \in Configs
  /\ status \in [List -> Statuses]
  /\ pending \subseteq List /\ dropped \subseteq List
  /\ generation \in Nat
  /\ asked \in Requests
  /\ active \in Int
  /\ rulesPending \in BOOLEAN
  /\ runtime \in [matcher : Matchers, off : BOOLEAN]
  /\ lane \in [Lanes -> Seq(Jobs)]
  /\ writer \in Seq(Writes)
  /\ fetching \in [List -> Nat]
  /\ events \in Seq(Events)
  /\ disk \in [config : Configs, status : [List -> Statuses]]
  /\ stored \in [List -> Version \cup {None}]
  /\ asks \in Nat /\ starts \in Nat

\* The same, and m_activeCompilations never counts below zero.
TypeOK == Held /\ active \in Nat

\* The work m_activeCompilations counts: checks, stores and compiles, queued or
\* ended and not yet taken.
Uncounted == {"save", "skipped", "reply"}
CountedAt(queue) == {i \in DOMAIN queue : queue[i].kind \notin Uncounted}
Under(queue) == Cardinality(CountedAt(queue))

\* compiling() is true exactly while a list or a compile is under way, whatever
\* lists are switched off or taken away by Sync meanwhile.
CompilingIsShown ==
  active = Under(lane["compiler"]) + Under(lane["refresher"]) + Under(writer) + Under(events)

\* At rest the rules in force are the reader's own and the stored content of the
\* lists the newest compile was asked for, unless the library made nothing of
\* them; and a list that says it is current is one of those (recompileOn).
RestIsCurrent ==
  active = 0 /\ config.rules \notin Uncompiled =>
    /\ runtime.matcher.rules = config.rules
    /\ runtime.matcher.read = [l \in {k \in asked.on : stored[k] # None} |-> stored[l]]
    /\ runtime.off = config.off

\* A list the reader reads as current is part of what was last asked for.  One
\* Sync took away while it was compiled is current when that compile lands, if the
\* reader subscribed to it again: nothing takes it from m_pendingCurrent.
CurrentIsAsked ==
  \A l \in config.on \ dropped : status[l] = "current" => l \in asked.on

\* A settings file never says a list is current that is not stored, after a crash
\* between two writes either: the list is written before its status is.
CurrentIsStored ==
  \A l \in List : disk.status[l] \in {"compiling", "current"} => stored[l] # None

\* What settings.json will hold when the writer is done.
ToBeSaved ==
  IF Queued("save") = {} THEN disk.config ELSE (CHOOSE job \in Queued("save") : TRUE).config

\* Once what is written, or queued to be, is what the reader chose, it stays so,
\* except when Sync writes the file in front of a save that is still queued.
FileFollows ==
  [][ToBeSaved = config =>
       \/ ToBeSaved' = config'
       \/ disk' # disk /\ writer' = writer /\ writer # <<>>]_vars

\* Rules that come into force are those last asked for: no older compile's,
\* whichever thread ran it and whenever it ended.
RIF ==
  INSTANCE RulesInForce WITH
    RuleSet <- [rules : Rules, on : SUBSET List],
    Nothing <- Request(NoMatcher),
    wanted <- asked,
    inForce <- Request(runtime.matcher)

OnlyWhatWasAsked == RIF!Spec

\* Pages that wait for the first rules are let go, whether or not there are any.
PagesAreLetGo == rulesPending ~> ~rulesPending

\* A list that is being validated or compiled comes to an end of it.
ListsSettle ==
  \A l \in List : (status[l] \in Working /\ starts = 1)
                   ~> (status[l] \notin Working \/ starts > 1)

=============================================================================
