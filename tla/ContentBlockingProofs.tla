----------------------- MODULE ContentBlockingProofs -----------------------
(***************************************************************************)
(* What holds of Content blocking for any lists, rules and bounds: that    *)
(* what it holds stays well formed, that compiling() counts exactly what   *)
(* is under way, that the rules in force are only ever those last asked    *)
(* for, and that neither the window nor the settings file calls a list     *)
(* current that is not.                                                    *)
(***************************************************************************)
EXTENDS ContentBlocking, FunctionTheorems, FiniteSetTheorems, TLAPS

-----------------------------------------------------------------------------
(* The writer's queue                                                      *)

\* Skipping older saves leaves a queue of writes, as long as it was.
LEMMA SkippingKeeps ==
  ASSUME NEW queue \in Seq(Writes)
  PROVE  /\ Skipping(queue) \in Seq(Writes)
         /\ Len(Skipping(queue)) = Len(queue)
         /\ DOMAIN Skipping(queue) = DOMAIN queue
         /\ \A i \in DOMAIN queue :
              Skipping(queue)[i] = IF queue[i].kind = "save" THEN [kind |-> "skipped"]
                                   ELSE queue[i]
<1>1. \A i \in DOMAIN queue :
        (IF queue[i].kind = "save" THEN [kind |-> "skipped"] ELSE queue[i]) \in Writes
  BY DEF Writes
<1>2. DOMAIN queue = 1 .. Len(queue) /\ Len(queue) \in Nat
  OBVIOUS
<1> QED BY <1>1, <1>2 DEF Skipping

\* A save is queued behind what was there, and is the only one not skipped.
LEMMA SavedKeeps ==
  ASSUME NEW queue \in Seq(Writes), NEW c \in Configs, NEW st \in [List -> Statuses]
  PROVE  /\ Saved(queue, c, st) \in Seq(Writes)
         /\ Len(Saved(queue, c, st)) = Len(queue) + 1
         /\ \A i \in DOMAIN Saved(queue, c, st) :
              Saved(queue, c, st)[i] =
                IF i = Len(queue) + 1 THEN [kind |-> "save", config |-> c, status |-> st]
                ELSE Skipping(queue)[i]
         /\ \A i \in DOMAIN Saved(queue, c, st) :
              \/ Saved(queue, c, st)[i] = [kind |-> "save", config |-> c, status |-> st]
              \/ /\ Saved(queue, c, st)[i].kind # "save"
                 /\ \/ Saved(queue, c, st)[i].kind = "skipped"
                    \/ i \in DOMAIN queue /\ Saved(queue, c, st)[i] = queue[i]
<1> DEFINE save == [kind |-> "save", config |-> c, status |-> st]
<1>1. save \in Writes
  BY DEF Writes
<1>2. Saved(queue, c, st) = Append(Skipping(queue), save)
  BY DEF Saved
<1> HIDE DEF save
<1>3. /\ Saved(queue, c, st) \in Seq(Writes)
      /\ Len(Saved(queue, c, st)) = Len(queue) + 1
      /\ DOMAIN Saved(queue, c, st) = 1 .. Len(queue) + 1
      /\ \A i \in 1 .. Len(queue) + 1 :
           Saved(queue, c, st)[i] = IF i = Len(queue) + 1 THEN save ELSE Skipping(queue)[i]
  BY <1>1, <1>2, SkippingKeeps
<1>4. ASSUME NEW i \in 1 .. Len(queue)
      PROVE  /\ Skipping(queue)[i].kind # "save"
             /\ Skipping(queue)[i].kind = "skipped" \/ Skipping(queue)[i] = queue[i]
  BY SkippingKeeps
<1>5. DOMAIN queue = 1 .. Len(queue) /\ Len(queue) \in Nat
  OBVIOUS
<1> QED BY <1>3, <1>4, <1>5 DEF save

-----------------------------------------------------------------------------
(* Counting what is under way                                              *)

Counted(e) == e.kind \notin Uncounted
Work(e) == IF Counted(e) THEN 1 ELSE 0

\* The work a queue holds is a finite number (m_activeCompilations counts it).
LEMMA UnderNat ==
  ASSUME NEW S, NEW queue \in Seq(S)
  PROVE  /\ IsFiniteSet(CountedAt(queue))
         /\ Under(queue) \in Nat
<1>1. IsFiniteSet(1 .. Len(queue))
  BY FS_Interval
<1>2. CountedAt(queue) \subseteq 1 .. Len(queue)
  BY DEF CountedAt
<1>3. IsFiniteSet(CountedAt(queue))
  BY <1>1, <1>2, FS_Subset
<1> QED BY <1>3, FS_CardinalityType DEF Under

\* Something queued is counted if it is work.
LEMMA UnderAppend ==
  ASSUME NEW S, NEW queue \in Seq(S), NEW e \in S
  PROVE  Under(Append(queue, e)) = Under(queue) + Work(e)
<1> DEFINE n == Len(queue) + 1
<1>1. n \notin CountedAt(queue)
  BY DEF CountedAt
<1>2. CASE Counted(e)
  <2>1. CountedAt(Append(queue, e)) = CountedAt(queue) \cup {n}
    BY <1>2 DEF CountedAt, Counted
  <2> QED BY <1>1, <1>2, <2>1, UnderNat, FS_AddElement DEF Under, Work
<1>3. CASE ~Counted(e)
  <2>1. CountedAt(Append(queue, e)) = CountedAt(queue)
    BY <1>3 DEF CountedAt, Counted
  <2> QED BY <1>3, <2>1, UnderNat DEF Under, Work
<1> QED BY <1>2, <1>3

\* What is taken from the head of a queue is no longer counted there.
LEMMA UnderTail ==
  ASSUME NEW S, NEW queue \in Seq(S), queue # << >>
  PROVE  Under(Tail(queue)) = Under(queue) - Work(Head(queue))
<1> DEFINE rest == CountedAt(queue) \ {1}
           f == [i \in CountedAt(Tail(queue)) |-> i + 1]
<1>1. Len(queue) \in Nat /\ Len(queue) > 0 /\ DOMAIN queue = 1 .. Len(queue)
  OBVIOUS
<1>2. /\ Tail(queue) \in Seq(S) /\ Len(Tail(queue)) = Len(queue) - 1
      /\ \A i \in 1 .. Len(queue) - 1 : Tail(queue)[i] = queue[i + 1]
      /\ DOMAIN Tail(queue) = 1 .. Len(queue) - 1
  BY <1>1
<1>3. Head(queue) = queue[1]
  OBVIOUS
<1>4. f \in Bijection(CountedAt(Tail(queue)), rest)
  <2>1. \A i \in CountedAt(Tail(queue)) : i + 1 \in rest
    BY <1>1, <1>2 DEF CountedAt
  <2>2. \A j \in rest : j - 1 \in CountedAt(Tail(queue)) /\ f[j - 1] = j
    BY <1>1, <1>2 DEF CountedAt
  <2>3. \A i, j \in CountedAt(Tail(queue)) : f[i] = f[j] => i = j
    BY <1>2 DEF CountedAt
  <2> HIDE DEF rest
  <2>4. f \in [CountedAt(Tail(queue)) -> rest]
    BY <2>1
  <2>5. \A j \in rest : \E i \in CountedAt(Tail(queue)) : f[i] = j
    BY <2>2
  <2> HIDE DEF f
  <2> QED BY <2>3, <2>4, <2>5, Fun_IsBij
<1>5. IsFiniteSet(CountedAt(queue)) /\ IsFiniteSet(CountedAt(Tail(queue)))
  BY <1>2, UnderNat
<1>6. ExistsBijection(CountedAt(Tail(queue)), rest)
  BY <1>4 DEF ExistsBijection
<1>7. IsFiniteSet(rest) /\ Cardinality(rest) =
         Under(queue) - (IF 1 \in CountedAt(queue) THEN 1 ELSE 0)
  <2>1. Cardinality(rest) = Cardinality(CountedAt(queue)) - (IF 1 \in CountedAt(queue) THEN 1 ELSE 0)
    BY <1>5, FS_RemoveElement, FS_CardinalityType
  <2> QED BY <1>5, <2>1, FS_RemoveElement DEF Under
<1>8. Under(Tail(queue)) = Cardinality(rest)
  BY <1>5, <1>6, FS_Bijection DEF Under
<1>9. (1 \in CountedAt(queue)) <=> Counted(Head(queue))
  BY <1>1, <1>3 DEF CountedAt, Counted
<1> QED BY <1>7, <1>8, <1>9 DEF Work

\* Skipping older saves and queueing a newer one is no work.
LEMMA UnderSaved ==
  ASSUME NEW queue \in Seq(Writes), NEW c \in Configs, NEW st \in [List -> Statuses]
  PROVE  Under(Saved(queue, c, st)) = Under(queue)
<1> DEFINE saved == Saved(queue, c, st)
<1>1. saved \in Seq(Writes) /\ Len(saved) = Len(queue) + 1
  BY SavedKeeps
<1>2. ASSUME NEW i \in 1 .. Len(saved)
      PROVE  i \in CountedAt(saved) <=> i \in CountedAt(queue)
  <2>1. CASE i = Len(queue) + 1
    <3>1. saved[i].kind = "save"
      BY <1>1, <2>1, SavedKeeps
    <3> QED BY <1>1, <2>1, <3>1 DEF CountedAt, Uncounted
  <2>2. CASE i \in 1 .. Len(queue)
    <3>1. saved[i] = Skipping(queue)[i]
      BY <1>1, <2>2, SavedKeeps
    <3>2. saved[i].kind = IF queue[i].kind = "save" THEN "skipped" ELSE queue[i].kind
      BY <2>2, <3>1, SkippingKeeps
    <3> QED BY <1>1, <2>2, <3>2 DEF CountedAt, Uncounted
  <2> QED BY <1>1, <2>1, <2>2
<1>3. CountedAt(saved) \subseteq 1 .. Len(saved) /\ CountedAt(queue) \subseteq 1 .. Len(saved)
  BY <1>1 DEF CountedAt
<1> HIDE DEF saved
<1>4. CountedAt(saved) = CountedAt(queue)
  BY <1>2, <1>3
<1> QED BY <1>4 DEF Under, saved

\* A compile that began is counted as it was.
LEMMA UnderBegun ==
  ASSUME NEW S, NEW queue \in Seq(S), NEW e \in S, queue # << >>,
         Counted(e), Counted(Head(queue))
  PROVE  /\ <<e>> \o Tail(queue) \in Seq(S)
         /\ Len(<<e>> \o Tail(queue)) = Len(queue)
         /\ (<<e>> \o Tail(queue))[1] = e
         /\ \A i \in 2 .. Len(queue) : (<<e>> \o Tail(queue))[i] = queue[i]
         /\ Under(<<e>> \o Tail(queue)) = Under(queue)
<1> DEFINE begun == <<e>> \o Tail(queue)
<1>1. Len(queue) \in Nat /\ Len(queue) > 0 /\ DOMAIN queue = 1 .. Len(queue)
  OBVIOUS
<1>2. /\ begun \in Seq(S) /\ Len(begun) = Len(queue)
      /\ begun[1] = e
      /\ \A i \in 2 .. Len(queue) : begun[i] = queue[i]
  BY <1>1
<1>3. DOMAIN begun = 1 .. Len(queue)
  BY <1>2
<1>4. queue[1] = Head(queue)
  OBVIOUS
<1> HIDE DEF begun
<1>5. CountedAt(begun) = CountedAt(queue)
  BY <1>1, <1>2, <1>3, <1>4 DEF CountedAt, Counted
<1> QED BY <1>2, <1>5 DEF Under, begun

-----------------------------------------------------------------------------
(* What the blocker and its threads hold                                   *)

\* A job handed to a thread is queued behind those it has, and behind no other's.
LEMMA PushKeeps ==
  ASSUME lane \in [Lanes -> Seq(Jobs)], NEW x \in Lanes, NEW job \in Jobs, Push(x, job)
  PROVE  /\ lane' \in [Lanes -> Seq(Jobs)]
         /\ lane'[x] = Append(lane[x], job)
         /\ \A y \in Lanes \ {x} : lane'[y] = lane[y]
BY DEF Push

\* A compile asked for is numbered after every other, and is for what is wanted.
LEMMA RecompileKeeps ==
  ASSUME Held, NEW x \in Lanes, NEW c \in Configs, Recompile(x, c)
  PROVE  /\ lane' \in [Lanes -> Seq(Jobs)]
         /\ generation' = generation + 1
         /\ generation' \in Nat
         /\ asked' = Request(c)
         /\ asked' \in Requests
         /\ CompileJob(generation + 1, c) \in Jobs
         /\ lane'[x] = Append(lane[x], CompileJob(generation + 1, c))
         /\ \A y \in Lanes \ {x} : lane'[y] = lane[y]
<1>1. Request(c) \in Requests
  BY DEF Request, Requests, Configs
<1>2. generation + 1 \in Nat
  BY DEF Held
<1>3. CompileJob(generation + 1, c) \in Jobs
  BY <1>1, <1>2 DEF CompileJob, Jobs
<1> QED BY <1>1, <1>2, <1>3, PushKeeps DEF Held, Recompile

\* The same, of a change of the reader's.
LEMMA ChangedKeeps ==
  ASSUME Held, NEW c \in Configs, NEW n \in Nat, Changed(c, n)
  PROVE  /\ lane' \in [Lanes -> Seq(Jobs)]
         /\ generation' \in Nat
         /\ asked' \in Requests
         /\ active' \in Int
         /\ asks' \in Nat
<1>1. Recompile("compiler", c) /\ active' = active + 1 /\ asks' = asks + 1 + n
  BY DEF Changed
<1> QED BY <1>1, RecompileKeeps DEF Lanes, Held

\* Taking an event leaves the others.
LEMMA TakenKeeps ==
  ASSUME events \in Seq(Events), NEW kind, NextEvent(kind)
  PROVE  /\ events # << >>
         /\ events' = Tail(events)
         /\ events' \in Seq(Events)
         /\ Head(events) \in Events
         /\ Head(events).kind = kind
         /\ Head(events) = events[1]
BY DEF NextEvent

\* A session starts well formed from well-formed files.
LEMMA StartKeeps ==
  ASSUME NEW d \in [config : Configs, status : [List -> Statuses]],
         NEW files \in [List -> Version \cup {None}],
         Start(d, files), Held
  PROVE  Held'
<1>1. Request(d.config) \in Requests
  BY DEF Request, Requests, Configs
<1>2. CompileJob(1, d.config) \in Jobs
  BY <1>1 DEF CompileJob, Jobs
<1>3. FirstLanes(d.config) \in [Lanes -> Seq(Jobs)]
  BY <1>2 DEF FirstLanes
<1>4. NoRuntime \in [matcher : Matchers, off : BOOLEAN]
  BY DEF NoRuntime, Matchers
<1> QED BY <1>1, <1>3, <1>4 DEF Start, Held

\* A quit starts the next session from the settings as they are or will be, and
\* from each list's file as it is or will be.
LEMMA QuitFrom ==
  ASSUME Held, Quit
  PROVE  \E d \in [config : Configs, status : [List -> Statuses]],
            files \in [List -> Version \cup {None}] :
           /\ Start(d, files)
           /\ \/ d = disk
              \/ \E i \in DOMAIN writer :
                   /\ writer[i].kind = "save"
                   /\ d = [config |-> writer[i].config, status |-> writer[i].status]
           /\ \A l \in List : stored[l] # None => files[l] # None
<1> DEFINE ds == IF Queued("save") = {} THEN {disk}
                 ELSE {[config |-> job.config, status |-> job.status] : job \in Queued("save")}
<1>1. PICK d \in ds, files \in [List -> Version \cup {None}] :
        /\ \A l \in List : \/ files[l] = stored[l]
                           \/ \E job \in Queued("store") : job.list = l /\ job.version = files[l]
        /\ Start(d, files)
  BY DEF Quit
<1>2. \/ d = disk
      \/ \E i \in DOMAIN writer :
           /\ writer[i].kind = "save"
           /\ d = [config |-> writer[i].config, status |-> writer[i].status]
  BY DEF Queued
<1>3. ASSUME NEW i \in DOMAIN writer, writer[i].kind = "save"
      PROVE  writer[i].config \in Configs /\ writer[i].status \in [List -> Statuses]
  <2>1. writer[i] \in Writes
    BY DEF Held
  <2> QED BY <1>3, <2>1 DEF Writes
<1>4. d \in [config : Configs, status : [List -> Statuses]]
  BY <1>2, <1>3 DEF Held
<1>5. ASSUME NEW job \in Queued("store") PROVE job.version # None
  <2>1. job \in Writes /\ job.kind = "store"
    BY DEF Queued, Held
  <2> QED BY <2>1, BlockingAssumption DEF Writes
<1>6. \A l \in List : stored[l] # None => files[l] # None
  BY <1>1, <1>5
<1> HIDE DEF ds
<1> QED BY <1>1, <1>2, <1>4, <1>6

\* A session begins with everything of its kind.
LEMMA InitHeld == Init => Held
<1> SUFFICES ASSUME Init PROVE Held
  OBVIOUS
<1>1. PICK c \in Configs, files \in [List -> Version \cup {None}] :
        /\ config = c /\ stored = files /\ asked = Request(c) /\ lane = FirstLanes(c)
        /\ status = [l \in List |-> IF l \in c.known /\ files[l] # None THEN "current"
                                    ELSE "none"]
        /\ disk = [config |-> c, status |-> status]
  BY DEF Init
<1>2. /\ pending = {} /\ dropped = {} /\ generation = 1 /\ active = 1 /\ rulesPending = TRUE
      /\ runtime = NoRuntime /\ writer = << >> /\ events = << >>
      /\ fetching = [l \in List |-> 0] /\ asks = 0 /\ starts = 1
  BY DEF Init
<1>3. Request(c) \in Requests
  BY DEF Request, Requests, Configs
<1>4. CompileJob(1, c) \in Jobs
  BY <1>3 DEF CompileJob, Jobs
<1>5. FirstLanes(c) \in [Lanes -> Seq(Jobs)]
  BY <1>4 DEF FirstLanes
<1>6. NoRuntime \in [matcher : Matchers, off : BOOLEAN]
  BY DEF NoRuntime, Matchers
<1>7. status \in [List -> Statuses]
  BY <1>1 DEF Statuses
<1> QED BY <1>1, <1>2, <1>3, <1>5, <1>6, <1>7 DEF Held

\* A list settled leaves everything well formed.
LEMMA SettleKeeps ==
  ASSUME Held, NEW l \in List, NEW usable \in BOOLEAN, NEW isStored \in BOOLEAN,
         NEW queue \in Seq(Writes), Settle(l, usable, isStored, queue)
  PROVE  /\ status' \in [List -> Statuses]
         /\ pending' \subseteq List
         /\ generation' \in Nat
         /\ asked' \in Requests
         /\ active' \in Int
         /\ lane' \in [Lanes -> Seq(Jobs)]
         /\ writer' \in Seq(Writes)
<1> DEFINE compiles == isStored /\ l \in config.on
           st == [status EXCEPT ![l] = IF ~usable \/ ~isStored THEN "failed"
                                       ELSE IF compiles THEN "compiling" ELSE "current"]
<1>1. st \in [List -> Statuses]
  BY DEF Held, Statuses
<1>2. CASE l \notin config.known
  BY <1>2 DEF Settle, Held
<1>3. CASE l \in config.known
  <2>1. status' = st /\ writer' = Saved(queue, config, st)
    BY <1>3 DEF Settle
  <2>2. writer' \in Seq(Writes)
    BY <1>1, <2>1, SavedKeeps DEF Held
  <2>3. CASE compiles
    <3>1. pending' = pending \cup {l} /\ Recompile("refresher", config) /\ UNCHANGED active
      BY <1>3, <2>3 DEF Settle
    <3> QED BY <1>1, <2>1, <2>2, <3>1, RecompileKeeps DEF Held, Lanes
  <2>4. CASE ~compiles
    <3>1. active' = active - 1 /\ UNCHANGED <<pending, generation, asked, lane>>
      BY <1>3, <2>4 DEF Settle
    <3> QED BY <1>1, <2>1, <2>2, <3>1 DEF Held
  <2> QED BY <2>3, <2>4
<1> QED BY <1>2, <1>3

\* So does a compile that lands.
LEMMA LandKeeps ==
  ASSUME Held, NEW matcher \in Matchers, Land(matcher)
  PROVE  /\ status' \in [List -> Statuses]
         /\ pending' = {}
         /\ rulesPending' = FALSE
         /\ runtime' \in [matcher : Matchers, off : BOOLEAN]
         /\ writer' \in Seq(Writes)
<1>1. status' \in [List -> Statuses]
  BY DEF Land, Held, Statuses
<1>2. writer' = Saved(writer, config, status')
  BY DEF Land
<1>3. writer' \in Seq(Writes)
  BY <1>1, <1>2, SavedKeeps DEF Held
<1>4. config.off \in BOOLEAN
  BY DEF Held, Configs
<1> QED BY <1>1, <1>3, <1>4 DEF Land, Held

\* Every step keeps everything the blocker and its threads hold of its kind.
LEMMA NextHeld ==
  ASSUME Held, [Next]_vars
  PROVE  Held'
<1> USE DEF memory, threads
<1>1. ASSUME NEW r \in Rules, SetUserRules(r) PROVE Held'
  <2> DEFINE c == [config EXCEPT !.rules = r]
  <2>1. c \in Configs
    BY DEF Held, Configs
  <2>2. /\ config' = c /\ writer' = Saved(writer, c, status) /\ Changed(c, 0)
        /\ UNCHANGED <<status, pending, dropped, rulesPending, runtime, fetching, events, disk,
                       stored, starts>>
    BY <1>1 DEF SetUserRules
  <2> HIDE DEF c
  <2> QED BY <2>1, <2>2, SavedKeeps, ChangedKeeps DEF Held
<1>2. ASSUME NEW l \in List, NEW enabled \in BOOLEAN, SetEnabled(l, enabled) PROVE Held'
  <2> DEFINE c == [config EXCEPT !.on = IF enabled THEN @ \cup {l} ELSE @ \ {l}]
  <2>1. c \in Configs
    BY <1>2 DEF Held, Configs, SetEnabled
  <2>2. /\ config' = c /\ writer' = Saved(writer, c, status) /\ Changed(c, 0)
        /\ UNCHANGED <<status, pending, dropped, rulesPending, runtime, fetching, events, disk,
                       stored, starts>>
    BY <1>2 DEF SetEnabled
  <2> HIDE DEF c
  <2> QED BY <2>1, <2>2, SavedKeeps, ChangedKeeps DEF Held
<1>3. ASSUME NEW off \in BOOLEAN, SetSite(off) PROVE Held'
  <2> DEFINE c == [config EXCEPT !.off = off]
  <2>1. c \in Configs
    BY DEF Held, Configs
  <2>2. /\ config' = c /\ writer' = Saved(writer, c, status) /\ asks' = asks + 1
        /\ runtime' = [runtime EXCEPT !.off = off]
        /\ UNCHANGED <<status, pending, dropped, generation, asked, active, rulesPending, lane,
                       fetching, events, disk, stored, starts>>
    BY <1>3 DEF SetSite
  <2> HIDE DEF c
  <2>3. asks' \in Nat /\ runtime' \in [matcher : Matchers, off : BOOLEAN]
    <3>1. asks' \in Nat
      BY <2>2 DEF Held
    <3>2. runtime' \in [matcher : Matchers, off : BOOLEAN]
      BY <2>2, ZenonT(30) DEF Held
    <3> QED BY <3>1, <3>2
  <2>4. writer' \in Seq(Writes)
    BY <2>1, <2>2, SavedKeeps DEF Held
  <2> QED BY <2>1, <2>2, <2>3, <2>4 DEF Held
<1>4. ASSUME NEW l \in List, Update(l) PROVE Held'
  <2>1. Fetch({l}) /\ status' = Updating(status, {l})
    BY <1>4 DEF Update
  <2>2. fetching' \in [List -> Nat] /\ status' \in [List -> Statuses]
    BY <2>1 DEF Fetch, Updating, Held, Statuses
  <2>3. /\ asks' = asks + 1
        /\ UNCHANGED <<config, pending, dropped, generation, asked, active, rulesPending, runtime,
                       lane, writer, events, disk, stored, starts>>
    BY <1>4 DEF Update
  <2>4. asks' \in Nat
    BY <2>3 DEF Held
  <2> QED BY <2>2, <2>3, <2>4 DEF Held
<1>5. ASSUME NEW l \in List, Subscribe(l) PROVE Held'
  <2> DEFINE c == [config EXCEPT !.known = @ \cup {l}, !.on = @ \cup {l}]
             st == [status EXCEPT ![l] = "none"]
  <2>1. c \in Configs /\ st \in [List -> Statuses]
    BY DEF Held, Configs, Statuses
  <2>2. /\ config' = c /\ writer' = Saved(writer, c, st) /\ asks' = asks + 1
        /\ Fetch({l}) /\ status' = Updating(status, {l})
        /\ UNCHANGED <<pending, dropped, generation, asked, active, rulesPending, runtime, lane,
                       events, disk, stored, starts>>
    BY <1>5 DEF Subscribe
  <2>3. fetching' \in [List -> Nat] /\ status' \in [List -> Statuses]
    BY <2>2 DEF Fetch, Updating, Held, Statuses
  <2> HIDE DEF c, st
  <2>4. asks' \in Nat /\ writer' \in Seq(Writes)
    BY <2>1, <2>2, SavedKeeps DEF Held
  <2> QED BY <2>1, <2>2, <2>3, <2>4 DEF Held
<1>6. ASSUME RestoreDefaults PROVE Held'
  <2> DEFINE back == Seeded \ config.known
             c == [config EXCEPT !.known = @ \cup back, !.on = @ \cup back]
             st == [l \in List |-> IF l \in back THEN "none" ELSE status[l]]
  <2>1. c \in Configs /\ st \in [List -> Statuses]
    BY BlockingAssumption DEF Held, Configs, Statuses
  <2>2. Cardinality(back) \in Nat
    BY BlockingAssumption, FS_Subset, FS_CardinalityType
  <2>3. /\ config' = c /\ writer' = Saved(writer, c, st)
        /\ UNCHANGED <<pending, dropped, rulesPending, runtime, events, disk, stored, starts>>
    BY <1>6 DEF RestoreDefaults
  <2>4. CASE back = {}
    <3>1. asks' = asks + 1 /\ UNCHANGED <<status, generation, asked, active, lane, fetching>>
      BY <1>6, <2>4 DEF RestoreDefaults
    <3> HIDE DEF c, st
    <3> QED BY <2>1, <2>3, <3>1, SavedKeeps, SMTT(30) DEF Held
  <2>5. CASE back # {}
    <3>1. Changed(c, Cardinality(back)) /\ Fetch(back) /\ status' = Updating(st, back)
      BY <1>6, <2>5 DEF RestoreDefaults
    <3> HIDE DEF c, st, back
    <3>2. fetching' \in [List -> Nat] /\ status' \in [List -> Statuses]
      BY <2>1, <3>1 DEF Fetch, Updating, Held, Statuses
    <3> QED BY <2>1, <2>2, <2>3, <3>1, <3>2, SavedKeeps, ChangedKeeps DEF Held
  <2> QED BY <2>4, <2>5
<1>7. ASSUME NEW known \in SUBSET List, NEW on \in SUBSET known, ApplySync(known, on) PROVE Held'
  <2> DEFINE c == [disk.config EXCEPT !.known = known, !.on = on]
             fresh == [l \in List |-> "none"]
  <2>1. c \in Configs /\ fresh \in [List -> Statuses]
    BY DEF Held, Configs, Statuses
  <2>2. Cardinality(on) \in Nat
    BY BlockingAssumption, FS_Subset, FS_CardinalityType
  <2>3. /\ disk' = [config |-> c, status |-> fresh]
        /\ UNCHANGED <<pending, rulesPending, runtime, writer, events, stored, starts>>
    BY <1>7 DEF ApplySync
  <2>4. CASE c = disk.config
    <3>1. UNCHANGED <<config, status, dropped, generation, asked, active, lane, fetching, asks>>
      BY <1>7, <2>4 DEF ApplySync
    <3> HIDE DEF c, fresh
    <3> QED BY <2>1, <2>3, <3>1 DEF Held
  <2>5. CASE c # disk.config
    <3>1. /\ config' = c /\ dropped' = dropped \cup (pending \ known)
          /\ Changed(c, Cardinality(on)) /\ Fetch(on) /\ status' = Updating(fresh, on)
      BY <1>7, <2>5 DEF ApplySync
    <3> HIDE DEF c, fresh
    <3>2. fetching' \in [List -> Nat] /\ status' \in [List -> Statuses]
      BY <2>1, <3>1 DEF Fetch, Updating, Held, Statuses
    <3> QED BY <2>1, <2>2, <2>3, <3>1, <3>2, ChangedKeeps DEF Held
  <2> QED BY <2>4, <2>5
<1>8. ASSUME NEW l \in List, NEW v \in Version \cup {None}, Reply(l, v) PROVE Held'
  <2>1. [kind |-> "reply", list |-> l, version |-> v] \in Events
    BY DEF Events
  <2>2. fetching' \in [List -> Nat]
    BY <1>8 DEF Reply, Held
  <2> QED BY <1>8, <2>1, <2>2 DEF Reply, Held
<1>9. ASSUME Check PROVE Held'
  <2>1. /\ lane["refresher"] \in Seq(Jobs) /\ lane["refresher"] # << >>
        /\ Head(lane["refresher"]) \in Jobs
        /\ Head(lane["refresher"]).kind = "check"
    BY <1>9 DEF Check, Held, Lanes
  <2>2. Head(lane["refresher"]) \in CheckJobs
    BY <2>1 DEF Jobs, Results, CheckJobs
  <2> DEFINE job == Head(lane["refresher"])
  <2>3. [kind |-> "checked", list |-> job.list, version |-> job.version,
         usable |-> job.version \notin Unusable] \in Events
    BY <2>2 DEF CheckJobs, Events
  <2>4. lane' = [lane EXCEPT !["refresher"] = Tail(@)]
    BY <1>9 DEF Check
  <2>5. lane' \in [Lanes -> Seq(Jobs)]
    <3>1. Tail(lane["refresher"]) \in Seq(Jobs)
      BY <2>1
    <3> QED BY <2>4, <3>1 DEF Held
  <2>6. events' = Append(events, [kind |-> "checked", list |-> job.list, version |-> job.version,
                                  usable |-> job.version \notin Unusable])
    BY <1>9 DEF Check
  <2>7. events' \in Seq(Events)
    BY <2>3, <2>6 DEF Held
  <2> QED BY <1>9, <2>5, <2>7 DEF Check, Held
<1>10. ASSUME NEW x \in Lanes, BeginCompile(x) PROVE Held'
  <2>1. lane[x] \in Seq(Jobs) /\ lane[x] # << >> /\ Head(lane[x]) \in Jobs
        /\ Head(lane[x]).kind = "compile"
    BY <1>10 DEF BeginCompile, Held
  <2>2. Head(lane[x]).generation \in Nat /\ Head(lane[x]).request \in Requests
    BY <2>1 DEF Jobs, Results, CheckJobs
  <2> DEFINE job == Head(lane[x])
             on == {l \in job.request.on : stored[l] # None}
             matcher == [rules |-> job.request.rules, on |-> job.request.on,
                         read |-> [l \in on |-> stored[l]]]
             made == IF job.generation = generation /\ job.request.rules \notin Uncompiled
                     THEN matcher ELSE NoMatcher
  <2>3. on \in SUBSET List /\ [l \in on |-> stored[l]] \in [on -> Version]
    BY <2>2 DEF Requests, Held
  <2>4. matcher \in Matchers
    BY <2>2, <2>3 DEF Matchers, Requests
  <2>5. made \in Matchers
    BY <2>4 DEF Matchers
  <2>6. lane' = [lane EXCEPT ![x] = <<[kind |-> "made", generation |-> job.generation,
                                       matcher |-> made]>> \o Tail(@)]
    BY <1>10 DEF BeginCompile
  <2> HIDE DEF made
  <2>7. [kind |-> "made", generation |-> job.generation, matcher |-> made] \in Jobs
    BY <2>2, <2>5 DEF Jobs, Results
  <2>8. lane' \in [Lanes -> Seq(Jobs)]
    BY <2>1, <2>6, <2>7 DEF Held
  <2> QED BY <1>10, <2>8 DEF BeginCompile, Held
<1>11. ASSUME NEW x \in Lanes, EndCompile(x) PROVE Held'
  <2>1. lane[x] \in Seq(Jobs) /\ lane[x] # << >> /\ Head(lane[x]) \in Jobs
        /\ Head(lane[x]).kind = "made"
    BY <1>11 DEF EndCompile, Held
  <2>2. Head(lane[x]) \in Results("made")
    BY <2>1 DEF Jobs, Results, CheckJobs
  <2>3. [Head(lane[x]) EXCEPT !.kind = "compiled"] \in Events
    BY <2>2 DEF Results, Events
  <2>4. lane' \in [Lanes -> Seq(Jobs)] /\ events' \in Seq(Events)
    BY <1>11, <2>1, <2>3 DEF EndCompile, Held
  <2> QED BY <1>11, <2>4 DEF EndCompile, Held
<1>12. ASSUME NEW ok \in BOOLEAN, Write(ok) PROVE Held'
  <2> DEFINE job == Head(writer)
  <2>1. writer # << >> /\ job \in Writes /\ writer' = Tail(writer) /\ writer' \in Seq(Writes)
        /\ UNCHANGED <<memory, lane, fetching, asks, starts>>
    BY <1>12 DEF Write, Held
  <2>2. CASE job.kind = "skipped"
    <3>1. UNCHANGED <<events, disk, stored>>
      BY <1>12, <2>2 DEF Write
    <3> QED BY <2>1, <3>1 DEF Held
  <2>3. CASE job.kind = "save"
    <3>1. disk' = [config |-> job.config, status |-> job.status] /\ UNCHANGED <<events, stored>>
      BY <1>12, <2>3 DEF Write
    <3>2. job.config \in Configs /\ job.status \in [List -> Statuses]
      BY <2>1, <2>3 DEF Writes
    <3> QED BY <2>1, <3>1, <3>2 DEF Held
  <2>4. CASE job.kind = "store"
    <3>1. /\ stored' = [stored EXCEPT ![job.list] = IF ok THEN job.version ELSE @]
          /\ events' = Append(events, [kind |-> "stored", list |-> job.list, ok |-> ok])
          /\ UNCHANGED disk
      BY <1>12, <2>4 DEF Write
    <3>2. job.list \in List /\ job.version \in Version
      BY <2>1, <2>4 DEF Writes
    <3>3. [kind |-> "stored", list |-> job.list, ok |-> ok] \in Events
      BY <3>2 DEF Events
    <3> QED BY <2>1, <3>1, <3>2, <3>3 DEF Held
  <2> QED BY <2>1, <2>2, <2>3, <2>4 DEF Writes
<1>13. ASSUME TakeFetched PROVE Held'
  <2> DEFINE e == Head(events)
             st == [status EXCEPT ![e.list] = IF e.version = None THEN "failed"
                                              ELSE "validating"]
  <2>1. NextEvent("reply") /\ e \in Events /\ e.kind = "reply" /\ events' \in Seq(Events)
    BY <1>13, TakenKeeps DEF TakeFetched, Held
  <2>2. e.list \in List /\ e.version \in Version \cup {None}
    BY <2>1 DEF Events, Results
  <2>3. UNCHANGED <<config, pending, dropped, generation, asked, rulesPending, runtime, fetching,
                    disk, stored, asks, starts>>
    BY <1>13 DEF TakeFetched
  <2>4. CASE e.list \notin config.known
    <3>1. UNCHANGED <<status, active, lane, writer>>
      BY <1>13, <2>4 DEF TakeFetched
    <3> QED BY <2>1, <2>3, <3>1 DEF Held
  <2>5. CASE e.list \in config.known
    <3>1. status' = st /\ writer' = Saved(writer, config, st)
      BY <1>13, <2>5 DEF TakeFetched
    <3>2. st \in [List -> Statuses]
      BY <2>2 DEF Held, Statuses
    <3>3. writer' \in Seq(Writes)
      BY <3>1, <3>2, SavedKeeps DEF Held
    <3> HIDE DEF st
    <3>4. CASE e.version = None
      <4>1. UNCHANGED <<active, lane>>
        BY <1>13, <2>5, <3>4 DEF TakeFetched
      <4> QED BY <2>1, <2>3, <3>1, <3>2, <3>3, <4>1 DEF Held
    <3>5. CASE e.version # None
      <4> DEFINE job == [kind |-> "check", list |-> e.list, version |-> e.version]
      <4>1. active' = active + 1 /\ Push("refresher", job)
        BY <1>13, <2>5, <3>5 DEF TakeFetched
      <4>2. job \in Jobs
        BY <2>2, <3>5 DEF Jobs, CheckJobs
      <4> HIDE DEF job
      <4>3. lane' \in [Lanes -> Seq(Jobs)]
        BY <4>1, <4>2, PushKeeps DEF Held, Lanes
      <4> QED BY <2>1, <2>3, <3>1, <3>2, <3>3, <4>1, <4>3 DEF Held
    <3> QED BY <3>4, <3>5
  <2> QED BY <2>4, <2>5
<1>14. ASSUME TakeChecked PROVE Held'
  <2> DEFINE e == Head(events)
  <2>1. NextEvent("checked") /\ e \in Events /\ e.kind = "checked" /\ events' \in Seq(Events)
    BY <1>14, TakenKeeps DEF TakeChecked, Held
  <2>2. e.list \in List /\ e.version \in Version
    BY <2>1 DEF Events, Results
  <2>3. UNCHANGED <<config, dropped, rulesPending, runtime, fetching, disk, stored, asks, starts>>
    BY <1>14 DEF TakeChecked
  <2>4. CASE e.usable
    <3>1. /\ writer' = Append(writer, [kind |-> "store", list |-> e.list,
                                       version |-> e.version])
          /\ UNCHANGED <<status, pending, generation, asked, active, lane>>
      BY <1>14, <2>4 DEF TakeChecked
    <3>2. [kind |-> "store", list |-> e.list, version |-> e.version] \in Writes
      BY <2>2 DEF Writes
    <3> QED BY <2>1, <2>3, <3>1, <3>2 DEF Held
  <2>5. CASE ~e.usable
    <3>1. Settle(e.list, FALSE, FALSE, writer)
      BY <1>14, <2>5 DEF TakeChecked
    <3> QED BY <2>1, <2>2, <2>3, <3>1, SettleKeeps DEF Held
  <2> QED BY <2>4, <2>5
<1>15. ASSUME TakeStored PROVE Held'
  <2> DEFINE e == Head(events)
  <2>1. NextEvent("stored") /\ e \in Events /\ e.kind = "stored" /\ events' \in Seq(Events)
    BY <1>15, TakenKeeps DEF TakeStored, Held
  <2>2. e.list \in List /\ e.ok \in BOOLEAN
    BY <2>1 DEF Events, Results
  <2>3. /\ Settle(e.list, TRUE, e.ok, writer)
        /\ UNCHANGED <<config, dropped, rulesPending, runtime, fetching, disk, stored, asks,
                       starts>>
    BY <1>15 DEF TakeStored
  <2> QED BY <2>1, <2>2, <2>3, SettleKeeps, ZenonT(60) DEF Held
<1>16. ASSUME TakeCompiled PROVE Held'
  <2> DEFINE e == Head(events)
  <2>1. NextEvent("compiled") /\ e \in Events /\ e.kind = "compiled" /\ events' \in Seq(Events)
    BY <1>16, TakenKeeps DEF TakeCompiled, Held
  <2>2. e.generation \in Nat /\ e.matcher \in Matchers
    BY <2>1 DEF Events, Results
  <2>3. /\ active' = active - 1
        /\ UNCHANGED <<config, dropped, generation, asked, lane, fetching, disk, stored, asks,
                       starts>>
    BY <1>16 DEF TakeCompiled
  <2>4. CASE e.generation = generation
    <3>1. Land(e.matcher)
      BY <1>16, <2>4 DEF TakeCompiled
    <3>2. /\ status' \in [List -> Statuses] /\ pending' = {} /\ rulesPending' = FALSE
          /\ runtime' \in [matcher : Matchers, off : BOOLEAN] /\ writer' \in Seq(Writes)
      BY <2>2, <3>1, LandKeeps
    <3>3. active' \in Int
      BY <2>3 DEF Held
    <3> QED BY <2>1, <2>3, <3>2, <3>3 DEF Held
  <2>5. CASE e.generation # generation
    <3>1. UNCHANGED <<status, pending, rulesPending, runtime, writer>>
      BY <1>16, <2>5 DEF TakeCompiled
    <3> QED BY <2>1, <2>3, <3>1 DEF Held
  <2> QED BY <2>4, <2>5
<1>17. ASSUME Crash PROVE Held'
  BY <1>17, StartKeeps DEF Crash, Held
<1>18. ASSUME Quit PROVE Held'
  BY <1>18, QuitFrom, StartKeeps
<1>19. CASE UNCHANGED vars
  BY <1>19 DEF Held, vars
<1> QED BY <1>1, <1>2, <1>3, <1>4, <1>5, <1>6, <1>7, <1>8, <1>9, <1>10, <1>11, <1>12, <1>13,
           <1>14, <1>15, <1>16, <1>17, <1>18, <1>19
        DEF Next, Reader, Network, Threads, Interface

-----------------------------------------------------------------------------
(* compiling() counts exactly what is under way                            *)

\* The counts are numbers.
LEMMA CountsAreNumbers ==
  ASSUME Held
  PROVE  /\ Under(lane["compiler"]) \in Nat /\ Under(lane["refresher"]) \in Nat
         /\ Under(writer) \in Nat /\ Under(events) \in Nat
         /\ active \in Int
<1>1. lane["compiler"] \in Seq(Jobs) /\ lane["refresher"] \in Seq(Jobs)
  BY DEF Held, Lanes
<1> QED BY <1>1, UnderNat DEF Held

\* A change of the reader's adds one compile and counts one.
LEMMA ChangedCounts ==
  ASSUME Held, NEW c \in Configs, NEW n \in Nat, Changed(c, n)
  PROVE  /\ Under(lane'["compiler"]) = Under(lane["compiler"]) + 1
         /\ lane'["refresher"] = lane["refresher"]
         /\ active' = active + 1
<1>1. Recompile("compiler", c) /\ active' = active + 1
  BY DEF Changed
<1>2. lane["compiler"] \in Seq(Jobs)
  BY DEF Held, Lanes
<1>3. Work(CompileJob(generation + 1, c)) = 1
  BY DEF Work, Counted, Uncounted, CompileJob
<1>4. /\ CompileJob(generation + 1, c) \in Jobs
      /\ lane'["compiler"] = Append(lane["compiler"], CompileJob(generation + 1, c))
      /\ lane'["refresher"] = lane["refresher"]
  BY <1>1, RecompileKeeps DEF Lanes
<1>5. Under(lane'["compiler"]) = Under(lane["compiler"]) + 1
  BY <1>2, <1>3, <1>4, UnderAppend
<1> QED BY <1>1, <1>4, <1>5

\* A list settled is one check less, or a compile instead of it.
LEMMA SettleCounts ==
  ASSUME Held, NEW l \in List, NEW usable \in BOOLEAN, NEW isStored \in BOOLEAN,
         NEW queue \in Seq(Writes), Settle(l, usable, isStored, queue)
  PROVE  /\ lane'["compiler"] = lane["compiler"]
         /\ Under(writer') = Under(queue)
         /\ \/ active' = active - 1 /\ Under(lane'["refresher"]) = Under(lane["refresher"])
            \/ active' = active /\ Under(lane'["refresher"]) = Under(lane["refresher"]) + 1
<1> DEFINE compiles == isStored /\ l \in config.on
           st == [status EXCEPT ![l] = IF ~usable \/ ~isStored THEN "failed"
                                       ELSE IF compiles THEN "compiling" ELSE "current"]
<1>1. st \in [List -> Statuses]
  BY DEF Held, Statuses
<1>2. CASE l \notin config.known
  BY <1>2 DEF Settle
<1>3. CASE l \in config.known
  <2>1. writer' = Saved(queue, config, st)
    BY <1>3 DEF Settle
  <2> HIDE DEF st
  <2>2. Under(writer') = Under(queue)
    BY <1>1, <2>1, UnderSaved DEF Held
  <2>3. CASE compiles
    <3>1. Recompile("refresher", config) /\ UNCHANGED active
      BY <1>3, <2>3 DEF Settle
    <3>2. lane["refresher"] \in Seq(Jobs) /\ config \in Configs
      BY DEF Held, Lanes
    <3>3. Work(CompileJob(generation + 1, config)) = 1
      BY DEF Work, Counted, Uncounted, CompileJob
    <3> QED BY <2>2, <3>1, <3>2, <3>3, RecompileKeeps, UnderAppend, ZenonT(60) DEF Lanes
  <2>4. CASE ~compiles
    <3>1. active' = active - 1 /\ UNCHANGED lane
      BY <1>3, <2>4 DEF Settle
    <3> QED BY <2>2, <3>1
  <2> QED BY <2>3, <2>4
<1> QED BY <1>2, <1>3

\* An event that is taken was counted, if it was work.
LEMMA TakenCounts ==
  ASSUME Held, NEW kind, NextEvent(kind)
  PROVE  Under(events') = Under(events) - (IF kind = "reply" THEN 0 ELSE 1)
<1>1. events \in Seq(Events) /\ events # << >> /\ events' = Tail(events)
      /\ Head(events) \in Events /\ Head(events).kind = kind
  BY TakenKeeps DEF Held
<1>2. kind \in {"reply", "checked", "stored", "compiled"}
  BY <1>1 DEF Events, Results
<1>3. Work(Head(events)) = IF kind = "reply" THEN 0 ELSE 1
  BY <1>1, <1>2 DEF Work, Counted, Uncounted
<1> QED BY <1>1, <1>3, UnderTail

\* At the start of a session there is its first compile.
LEMMA StartCounts ==
  ASSUME NEW c \in Configs
  PROVE  Under(FirstLanes(c)["compiler"]) = 1 /\ Under(FirstLanes(c)["refresher"]) = 0
         /\ Under(<< >>) = 0
<1>1. FirstLanes(c)["compiler"] = <<CompileJob(1, c)>> /\ FirstLanes(c)["refresher"] = << >>
  BY DEF FirstLanes, Lanes
<1>2. CountedAt(<< >>) = {}
  BY DEF CountedAt
<1>3. CountedAt(<<CompileJob(1, c)>>) = {1}
  BY DEF CountedAt, CompileJob, Uncounted
<1> QED BY <1>1, <1>2, <1>3, FS_EmptySet, FS_Singleton DEF Under

\* The first compile of a session is counted.
LEMMA InitShown == Init => CompilingIsShown
<1> SUFFICES ASSUME Init PROVE CompilingIsShown
  OBVIOUS
<1>1. PICK c \in Configs : lane = FirstLanes(c)
  BY DEF Init
<1>2. writer = << >> /\ events = << >> /\ active = 1
  BY DEF Init
<1> QED BY <1>1, <1>2, StartCounts DEF CompilingIsShown

\* Every step keeps m_activeCompilations equal to the work under way.
LEMMA NextShown ==
  ASSUME Held, CompilingIsShown, [Next]_vars
  PROVE  CompilingIsShown'
<1> USE DEF memory, threads
<1>0. /\ Under(lane["compiler"]) \in Nat /\ Under(lane["refresher"]) \in Nat
      /\ Under(writer) \in Nat /\ Under(events) \in Nat /\ active \in Int
      /\ writer \in Seq(Writes) /\ events \in Seq(Events)
      /\ lane["compiler"] \in Seq(Jobs) /\ lane["refresher"] \in Seq(Jobs)
  BY CountsAreNumbers DEF Held, Lanes
<1>s. ASSUME NEW queue \in Seq(Writes), NEW c \in Configs, NEW st \in [List -> Statuses]
      PROVE  Under(Saved(queue, c, st)) = Under(queue)
  BY UnderSaved
<1>1. ASSUME NEW r \in Rules, SetUserRules(r) PROVE CompilingIsShown'
  <2> DEFINE c == [config EXCEPT !.rules = r]
  <2>1. c \in Configs /\ status \in [List -> Statuses]
    BY DEF Held, Configs
  <2>2. writer' = Saved(writer, c, status) /\ Changed(c, 0) /\ UNCHANGED events
    BY <1>1 DEF SetUserRules
  <2> HIDE DEF c
  <2>3. /\ Under(lane'["compiler"]) = Under(lane["compiler"]) + 1
        /\ lane'["refresher"] = lane["refresher"] /\ active' = active + 1
    BY <2>1, <2>2, ChangedCounts
  <2>4. Under(writer') = Under(writer)
    BY <1>0, <1>s, <2>1, <2>2
  <2> QED BY <1>0, <2>2, <2>3, <2>4 DEF CompilingIsShown
<1>2. ASSUME NEW l \in List, NEW enabled \in BOOLEAN, SetEnabled(l, enabled)
      PROVE  CompilingIsShown'
  <2> DEFINE c == [config EXCEPT !.on = IF enabled THEN @ \cup {l} ELSE @ \ {l}]
  <2>1. c \in Configs /\ status \in [List -> Statuses]
    BY <1>2 DEF Held, Configs, SetEnabled
  <2>2. writer' = Saved(writer, c, status) /\ Changed(c, 0) /\ UNCHANGED events
    BY <1>2 DEF SetEnabled
  <2> HIDE DEF c
  <2>3. /\ Under(lane'["compiler"]) = Under(lane["compiler"]) + 1
        /\ lane'["refresher"] = lane["refresher"] /\ active' = active + 1
    BY <2>1, <2>2, ChangedCounts
  <2>4. Under(writer') = Under(writer)
    BY <1>0, <1>s, <2>1, <2>2
  <2> QED BY <1>0, <2>2, <2>3, <2>4 DEF CompilingIsShown
<1>3. ASSUME NEW off \in BOOLEAN, SetSite(off) PROVE CompilingIsShown'
  <2> DEFINE c == [config EXCEPT !.off = off]
  <2>1. c \in Configs /\ status \in [List -> Statuses]
    BY DEF Held, Configs
  <2>2. writer' = Saved(writer, c, status) /\ UNCHANGED <<active, lane, events>>
    BY <1>3 DEF SetSite
  <2> HIDE DEF c
  <2> QED BY <1>0, <1>s, <2>1, <2>2 DEF CompilingIsShown
<1>4. ASSUME NEW l \in List, Update(l) PROVE CompilingIsShown'
  BY <1>4 DEF Update, CompilingIsShown
<1>5. ASSUME NEW l \in List, Subscribe(l) PROVE CompilingIsShown'
  <2> DEFINE c == [config EXCEPT !.known = @ \cup {l}, !.on = @ \cup {l}]
             st == [status EXCEPT ![l] = "none"]
  <2>1. c \in Configs /\ st \in [List -> Statuses]
    BY DEF Held, Configs, Statuses
  <2>2. writer' = Saved(writer, c, st) /\ UNCHANGED <<active, lane, events>>
    BY <1>5 DEF Subscribe
  <2> HIDE DEF c, st
  <2> QED BY <1>0, <1>s, <2>1, <2>2 DEF CompilingIsShown
<1>6. ASSUME RestoreDefaults PROVE CompilingIsShown'
  <2> DEFINE back == Seeded \ config.known
             c == [config EXCEPT !.known = @ \cup back, !.on = @ \cup back]
             st == [l \in List |-> IF l \in back THEN "none" ELSE status[l]]
  <2>1. c \in Configs /\ st \in [List -> Statuses]
    BY BlockingAssumption DEF Held, Configs, Statuses
  <2>2. Cardinality(back) \in Nat
    BY BlockingAssumption, FS_Subset, FS_CardinalityType
  <2>3. writer' = Saved(writer, c, st) /\ UNCHANGED events
    BY <1>6 DEF RestoreDefaults
  <2>4. UNCHANGED <<active, lane>> \/ Changed(c, Cardinality(back))
    BY <1>6 DEF RestoreDefaults
  <2> HIDE DEF c, st, back
  <2>5. Under(writer') = Under(writer)
    BY <1>0, <1>s, <2>1, <2>3
  <2>6. CASE Changed(c, Cardinality(back))
    <3>1. /\ Under(lane'["compiler"]) = Under(lane["compiler"]) + 1
          /\ lane'["refresher"] = lane["refresher"] /\ active' = active + 1
      BY <2>1, <2>2, <2>6, ChangedCounts
    <3> QED BY <1>0, <2>3, <2>5, <3>1 DEF CompilingIsShown
  <2> QED BY <1>0, <2>3, <2>4, <2>5, <2>6 DEF CompilingIsShown
<1>7. ASSUME NEW known \in SUBSET List, NEW on \in SUBSET known, ApplySync(known, on)
      PROVE  CompilingIsShown'
  <2> DEFINE c == [disk.config EXCEPT !.known = known, !.on = on]
  <2>1. c \in Configs
    BY DEF Held, Configs
  <2>2. Cardinality(on) \in Nat
    BY BlockingAssumption, FS_Subset, FS_CardinalityType
  <2>3. UNCHANGED <<writer, events>>
    BY <1>7 DEF ApplySync
  <2>4. UNCHANGED <<active, lane>> \/ Changed(c, Cardinality(on))
    BY <1>7 DEF ApplySync
  <2> HIDE DEF c
  <2> QED BY <1>0, <2>1, <2>2, <2>3, <2>4, ChangedCounts, SMTT(30) DEF CompilingIsShown
<1>8. ASSUME NEW l \in List, NEW v \in Version \cup {None}, Reply(l, v) PROVE CompilingIsShown'
  <2> DEFINE e == [kind |-> "reply", list |-> l, version |-> v]
  <2>1. e \in Events /\ Work(e) = 0
    BY DEF Events, Work, Counted, Uncounted
  <2>2. events' = Append(events, e) /\ UNCHANGED <<active, lane, writer>>
    BY <1>8 DEF Reply
  <2> HIDE DEF e
  <2> QED BY <1>0, <2>1, <2>2, UnderAppend DEF CompilingIsShown
<1>9. ASSUME Check PROVE CompilingIsShown'
  <2> DEFINE job == Head(lane["refresher"])
             e == [kind |-> "checked", list |-> job.list, version |-> job.version,
                   usable |-> job.version \notin Unusable]
  <2>1. lane["refresher"] # << >> /\ job.kind = "check"
        /\ lane' = [lane EXCEPT !["refresher"] = Tail(@)] /\ events' = Append(events, e)
        /\ UNCHANGED <<active, writer>>
    BY <1>9 DEF Check
  <2>2. e.kind = "checked" /\ Work(e) = 1 /\ Work(job) = 1
    BY <2>1 DEF Work, Counted, Uncounted
  <2>3. lane'["refresher"] = Tail(lane["refresher"]) /\ lane'["compiler"] = lane["compiler"]
    BY <2>1 DEF Held, Lanes
  <2>4. Under(lane'["refresher"]) = Under(lane["refresher"]) - 1
    BY <1>0, <2>1, <2>2, <2>3, UnderTail
  <2> HIDE DEF e, job
  <2>5. events \in Seq(Events \cup {e})
    BY <1>0
  <2>6. Under(events') = Under(events) + 1
    BY <2>1, <2>2, <2>5, UnderAppend
  <2> QED BY <1>0, <2>1, <2>3, <2>4, <2>6 DEF CompilingIsShown
<1>10. ASSUME NEW x \in Lanes, BeginCompile(x) PROVE CompilingIsShown'
  <2>1. PICK m :
          lane' = [lane EXCEPT ![x] = <<[kind |-> "made", generation |-> Head(lane[x]).generation,
                                         matcher |-> m]>> \o Tail(@)]
    BY <1>10 DEF BeginCompile
  <2> DEFINE e == [kind |-> "made", generation |-> Head(lane[x]).generation, matcher |-> m]
  <2>2. lane[x] \in Seq(Jobs) /\ lane[x] # << >> /\ Head(lane[x]).kind = "compile"
        /\ UNCHANGED <<active, writer, events>>
    BY <1>10 DEF BeginCompile, Held
  <2>3. Counted(e) /\ Counted(Head(lane[x]))
    BY <2>2 DEF Counted, Uncounted
  <2> HIDE DEF e
  <2>4. lane'[x] = <<e>> \o Tail(lane[x]) /\ \A y \in Lanes \ {x} : lane'[y] = lane[y]
    BY <2>1 DEF Held, e
  <2>5. lane[x] \in Seq(Jobs \cup {e})
    BY <2>2
  <2>6. Under(lane'[x]) = Under(lane[x])
    BY <2>2, <2>3, <2>4, <2>5, UnderBegun
  <2> QED BY <1>0, <2>2, <2>4, <2>6 DEF CompilingIsShown, Lanes
<1>11. ASSUME NEW x \in Lanes, EndCompile(x) PROVE CompilingIsShown'
  <2> DEFINE e == [Head(lane[x]) EXCEPT !.kind = "compiled"]
  <2>1. lane[x] \in Seq(Jobs) /\ lane[x] # << >> /\ Head(lane[x]) \in Jobs
        /\ Head(lane[x]).kind = "made"
        /\ lane' = [lane EXCEPT ![x] = Tail(@)] /\ events' = Append(events, e)
        /\ UNCHANGED <<active, writer>>
    BY <1>11 DEF EndCompile, Held
  <2>2. Head(lane[x]) \in Results("made")
    BY <2>1 DEF Jobs, Results, CheckJobs
  <2>3. e \in Events /\ Work(e) = 1 /\ Work(Head(lane[x])) = 1
    BY <2>1, <2>2 DEF Results, Events, Work, Counted, Uncounted
  <2> HIDE DEF e
  <2>4. lane'[x] = Tail(lane[x]) /\ \A y \in Lanes \ {x} : lane'[y] = lane[y]
    BY <2>1 DEF Held
  <2>5. Under(lane'[x]) = Under(lane[x]) - 1 /\ Under(events') = Under(events) + 1
    BY <1>0, <2>1, <2>3, <2>4, UnderTail, UnderAppend
  <2>6. CASE x = "compiler"
    <3>1. lane'["refresher"] = lane["refresher"]
      BY <2>4, <2>6 DEF Lanes
    <3> QED BY <1>0, <2>1, <2>5, <2>6, <3>1 DEF CompilingIsShown
  <2>7. CASE x = "refresher"
    <3>1. lane'["compiler"] = lane["compiler"]
      BY <2>4, <2>7 DEF Lanes
    <3> QED BY <1>0, <2>1, <2>5, <2>7, <3>1 DEF CompilingIsShown
  <2> QED BY <2>6, <2>7 DEF Lanes
<1>12. ASSUME NEW ok \in BOOLEAN, Write(ok) PROVE CompilingIsShown'
  <2> DEFINE job == Head(writer)
  <2>1. writer # << >> /\ job \in Writes /\ writer' = Tail(writer) /\ UNCHANGED <<active, lane>>
    BY <1>12 DEF Write, Held
  <2>2. CASE job.kind = "store"
    <3> DEFINE e == [kind |-> "stored", list |-> job.list, ok |-> ok]
    <3>1. events' = Append(events, e)
      BY <1>12, <2>2 DEF Write
    <3>2. job.list \in List
      BY <2>1, <2>2 DEF Writes
    <3>3. e \in Events
      BY <3>2 DEF Events
    <3>4. Work(e) = 1 /\ Work(job) = 1
      BY <2>2 DEF Work, Counted, Uncounted
    <3> HIDE DEF e
    <3> QED BY <1>0, <2>1, <3>1, <3>3, <3>4, UnderTail, UnderAppend DEF CompilingIsShown
  <2>3. CASE job.kind \in {"save", "skipped"}
    <3>1. UNCHANGED events
      BY <1>12, <2>3 DEF Write
    <3>2. Work(job) = 0
      BY <2>3 DEF Work, Counted, Uncounted
    <3> QED BY <1>0, <2>1, <3>1, <3>2, UnderTail DEF CompilingIsShown
  <2> QED BY <2>1, <2>2, <2>3 DEF Writes
<1>13. ASSUME TakeFetched PROVE CompilingIsShown'
  <2> DEFINE e == Head(events)
             st == [status EXCEPT ![e.list] = IF e.version = None THEN "failed"
                                              ELSE "validating"]
  <2>1. NextEvent("reply") /\ e \in Events /\ e.kind = "reply" /\ Under(events') = Under(events)
    <3>1. NextEvent("reply")
      BY <1>13 DEF TakeFetched
    <3>2. e \in Events /\ e.kind = "reply"
      BY <1>0, <3>1, TakenKeeps
    <3>3. Under(events') = Under(events) - (IF "reply" = "reply" THEN 0 ELSE 1)
      BY <3>1, TakenCounts
    <3> QED BY <1>0, <3>1, <3>2, <3>3
  <2>2. e.list \in List /\ e.version \in Version \cup {None} /\ st \in [List -> Statuses]
    BY <2>1 DEF Events, Results, Held, Statuses
  <2>3. CASE e.list \notin config.known
    <3>1. UNCHANGED <<active, lane, writer>>
      BY <1>13, <2>3 DEF TakeFetched
    <3> QED BY <2>1, <3>1 DEF CompilingIsShown
  <2>4. CASE e.list \in config.known
    <3>1. writer' = Saved(writer, config, st)
      BY <1>13, <2>4 DEF TakeFetched
    <3> HIDE DEF st
    <3>2. Under(writer') = Under(writer)
      BY <1>0, <1>s, <2>2, <3>1 DEF Held
    <3>3. CASE e.version = None
      <4>1. UNCHANGED <<active, lane>>
        BY <1>13, <2>4, <3>3 DEF TakeFetched
      <4> QED BY <2>1, <3>2, <4>1 DEF CompilingIsShown
    <3>4. CASE e.version # None
      <4> DEFINE job == [kind |-> "check", list |-> e.list, version |-> e.version]
      <4>1. active' = active + 1 /\ Push("refresher", job)
        BY <1>13, <2>4, <3>4 DEF TakeFetched
      <4>2. job \in Jobs /\ Work(job) = 1
        BY <2>2, <3>4 DEF Jobs, CheckJobs, Work, Counted, Uncounted
      <4> HIDE DEF job
      <4>3. lane'["refresher"] = Append(lane["refresher"], job)
            /\ lane'["compiler"] = lane["compiler"]
        BY <4>1, <4>2, PushKeeps DEF Held, Lanes
      <4>4. Under(lane'["refresher"]) = Under(lane["refresher"]) + 1
        BY <1>0, <4>2, <4>3, UnderAppend
      <4> QED BY <1>0, <2>1, <3>2, <4>1, <4>3, <4>4 DEF CompilingIsShown
    <3> QED BY <3>3, <3>4
  <2> QED BY <2>3, <2>4
<1>14. ASSUME TakeChecked PROVE CompilingIsShown'
  <2> DEFINE e == Head(events)
  <2>1. NextEvent("checked") /\ e \in Events /\ e.kind = "checked" /\ Under(events') = Under(events) - 1
    <3>1. NextEvent("checked")
      BY <1>14 DEF TakeChecked
    <3>2. e \in Events /\ e.kind = "checked"
      BY <1>0, <3>1, TakenKeeps
    <3>3. Under(events') = Under(events) - (IF "checked" = "reply" THEN 0 ELSE 1)
      BY <3>1, TakenCounts
    <3> QED BY <1>0, <3>1, <3>2, <3>3
  <2>2. e.list \in List /\ e.version \in Version
    BY <2>1 DEF Events, Results
  <2>3. CASE e.usable
    <3> DEFINE job == [kind |-> "store", list |-> e.list, version |-> e.version]
    <3>1. writer' = Append(writer, job) /\ UNCHANGED <<active, lane>>
      BY <1>14, <2>3 DEF TakeChecked
    <3>2. job \in Writes /\ Work(job) = 1
      BY <2>2 DEF Writes, Work, Counted, Uncounted
    <3> HIDE DEF job
    <3> QED BY <1>0, <2>1, <3>1, <3>2, UnderAppend DEF CompilingIsShown
  <2>4. CASE ~e.usable
    <3>1. Settle(e.list, FALSE, FALSE, writer)
      BY <1>14, <2>4 DEF TakeChecked
    <3>2. /\ lane'["compiler"] = lane["compiler"] /\ Under(writer') = Under(writer)
          /\ \/ active' = active - 1 /\ Under(lane'["refresher"]) = Under(lane["refresher"])
             \/ active' = active /\ Under(lane'["refresher"]) = Under(lane["refresher"]) + 1
      BY <1>0, <2>2, <3>1, SettleCounts
    <3> QED BY <1>0, <2>1, <3>2, SMTT(30) DEF CompilingIsShown
  <2> QED BY <2>3, <2>4
<1>15. ASSUME TakeStored PROVE CompilingIsShown'
  <2> DEFINE e == Head(events)
  <2>1. NextEvent("stored") /\ e \in Events /\ e.kind = "stored" /\ Under(events') = Under(events) - 1
    <3>1. NextEvent("stored")
      BY <1>15 DEF TakeStored
    <3>2. e \in Events /\ e.kind = "stored"
      BY <1>0, <3>1, TakenKeeps
    <3>3. Under(events') = Under(events) - (IF "stored" = "reply" THEN 0 ELSE 1)
      BY <3>1, TakenCounts
    <3> QED BY <1>0, <3>1, <3>2, <3>3
  <2>2. e.list \in List /\ e.ok \in BOOLEAN
    BY <2>1 DEF Events, Results
  <2>3. Settle(e.list, TRUE, e.ok, writer)
    BY <1>15 DEF TakeStored
  <2>4. /\ lane'["compiler"] = lane["compiler"] /\ Under(writer') = Under(writer)
        /\ \/ active' = active - 1 /\ Under(lane'["refresher"]) = Under(lane["refresher"])
           \/ active' = active /\ Under(lane'["refresher"]) = Under(lane["refresher"]) + 1
    BY <1>0, <2>2, <2>3, SettleCounts
  <2> QED BY <1>0, <2>1, <2>4, SMTT(30) DEF CompilingIsShown
<1>16. ASSUME TakeCompiled PROVE CompilingIsShown'
  <2> DEFINE e == Head(events)
  <2>0. active' = active - 1 /\ UNCHANGED lane
    BY <1>16 DEF TakeCompiled
  <2>1. NextEvent("compiled") /\ e \in Events /\ e.kind = "compiled" /\ Under(events') = Under(events) - 1
        /\ active' = active - 1 /\ UNCHANGED lane
    <3>1. NextEvent("compiled")
      BY <1>16 DEF TakeCompiled
    <3>2. e \in Events /\ e.kind = "compiled"
      BY <1>0, <3>1, TakenKeeps
    <3>3. Under(events') = Under(events) - (IF "compiled" = "reply" THEN 0 ELSE 1)
      BY <3>1, TakenCounts
    <3> QED BY <1>0, <2>0, <3>1, <3>2, <3>3
  <2>2. e.matcher \in Matchers
    BY <2>1 DEF Events, Results
  <2>3. Under(writer') = Under(writer)
    <3>1. CASE Land(e.matcher)
      <4>1. writer' = Saved(writer, config, status') /\ status' \in [List -> Statuses]
        BY <2>2, <3>1, LandKeeps DEF Land
      <4> QED BY <1>0, <1>s, <4>1 DEF Held
    <3>2. CASE UNCHANGED writer
      BY <3>2
    <3> QED BY <1>16, <3>1, <3>2 DEF TakeCompiled
  <2> QED BY <1>0, <2>1, <2>3 DEF CompilingIsShown
<1>17. ASSUME NEW d, NEW files, d.config \in Configs, Start(d, files) PROVE CompilingIsShown'
  <2>1. lane' = FirstLanes(d.config) /\ writer' = << >> /\ events' = << >> /\ active' = 1
    BY <1>17 DEF Start
  <2> QED BY <1>17, <2>1, StartCounts DEF CompilingIsShown
<1>18. ASSUME Crash PROVE CompilingIsShown'
  BY <1>17, <1>18 DEF Crash, Held
<1>19. ASSUME Quit PROVE CompilingIsShown'
  <2>1. PICK d, files : Start(d, files) /\ d.config \in Configs
    BY <1>19, QuitFrom
  <2> QED BY <1>17, <2>1
<1>20. CASE UNCHANGED vars
  BY <1>20 DEF CompilingIsShown, vars
<1> QED BY <1>1, <1>2, <1>3, <1>4, <1>5, <1>6, <1>7, <1>8, <1>9, <1>10, <1>11, <1>12, <1>13,
           <1>14, <1>15, <1>16, <1>18, <1>19, <1>20
        DEF Next, Reader, Network, Threads, Interface

\* What the rest of the module rests on.
Counts == Held /\ CompilingIsShown

\* The types and the count hold of every reachable state.
LEMMA CountsHold == Spec => []Counts
<1>1. Init => Counts
  BY InitHeld, InitShown DEF Counts
<1>2. Counts /\ [Next]_vars => Counts'
  BY NextHeld, NextShown DEF Counts
<1> QED BY <1>1, <1>2, PTL DEF Spec

\* However lists are switched off, taken away by Sync or fail meanwhile, and
\* whenever the program stops, compiling() is true exactly while a check, a store
\* or a compile is under way (m_activeCompilations).
THEOREM CompilingShown == Spec => []CompilingIsShown
<1>1. Counts => CompilingIsShown
  BY DEF Counts
<1> QED BY <1>1, CountsHold, PTL

\* Everything held is of its kind, and m_activeCompilations never counts below
\* zero, which rests on its counting exactly what is under way.
THEOREM TypeCorrect == Spec => []TypeOK
<1>1. Counts => TypeOK
  BY CountsAreNumbers DEF Counts, CompilingIsShown, TypeOK
<1> QED BY <1>1, CountsHold, PTL

-----------------------------------------------------------------------------
(* The rules in force are those last asked for                             *)

\* A result numbered n, as the newest compile is, is of what was last asked for, r.
OfNewest(result, n, r) ==
  /\ result.generation <= n
  /\ result.generation = n /\ result.matcher # NoMatcher => Request(result.matcher) = r

\* So is a compile that has still to begin.
ForNewest(job, n, r) ==
  /\ job.generation <= n
  /\ job.generation = n => job.request = r

Newest ==
  /\ \A x \in Lanes : \A i \in DOMAIN lane[x] :
       /\ lane[x][i].kind = "compile" => ForNewest(lane[x][i], generation, asked)
       /\ lane[x][i].kind = "made" => OfNewest(lane[x][i], generation, asked)
  /\ \A i \in DOMAIN events :
       events[i].kind = "compiled" => OfNewest(events[i], generation, asked)

\* What is taken from the head of a queue leaves the others in it.
LEMMA QueueTail ==
  ASSUME NEW S, NEW queue \in Seq(S), queue # << >>
  PROVE  /\ Tail(queue) \in Seq(S)
         /\ \A i \in DOMAIN Tail(queue) :
              i + 1 \in DOMAIN queue /\ Tail(queue)[i] = queue[i + 1]
         /\ 1 \in DOMAIN queue /\ Head(queue) = queue[1] /\ Head(queue) \in S
OBVIOUS

\* So does what is queued behind them.
LEMMA QueueAppend ==
  ASSUME NEW S, NEW queue \in Seq(S), NEW e \in S
  PROVE  /\ Append(queue, e) \in Seq(S)
         /\ \A i \in DOMAIN Append(queue, e) :
              \/ i \in DOMAIN queue /\ Append(queue, e)[i] = queue[i]
              \/ Append(queue, e)[i] = e
OBVIOUS

\* A compile asked for is newer than all others.
LEMMA RecompileNewest ==
  ASSUME Held, Newest, NEW x \in Lanes, NEW c \in Configs, Recompile(x, c),
         \A i \in DOMAIN events' : \/ events'[i].kind # "compiled"
                                   \/ \E j \in DOMAIN events : events'[i] = events[j]
  PROVE  Newest'
<1> DEFINE job == CompileJob(generation + 1, c)
<1>1. /\ generation' = generation + 1 /\ generation \in Nat /\ asked' = Request(c)
      /\ lane'[x] = Append(lane[x], job) /\ \A y \in Lanes \ {x} : lane'[y] = lane[y]
      /\ lane \in [Lanes -> Seq(Jobs)] /\ events \in Seq(Events) /\ job \in Jobs
      /\ job.kind = "compile" /\ job.generation = generation' /\ job.request = asked'
  BY RecompileKeeps DEF Held, CompileJob
<1> HIDE DEF job
<1>2. ASSUME NEW y \in Lanes, NEW i \in DOMAIN lane'[y]
      PROVE  \/ lane'[y][i] = job
             \/ i \in DOMAIN lane[y] /\ lane'[y][i] = lane[y][i]
  <2>1. CASE y = x
    <3>1. lane[x] \in Seq(Jobs)
      BY <1>1
    <3>2. lane[x] \in Seq(Jobs) /\ job \in Jobs
      BY <1>1, <3>1
    <3>3. \A k \in DOMAIN Append(lane[x], job) :
            \/ k \in DOMAIN lane[x] /\ Append(lane[x], job)[k] = lane[x][k]
            \/ Append(lane[x], job)[k] = job
      BY <3>2, QueueAppend
    <3>4. lane'[x] = Append(lane[x], job)
      BY <1>1
    <3> QED BY <2>1, <3>3, <3>4
  <2>2. CASE y # x
    BY <1>1, <2>2
  <2> QED BY <2>1, <2>2
<1>3. ASSUME NEW y \in Lanes, NEW i \in DOMAIN lane[y]
      PROVE  /\ lane[y][i].kind = "compile" => lane[y][i].generation \in Nat
             /\ lane[y][i].kind = "made" => lane[y][i].generation \in Nat
  <2>1. lane[y][i] \in Jobs
    BY <1>1
  <2> QED BY <2>1 DEF Jobs, CheckJobs, Results
<1>4. ASSUME NEW i \in DOMAIN events, events[i].kind = "compiled"
      PROVE  events[i].generation \in Nat
  <2>1. events[i] \in Events
    BY <1>1
  <2> QED BY <1>4, <2>1 DEF Events, Results
<1>5. ASSUME NEW y \in Lanes, NEW i \in DOMAIN lane'[y]
      PROVE  /\ lane'[y][i].kind = "compile" => ForNewest(lane'[y][i], generation', asked')
             /\ lane'[y][i].kind = "made" => OfNewest(lane'[y][i], generation', asked')
  <2>1. CASE lane'[y][i] = job
    BY <1>1, <2>1 DEF ForNewest
  <2>2. CASE i \in DOMAIN lane[y] /\ lane'[y][i] = lane[y][i]
    <3>1. lane[y][i].kind = "compile" =>
            ForNewest(lane[y][i], generation, asked) /\ lane[y][i].generation \in Nat
      BY <1>3, <2>2 DEF Newest
    <3>2. lane[y][i].kind = "made" =>
            OfNewest(lane[y][i], generation, asked) /\ lane[y][i].generation \in Nat
      BY <1>3, <2>2 DEF Newest
    <3> QED BY <1>1, <2>2, <3>1, <3>2 DEF ForNewest, OfNewest
  <2> QED BY <1>2, <2>1, <2>2
<1>6. ASSUME NEW i \in DOMAIN events', events'[i].kind = "compiled"
      PROVE  OfNewest(events'[i], generation', asked')
  <2>1. PICK j \in DOMAIN events : events'[i] = events[j]
    BY <1>6
  <2>2. OfNewest(events[j], generation, asked) /\ events[j].generation \in Nat
    BY <1>4, <1>6, <2>1 DEF Newest
  <2> QED BY <1>1, <2>1, <2>2 DEF OfNewest
<1> QED BY <1>5, <1>6 DEF Newest

\* Anything else that queues no compile leaves the newest what it was.
LEMMA QueuesNewest ==
  ASSUME Newest, UNCHANGED <<generation, asked>>,
         \A y \in Lanes : \A i \in DOMAIN lane'[y] :
           \/ \E j \in DOMAIN lane[y] : lane'[y][i] = lane[y][j]
           \/ lane'[y][i].kind \notin {"compile", "made"}
           \/ lane'[y][i].kind = "made" /\ OfNewest(lane'[y][i], generation, asked),
         \A i \in DOMAIN events' :
           \/ \E j \in DOMAIN events : events'[i] = events[j]
           \/ events'[i].kind # "compiled"
           \/ OfNewest(events'[i], generation, asked)
  PROVE  Newest'
BY DEF Newest

\* The first compile of a session is of what was asked for.
LEMMA InitNewest == Init => Newest
<1> SUFFICES ASSUME Init PROVE Newest
  OBVIOUS
<1>1. PICK c \in Configs : lane = FirstLanes(c) /\ asked = Request(c)
  BY DEF Init
<1>2. generation = 1 /\ events = << >>
  BY DEF Init
<1> QED BY <1>1, <1>2 DEF Newest, ForNewest, FirstLanes, CompileJob, Lanes

\* So is the first compile after a restart.
LEMMA StartNewest ==
  ASSUME NEW d, NEW files, Start(d, files)
  PROVE  Newest'
BY DEF Start, Newest, ForNewest, FirstLanes, CompileJob, Lanes

\* Every step keeps the newest number with what was last asked for: recompileOn
\* is the only place that moves either, and it moves both.
LEMMA NextNewest ==
  ASSUME Held, Newest, [Next]_vars
  PROVE  Newest'
<1> USE DEF memory, threads
<1>0. /\ events \in Seq(Events) /\ config \in Configs /\ disk.config \in Configs
      /\ lane \in [Lanes -> Seq(Jobs)]
      /\ lane["compiler"] \in Seq(Jobs) /\ lane["refresher"] \in Seq(Jobs)
  BY DEF Held, Lanes
<1>c. ASSUME NEW c \in Configs, NEW n, Changed(c, n), UNCHANGED events PROVE Newest'
  <2>1. Recompile("compiler", c)
    BY <1>c DEF Changed
  <2> QED BY <1>c, <2>1, RecompileNewest DEF Lanes
<1>u. ASSUME UNCHANGED <<lane, events, generation, asked>> PROVE Newest'
  BY <1>u DEF Newest
<1>t. ASSUME NEW kind, NextEvent(kind)
      PROVE  \A i \in DOMAIN events' : \E j \in DOMAIN events : events'[i] = events[j]
  BY <1>0, <1>t, QueueTail DEF NextEvent
<1>s. ASSUME NEW kind, NextEvent(kind), NEW l, NEW usable, NEW isStored, NEW queue,
             Settle(l, usable, isStored, queue)
      PROVE  Newest'
  <2>1. CASE UNCHANGED <<generation, asked, lane>>
    BY <1>s, <1>t, <2>1, QueuesNewest
  <2>2. CASE Recompile("refresher", config)
    BY <1>0, <1>s, <1>t, <2>2, RecompileNewest DEF Lanes
  <2> QED BY <1>s, <2>1, <2>2 DEF Settle
<1>1. ASSUME NEW r \in Rules, SetUserRules(r) PROVE Newest'
  <2>1. [config EXCEPT !.rules = r] \in Configs
    BY DEF Held, Configs
  <2> QED BY <1>1, <1>c, <2>1 DEF SetUserRules
<1>2. ASSUME NEW l \in List, NEW enabled \in BOOLEAN, SetEnabled(l, enabled) PROVE Newest'
  <2>1. [config EXCEPT !.on = IF enabled THEN @ \cup {l} ELSE @ \ {l}] \in Configs
    BY <1>2 DEF Held, Configs, SetEnabled
  <2> QED BY <1>2, <1>c, <2>1 DEF SetEnabled
<1>3. ASSUME NEW off \in BOOLEAN, SetSite(off) PROVE Newest'
  BY <1>3, <1>u DEF SetSite
<1>4. ASSUME NEW l \in List, Update(l) \/ Subscribe(l) PROVE Newest'
  BY <1>4, <1>u DEF Update, Subscribe
<1>5. ASSUME RestoreDefaults PROVE Newest'
  <2> DEFINE back == Seeded \ config.known
             c == [config EXCEPT !.known = @ \cup back, !.on = @ \cup back]
  <2>1. c \in Configs
    BY BlockingAssumption DEF Held, Configs
  <2>2. \/ UNCHANGED <<generation, asked, lane>>
        \/ Changed(c, Cardinality(back))
    BY <1>5 DEF RestoreDefaults
  <2>3. UNCHANGED events
    BY <1>5 DEF RestoreDefaults
  <2> HIDE DEF c, back
  <2> QED BY <1>c, <1>u, <2>1, <2>2, <2>3
<1>6. ASSUME NEW known \in SUBSET List, NEW on \in SUBSET known, ApplySync(known, on)
      PROVE  Newest'
  <2> DEFINE c == [disk.config EXCEPT !.known = known, !.on = on]
  <2>1. c \in Configs
    BY DEF Held, Configs
  <2>2. UNCHANGED events /\ (UNCHANGED <<generation, asked, lane>> \/ Changed(c, Cardinality(on)))
    BY <1>6 DEF ApplySync
  <2> HIDE DEF c
  <2> QED BY <1>c, <1>u, <2>1, <2>2
<1>7. ASSUME NEW l \in List, NEW v \in Version \cup {None}, Reply(l, v) PROVE Newest'
  <2> DEFINE e == [kind |-> "reply", list |-> l, version |-> v]
  <2>1. events' = Append(events, e) /\ UNCHANGED <<generation, asked, lane>> /\ e \in Events
        /\ e.kind # "compiled"
    BY <1>7 DEF Reply, Events
  <2> HIDE DEF e
  <2>2. \A i \in DOMAIN events' : (\E j \in DOMAIN events : events'[i] = events[j]) \/ events'[i] = e
    BY <1>0, <2>1, QueueAppend
  <2> QED BY <2>1, <2>2, QueuesNewest
<1>8. ASSUME Check PROVE Newest'
  <2> DEFINE job == Head(lane["refresher"])
             e == [kind |-> "checked", list |-> job.list, version |-> job.version,
                   usable |-> job.version \notin Unusable]
  <2>1. lane["refresher"] # << >> /\ lane' = [lane EXCEPT !["refresher"] = Tail(@)]
        /\ events' = Append(events, e) /\ UNCHANGED <<generation, asked>> /\ e.kind # "compiled"
    BY <1>8 DEF Check
  <2> HIDE DEF e
  <2>2. \A i \in DOMAIN events' : (\E j \in DOMAIN events : events'[i] = events[j]) \/ events'[i] = e
    <3>1. events \in Seq(Events \cup {e})
      BY <1>0
    <3> QED BY <2>1, <3>1, QueueAppend
  <2>3. \A y \in Lanes : \A i \in DOMAIN lane'[y] : \E j \in DOMAIN lane[y] : lane'[y][i] = lane[y][j]
    <3>1. \A i \in DOMAIN Tail(lane["refresher"]) :
            \E j \in DOMAIN lane["refresher"] : Tail(lane["refresher"])[i] = lane["refresher"][j]
      BY <1>0, <2>1, QueueTail
    <3> QED BY <1>0, <2>1, <3>1
  <2> QED BY <2>1, <2>2, <2>3, QueuesNewest
<1>9. ASSUME NEW x \in Lanes, BeginCompile(x) PROVE Newest'
  <2> DEFINE job == Head(lane[x])
             ls == {l \in job.request.on : stored[l] # None}
             matcher == [rules |-> job.request.rules, on |-> job.request.on,
                         read |-> [l \in ls |-> stored[l]]]
             made == IF job.generation = generation /\ job.request.rules \notin Uncompiled
                     THEN matcher ELSE NoMatcher
             e == [kind |-> "made", generation |-> job.generation, matcher |-> made]
  <2>1. lane[x] \in Seq(Jobs) /\ lane[x] # << >> /\ job.kind = "compile"
        /\ lane' = [lane EXCEPT ![x] = <<e>> \o Tail(@)]
        /\ UNCHANGED <<generation, asked, events>>
    BY <1>0, <1>9 DEF BeginCompile
  <2>2. job \in Jobs /\ job = lane[x][1] /\ 1 \in DOMAIN lane[x]
    BY <2>1, QueueTail
  <2>3. job.generation \in Nat /\ job.request \in Requests
    BY <2>1, <2>2 DEF Jobs, CheckJobs, Results
  <2>4. ForNewest(job, generation, asked)
    BY <2>1, <2>2 DEF Newest
  <2>5. Request(matcher) = job.request
    BY <2>3 DEF Request, Requests
  <2>6. OfNewest(e, generation, asked)
    BY <2>4, <2>5 DEF OfNewest, ForNewest
  <2>7. Counted(e) /\ Counted(job)
    BY <2>1 DEF Counted, Uncounted
  <2>8. e.kind = "made"
    OBVIOUS
  <2> HIDE DEF e
  <2>9. lane'[x] = <<e>> \o Tail(lane[x]) /\ \A y \in Lanes \ {x} : lane'[y] = lane[y]
    BY <1>0, <2>1
  <2>10. /\ Len(lane'[x]) = Len(lane[x]) /\ lane'[x] \in Seq(Jobs \cup {e})
         /\ lane'[x][1] = e /\ \A i \in 2 .. Len(lane[x]) : lane'[x][i] = lane[x][i]
    <3>1. lane[x] \in Seq(Jobs \cup {e})
      BY <2>1
    <3>2. lane[x] # << >> /\ Counted(e) /\ Counted(Head(lane[x])) /\ e \in Jobs \cup {e}
      BY <2>1, <2>7
    <3> HIDE DEF job
    <3>3. /\ <<e>> \o Tail(lane[x]) \in Seq(Jobs \cup {e})
          /\ Len(<<e>> \o Tail(lane[x])) = Len(lane[x])
          /\ (<<e>> \o Tail(lane[x]))[1] = e
          /\ \A i \in 2 .. Len(lane[x]) : (<<e>> \o Tail(lane[x]))[i] = lane[x][i]
      BY <3>1, <3>2, UnderBegun
    <3>4. lane'[x] = <<e>> \o Tail(lane[x])
      BY <2>9
    <3> QED BY <3>3, <3>4
  <2>11. \A i \in DOMAIN lane'[x] : lane'[x][i] = e \/ \E j \in DOMAIN lane[x] : lane'[x][i] = lane[x][j]
    <3>1. DOMAIN lane'[x] = 1 .. Len(lane[x]) /\ DOMAIN lane[x] = 1 .. Len(lane[x])
          /\ Len(lane[x]) \in Nat
      BY <2>1, <2>10
    <3> QED BY <2>10, <3>1
  <2> QED BY <2>1, <2>6, <2>8, <2>9, <2>11, QueuesNewest
<1>10. ASSUME NEW x \in Lanes, EndCompile(x) PROVE Newest'
  <2> DEFINE job == Head(lane[x])
             e == [job EXCEPT !.kind = "compiled"]
  <2>1. lane[x] \in Seq(Jobs) /\ lane[x] # << >> /\ job.kind = "made"
        /\ lane' = [lane EXCEPT ![x] = Tail(@)] /\ events' = Append(events, e)
        /\ UNCHANGED <<generation, asked>>
    BY <1>0, <1>10 DEF EndCompile
  <2>2. job \in Jobs /\ job = lane[x][1] /\ 1 \in DOMAIN lane[x]
        /\ \A i \in DOMAIN Tail(lane[x]) : \E j \in DOMAIN lane[x] : Tail(lane[x])[i] = lane[x][j]
    BY <2>1, QueueTail
  <2>3. job \in Results("made")
    BY <2>1, <2>2 DEF Jobs, CheckJobs, Results
  <2>4. OfNewest(job, generation, asked)
    BY <2>1, <2>2 DEF Newest
  <2>5. e \in Events /\ OfNewest(e, generation, asked)
    BY <2>3, <2>4 DEF Results, Events, OfNewest
  <2> HIDE DEF e
  <2>6. \A i \in DOMAIN events' : (\E j \in DOMAIN events : events'[i] = events[j]) \/ events'[i] = e
    BY <1>0, <2>1, <2>5, QueueAppend
  <2>7. \A y \in Lanes : \A i \in DOMAIN lane'[y] : \E j \in DOMAIN lane[y] : lane'[y][i] = lane[y][j]
    BY <1>0, <2>1, <2>2
  <2> QED BY <2>1, <2>5, <2>6, <2>7, QueuesNewest
<1>11. ASSUME NEW ok \in BOOLEAN, Write(ok) PROVE Newest'
  <2> DEFINE e == [kind |-> "stored", list |-> Head(writer).list, ok |-> ok]
  <2>1. UNCHANGED <<generation, asked, lane>> /\ (UNCHANGED events \/ events' = Append(events, e))
    BY <1>11 DEF Write
  <2>2. e.kind # "compiled"
    OBVIOUS
  <2> HIDE DEF e
  <2>3. \A i \in DOMAIN events' : (\E j \in DOMAIN events : events'[i] = events[j]) \/ events'[i] = e
    <3>1. events \in Seq(Events \cup {e})
      BY <1>0
    <3> QED BY <2>1, <3>1, QueueAppend
  <2> QED BY <2>1, <2>2, <2>3, QueuesNewest
<1>12. ASSUME TakeFetched PROVE Newest'
  <2> DEFINE e == Head(events)
             job == [kind |-> "check", list |-> e.list, version |-> e.version]
  <2>1. NextEvent("reply") /\ UNCHANGED <<generation, asked>>
        /\ (UNCHANGED lane \/ (e.version # None /\ Push("refresher", job)))
    BY <1>12 DEF TakeFetched
  <2>2. job.kind \notin {"compile", "made"}
    OBVIOUS
  <2>3. CASE UNCHANGED lane
    BY <1>t, <2>1, <2>3, QueuesNewest
  <2>4. CASE Push("refresher", job) /\ e.version # None
    <3>1. e \in Events /\ e.kind = "reply"
      BY <1>0, <2>1, TakenKeeps
    <3>2. job \in Jobs
      BY <2>4, <3>1 DEF Events, Results, Jobs, CheckJobs
    <3> HIDE DEF job
    <3>3. lane'["refresher"] = Append(lane["refresher"], job)
          /\ \A y \in Lanes \ {"refresher"} : lane'[y] = lane[y]
      BY <1>0, <2>4, <3>2, PushKeeps DEF Lanes
    <3>4. \A i \in DOMAIN lane'["refresher"] :
            (\E j \in DOMAIN lane["refresher"] : lane'["refresher"][i] = lane["refresher"][j])
            \/ lane'["refresher"][i] = job
      BY <1>0, <3>2, <3>3, QueueAppend
    <3> QED BY <1>t, <2>1, <2>2, <3>3, <3>4, QueuesNewest
  <2> QED BY <2>1, <2>3, <2>4
<1>13. ASSUME TakeChecked PROVE Newest'
  <2>1. NextEvent("checked")
        /\ (UNCHANGED <<generation, asked, lane>> \/ Settle(Head(events).list, FALSE, FALSE, writer))
    BY <1>13 DEF TakeChecked
  <2> QED BY <1>s, <1>t, <2>1, QueuesNewest
<1>14. ASSUME TakeStored PROVE Newest'
  <2>1. NextEvent("stored") /\ Settle(Head(events).list, TRUE, Head(events).ok, writer)
    BY <1>14 DEF TakeStored
  <2> QED BY <1>s, <2>1
<1>15. ASSUME TakeCompiled PROVE Newest'
  <2>1. NextEvent("compiled") /\ UNCHANGED <<generation, asked, lane>>
    BY <1>15 DEF TakeCompiled
  <2> QED BY <1>t, <2>1, QueuesNewest
<1>16. ASSUME Crash \/ Quit PROVE Newest'
  <2>1. \E d, files : Start(d, files)
    BY <1>16, QuitFrom DEF Crash
  <2> QED BY <2>1, StartNewest
<1>17. CASE UNCHANGED vars
  BY <1>17, <1>u DEF vars
<1> QED BY <1>1, <1>2, <1>3, <1>4, <1>5, <1>6, <1>7, <1>8, <1>9, <1>10, <1>11, <1>12, <1>13,
           <1>14, <1>15, <1>16, <1>17
        DEF Next, Reader, Network, Threads, Interface

\* The newest compile is known by its number.
Known == Held /\ Newest

\* The types and the numbering hold of every reachable state.
LEMMA KnownHolds == Spec => []Known
<1>1. Init => Known
  BY InitHeld, InitNewest DEF Known
<1>2. Known /\ [Next]_vars => Known'
  BY NextHeld, NextNewest DEF Known
<1> QED BY <1>1, <1>2, PTL DEF Spec

\* A step that changes what was asked for leaves the rules in force, and a step
\* that changes the rules in force makes them those last asked for.
LEMMA RulesStep ==
  ASSUME Known, Known', [Next]_vars
  PROVE  [RIF!Next]_<<asked, Request(runtime.matcher)>>
<1> USE DEF memory, threads
<1>0. asked \in Requests /\ asked' \in Requests
  BY DEF Known, Held
<1>1. CASE UNCHANGED runtime
  <2>1. Request(runtime.matcher)' = Request(runtime.matcher)
    BY <1>1
  <2> QED BY <1>0, <2>1 DEF RIF!Next, RIF!Want, Requests
<1>2. CASE \E off \in BOOLEAN : SetSite(off)
  <2>1. runtime'.matcher = runtime.matcher /\ asked' = asked
    BY <1>2 DEF SetSite, Known, Held
  <2> QED BY <2>1 DEF Request
<1>3. CASE \E d, files : Start(d, files)
  <2>1. Request(runtime.matcher)' = Request(NoMatcher)
    BY <1>3 DEF Start, NoRuntime
  <2> QED BY <1>0, <2>1 DEF RIF!Next, RIF!Restart, Requests
<1>4. CASE TakeCompiled
  <2> DEFINE e == Head(events)
  <2>1. NextEvent("compiled") /\ UNCHANGED <<generation, asked>>
        /\ (UNCHANGED runtime \/ (e.generation = generation /\ Land(e.matcher)))
    BY <1>4 DEF TakeCompiled
  <2>2. events # << >> /\ e = events[1] /\ 1 \in DOMAIN events /\ e.kind = "compiled"
    BY <2>1, TakenKeeps, QueueTail DEF Known, Held
  <2>3. OfNewest(e, generation, asked)
    BY <2>2 DEF Known, Newest
  <2>4. CASE UNCHANGED runtime
    BY <1>1, <2>4
  <2>5. CASE e.generation = generation /\ Land(e.matcher) /\ e.matcher # NoMatcher
    <3>1. runtime' = [matcher |-> e.matcher, off |-> config.off]
      BY <2>5 DEF Land
    <3>2. Request(runtime.matcher)' = asked
      BY <2>3, <2>5, <3>1 DEF OfNewest, Request
    <3> QED BY <2>1, <3>2 DEF RIF!Next, RIF!Land
  <2>6. CASE Land(e.matcher) /\ e.matcher = NoMatcher
    <3>1. UNCHANGED runtime
      BY <2>6 DEF Land
    <3> QED BY <1>1, <3>1
  <2> QED BY <2>1, <2>4, <2>5, <2>6
<1>5. ASSUME NEW d, NEW files, Start(d, files) PROVE \E a, b : Start(a, b)
  BY <1>5
<1>6. CASE Next
  <2>1. \/ UNCHANGED runtime
        \/ \E off \in BOOLEAN : SetSite(off)
        \/ \E d, files : Start(d, files)
        \/ TakeCompiled
    <3>1. CASE Reader
      BY <3>1 DEF Reader, SetUserRules, SetEnabled, Update, Subscribe, RestoreDefaults, ApplySync
    <3>2. CASE Network
      BY <3>2 DEF Network, Reply
    <3>3. CASE Threads
      BY <3>3 DEF Threads, Check, BeginCompile, EndCompile, Write
    <3>4. CASE Interface
      BY <3>4 DEF Interface, TakeFetched, TakeChecked, TakeStored
    <3>5. CASE Crash \/ Quit
      BY <3>5, QuitFrom DEF Crash, Known
    <3> QED BY <1>6, <3>1, <3>2, <3>3, <3>4, <3>5 DEF Next
  <2> QED BY <1>1, <1>2, <1>3, <1>4, <2>1
<1>7. CASE UNCHANGED vars
  BY <1>1, <1>7 DEF vars
<1> QED BY <1>6, <1>7

\* The blocker implements RulesInForce: whichever thread compiles and in whatever
\* order compiles end, the rules in force change only to those last asked for,
\* and stand until then; a session starts without any.
THEOREM RulesAreThoseAskedFor == Spec => OnlyWhatWasAsked
<1>1. Init => RIF!Init
  <2> SUFFICES ASSUME Init PROVE RIF!Init
    OBVIOUS
  <2>1. asked \in Requests
    BY InitHeld DEF Held
  <2>2. runtime = NoRuntime
    BY DEF Init
  <2> QED BY <2>1, <2>2 DEF RIF!Init, Requests, NoRuntime
<1>2. Known /\ Known' /\ [Next]_vars => [RIF!Next]_<<asked, Request(runtime.matcher)>>
  BY RulesStep
<1>3. Spec => RIF!Spec
  BY <1>1, <1>2, KnownHolds, PTL DEF Spec, RIF!Spec
<1> QED BY <1>3 DEF OnlyWhatWasAsked

-----------------------------------------------------------------------------
(* A list that says it is current is part of what was asked for            *)

\* What CurrentIsAsked rests on: the lists that wait for the newest compile are
\* part of it as well, and none waits that was taken away unnoticed.
Waiting ==
  /\ pending \subseteq config.known \cup dropped
  /\ \A l \in config.on \ dropped :
       status[l] = "current" \/ l \in pending => l \in asked.on

\* A compile of all that is enabled asks for every list that could say so.
LEMMA AskedForAll ==
  ASSUME NEW c \in Configs, config' = c, asked' = Request(c),
         pending' \subseteq c.known \cup dropped'
  PROVE  Waiting'
BY DEF Waiting, Request, Configs

\* A list's status other than "current" asks for nothing.
LEMMA StatusOnly ==
  ASSUME Waiting, UNCHANGED <<pending, dropped, asked>>,
         config'.known = config.known, config'.on = config.on,
         \A l \in config.on : status'[l] = status[l] \/ status'[l] # "current"
  PROVE  Waiting'
BY DEF Waiting

\* A change compiles what the blocker now holds, so that what is current or waits
\* is part of what was last asked for.
LEMMA ChangedWaiting ==
  ASSUME Held, Waiting, NEW c \in Configs, NEW n, Changed(c, n), config' = c,
         pending' = pending, \/ dropped' = dropped /\ config.known \subseteq c.known
                             \/ dropped' = dropped \cup (pending \ c.known)
  PROVE  Waiting'
<1>1. asked' = Request(c)
  BY DEF Changed, Recompile
<1>2. pending' \subseteq c.known \cup dropped'
  BY DEF Waiting
<1> QED BY <1>1, <1>2, AskedForAll

\* A settled list that is on is compiled with everything the blocker holds.
LEMMA SettleWaiting ==
  ASSUME Held, Waiting, UNCHANGED <<config, dropped>>,
         NEW l \in List, NEW usable \in BOOLEAN, NEW isStored \in BOOLEAN,
         NEW queue, Settle(l, usable, isStored, queue)
  PROVE  Waiting'
<1> DEFINE compiles == isStored /\ l \in config.on
           st == [status EXCEPT ![l] = IF ~usable \/ ~isStored THEN "failed"
                                       ELSE IF compiles THEN "compiling" ELSE "current"]
<1>1. CASE l \notin config.known
  BY <1>1, StatusOnly DEF Settle
<1>2. CASE l \in config.known /\ compiles
  <2>1. pending' = pending \cup {l} /\ Recompile("refresher", config)
    BY <1>2 DEF Settle
  <2> QED BY <1>2, <2>1, AskedForAll DEF Recompile, Waiting, Held
<1>3. CASE l \in config.known /\ ~compiles
  <2>1. status' = st /\ UNCHANGED <<pending, asked>>
    BY <1>3 DEF Settle
  <2>2. ASSUME NEW k \in config.on PROVE status'[k] = status[k] \/ status'[k] # "current"
    <3>1. config.on \subseteq List
      BY DEF Held, Configs
    <3> QED BY <1>3, <2>1, <3>1 DEF Held
  <2> QED BY <2>1, <2>2, StatusOnly
<1> QED BY <1>1, <1>2, <1>3

\* What is current when a session begins is part of its first compile.
LEMMA InitWaiting == Init => Waiting
<1> SUFFICES ASSUME Init PROVE Waiting
  OBVIOUS
<1>1. PICK c \in Configs : config = c /\ asked = Request(c)
  BY DEF Init
<1> QED BY <1>1 DEF Init, Waiting, Request, Configs

\* Every step keeps current and waiting lists part of what was last asked for.
LEMMA NextWaiting ==
  ASSUME Held, Waiting, [Next]_vars
  PROVE  Waiting'
<1> USE DEF memory, threads
<1>0. config.on \subseteq config.known /\ config.known \subseteq List /\ events \in Seq(Events)
  BY DEF Held, Configs
<1>u. ASSUME UNCHANGED <<config, status, pending, dropped, asked>> PROVE Waiting'
  BY <1>u DEF Waiting
<1>1. ASSUME NEW r \in Rules, SetUserRules(r) PROVE Waiting'
  <2>1. [config EXCEPT !.rules = r] \in Configs /\ [config EXCEPT !.rules = r].known = config.known
    BY DEF Held, Configs
  <2> QED BY <1>1, <2>1, ChangedWaiting DEF SetUserRules
<1>2. ASSUME NEW l \in List, NEW enabled \in BOOLEAN, SetEnabled(l, enabled) PROVE Waiting'
  <2> DEFINE c == [config EXCEPT !.on = IF enabled THEN @ \cup {l} ELSE @ \ {l}]
  <2>1. c \in Configs /\ c.known = config.known
    BY <1>2 DEF Held, Configs, SetEnabled
  <2>2. config' = c /\ Changed(c, 0) /\ UNCHANGED <<pending, dropped>>
    BY <1>2 DEF SetEnabled
  <2> HIDE DEF c
  <2> QED BY <2>1, <2>2, ChangedWaiting
<1>3. ASSUME NEW off \in BOOLEAN, SetSite(off) PROVE Waiting'
  <2>1. config'.known = config.known /\ config'.on = config.on
        /\ UNCHANGED <<pending, dropped, asked, status>>
    BY <1>3 DEF SetSite, Held, Configs
  <2> QED BY <2>1, StatusOnly
<1>4. ASSUME NEW l \in List, Update(l) PROVE Waiting'
  <2>1. status' = Updating(status, {l}) /\ UNCHANGED <<config, pending, dropped, asked>>
    BY <1>4 DEF Update
  <2>2. \A k \in config.on : status'[k] = status[k] \/ status'[k] # "current"
    BY <1>0, <2>1 DEF Updating
  <2> QED BY <2>1, <2>2, StatusOnly
<1>5. ASSUME NEW l \in List, Subscribe(l) PROVE Waiting'
  <2>1. /\ l \notin config.known /\ UNCHANGED <<pending, dropped, asked>>
        /\ config'.known = config.known \cup {l} /\ config'.on = config.on \cup {l}
        /\ status' = Updating(status, {l})
    BY <1>5 DEF Subscribe, Held, Configs
  <2>2. status'[l] = "updating" /\ \A k \in List \ {l} : status'[k] = status[k]
    BY <2>1 DEF Updating
  <2>3. pending' \subseteq config'.known \cup dropped'
    BY <2>1 DEF Waiting
  <2>4. ASSUME NEW k \in config'.on \ dropped', status'[k] = "current" \/ k \in pending'
        PROVE  k \in asked'.on
    <3>1. k # l
      BY <2>1, <2>2, <2>4 DEF Waiting
    <3> QED BY <1>0, <2>1, <2>2, <2>4, <3>1 DEF Waiting
  <2> QED BY <2>3, <2>4 DEF Waiting
<1>6. ASSUME RestoreDefaults PROVE Waiting'
  <2> DEFINE back == Seeded \ config.known
             c == [config EXCEPT !.known = @ \cup back, !.on = @ \cup back]
  <2>1. c \in Configs /\ config.known \subseteq c.known
    BY BlockingAssumption DEF Held, Configs
  <2>2. config' = c /\ UNCHANGED <<pending, dropped>>
    BY <1>6 DEF RestoreDefaults
  <2>3. CASE back = {}
    <3>1. UNCHANGED <<status, asked>>
      BY <1>6, <2>3 DEF RestoreDefaults
    <3>2. config'.known = config.known /\ config'.on = config.on
      BY <2>2, <2>3 DEF Held, Configs
    <3> QED BY <2>2, <3>1, <3>2, StatusOnly
  <2>4. CASE back # {}
    <3>1. Changed(c, Cardinality(back))
      BY <1>6, <2>4 DEF RestoreDefaults
    <3> HIDE DEF c
    <3> QED BY <2>1, <2>2, <3>1, ChangedWaiting
  <2> QED BY <2>3, <2>4
<1>7. ASSUME NEW known \in SUBSET List, NEW on \in SUBSET known, ApplySync(known, on)
      PROVE  Waiting'
  <2> DEFINE c == [disk.config EXCEPT !.known = known, !.on = on]
  <2>1. c \in Configs /\ c.known = known
    BY DEF Held, Configs
  <2>2. UNCHANGED pending
    BY <1>7 DEF ApplySync
  <2>3. CASE c = disk.config
    <3>1. UNCHANGED <<config, status, dropped, asked>>
      BY <1>7, <2>3 DEF ApplySync
    <3> QED BY <1>u, <2>2, <3>1
  <2>4. CASE c # disk.config
    <3>1. config' = c /\ dropped' = dropped \cup (pending \ known) /\ Changed(c, Cardinality(on))
      BY <1>7, <2>4 DEF ApplySync
    <3> HIDE DEF c
    <3> QED BY <2>1, <2>2, <3>1, ChangedWaiting
  <2> QED BY <2>3, <2>4
<1>8. CASE Network \/ Threads
  BY <1>8, <1>u DEF Network, Threads, Reply, Check, BeginCompile, EndCompile, Write
<1>9. ASSUME TakeFetched PROVE Waiting'
  <2> DEFINE e == Head(events)
             st == [status EXCEPT ![e.list] = IF e.version = None THEN "failed"
                                              ELSE "validating"]
  <2>1. UNCHANGED <<config, pending, dropped, asked>> /\ (UNCHANGED status \/ status' = st)
    BY <1>9 DEF TakeFetched
  <2>2. \A k \in config.on : st[k] = status[k] \/ st[k] # "current"
    BY <1>0 DEF Held
  <2> HIDE DEF st
  <2> QED BY <2>1, <2>2, StatusOnly
<1>10. ASSUME TakeChecked PROVE Waiting'
  <2> DEFINE e == Head(events)
  <2>1. NextEvent("checked") /\ UNCHANGED <<config, dropped>>
        /\ (UNCHANGED <<status, pending, asked>> \/ Settle(e.list, FALSE, FALSE, writer))
    BY <1>10 DEF TakeChecked
  <2>2. e \in Events /\ e.kind = "checked"
    BY <1>0, <2>1, TakenKeeps
  <2>3. e.list \in List
    BY <2>2 DEF Events, Results
  <2> QED BY <1>u, <2>1, <2>3, SettleWaiting
<1>11. ASSUME TakeStored PROVE Waiting'
  <2> DEFINE e == Head(events)
  <2>1. NextEvent("stored") /\ UNCHANGED <<config, dropped>> /\ Settle(e.list, TRUE, e.ok, writer)
    BY <1>11 DEF TakeStored
  <2>2. e \in Events /\ e.kind = "stored"
    BY <1>0, <2>1, TakenKeeps
  <2>3. e.list \in List /\ e.ok \in BOOLEAN
    BY <2>2 DEF Events, Results
  <2> QED BY <2>1, <2>3, SettleWaiting
<1>12. ASSUME TakeCompiled PROVE Waiting'
  <2>1. UNCHANGED <<config, dropped, asked>>
        /\ (UNCHANGED <<status, pending>> \/ Land(Head(events).matcher))
    BY <1>12 DEF TakeCompiled
  <2>2. CASE Land(Head(events).matcher)
    <3>1. /\ pending' = {}
          /\ \A l \in List : l \notin pending => status'[l] = status[l]
      BY <2>2 DEF Land
    <3> QED BY <1>0, <2>1, <3>1 DEF Waiting
  <2> QED BY <1>u, <2>1, <2>2
<1>13. ASSUME Crash \/ Quit PROVE Waiting'
  <2>1. PICK d, files : Start(d, files) /\ d.config \in Configs
    BY <1>13, QuitFrom DEF Crash, Held
  <2>2. config' = d.config /\ asked' = Request(d.config) /\ pending' = {}
    BY <2>1 DEF Start
  <2> QED BY <2>1, <2>2, AskedForAll
<1>14. CASE UNCHANGED vars
  BY <1>14, <1>u DEF vars
<1> QED BY <1>1, <1>2, <1>3, <1>4, <1>5, <1>6, <1>7, <1>8, <1>9, <1>10, <1>11, <1>12, <1>13,
           <1>14
        DEF Next, Reader, Interface

\* A list the reader reads as current is part of what the newest compile was
\* asked for, however updates, switches, Sync and restarts interleave, but for one
\* Sync took away while it was compiled.
THEOREM CurrentAsked == Spec => []CurrentIsAsked
<1> DEFINE I == Held /\ Waiting
<1>1. Init => I
  BY InitHeld, InitWaiting
<1>2. I /\ [Next]_vars => I'
  BY NextHeld, NextWaiting
<1>3. I => CurrentIsAsked
  BY DEF Waiting, CurrentIsAsked
<1> QED BY <1>1, <1>2, <1>3, PTL DEF Spec

-----------------------------------------------------------------------------
(* A list that says it is current is stored                                *)

\* No list that st calls current, or says is being compiled, lacks its file.
Backed(st, files) == \A l \in List : st[l] \in {"compiling", "current"} => files[l] # None

\* What CurrentIsStored rests on: neither what is on disk, what waits to be
\* written, what the blocker holds, nor what is about to be settled says otherwise.
InStore ==
  /\ Backed(status, stored)
  /\ Backed(disk.status, stored)
  /\ \A i \in DOMAIN writer : writer[i].kind = "save" => Backed(writer[i].status, stored)
  /\ \A l \in pending : stored[l] # None
  /\ \A i \in DOMAIN events : events[i].kind = "stored" /\ events[i].ok
       => stored[events[i].list] # None

\* A save of statuses that are backed is backed, as those it replaces were.
LEMMA SavedBacked ==
  ASSUME NEW queue \in Seq(Writes), NEW c \in Configs, NEW st \in [List -> Statuses],
         NEW files, Backed(st, files)
  PROVE  \A i \in DOMAIN Saved(queue, c, st) :
           Saved(queue, c, st)[i].kind = "save" => Backed(Saved(queue, c, st)[i].status, files)
<1> SUFFICES ASSUME NEW i \in DOMAIN Saved(queue, c, st), Saved(queue, c, st)[i].kind = "save"
             PROVE  Backed(Saved(queue, c, st)[i].status, files)
  OBVIOUS
<1>1. Saved(queue, c, st)[i] = [kind |-> "save", config |-> c, status |-> st]
  BY SavedKeeps
<1> QED BY <1>1

\* What is left of the queues and the files stays backed; a step then only has
\* the statuses it sets, the save it queues and what it posts to answer for.
LEMMA StoreStep ==
  ASSUME Held, InStore, Backed(status', stored'), Backed(disk'.status, stored'),
         \A l \in List : stored[l] # None => stored'[l] # None,
         \A i \in DOMAIN writer' :
           \/ \E j \in DOMAIN writer : writer'[i] = writer[j]
           \/ writer'[i].kind # "save"
           \/ Backed(writer'[i].status, stored'),
         \A l \in pending' : l \in pending \/ stored'[l] # None,
         \A i \in DOMAIN events' :
           \/ \E j \in DOMAIN events : events'[i] = events[j]
           \/ events'[i].kind # "stored"
           \/ events'[i].ok => stored'[events'[i].list] # None
  PROVE  InStore'
<1>1. ASSUME NEW st, Backed(st, stored) PROVE Backed(st, stored')
  BY <1>1 DEF Backed
<1>2. ASSUME NEW i \in DOMAIN writer', writer'[i].kind = "save"
      PROVE  Backed(writer'[i].status, stored')
  BY <1>1, <1>2 DEF InStore
<1>3. ASSUME NEW i \in DOMAIN events', events'[i].kind = "stored", events'[i].ok
      PROVE  stored'[events'[i].list] # None
  <2>1. CASE \E j \in DOMAIN events : events'[i] = events[j]
    <3>1. PICK j \in DOMAIN events : events'[i] = events[j]
      BY <2>1
    <3>2. events[j] \in Events /\ events[j].kind = "stored"
      BY <1>3, <3>1 DEF Held
    <3>3. events[j].list \in List
      BY <3>2 DEF Events, Results
    <3> QED BY <1>3, <3>1, <3>3 DEF InStore
  <2>2. CASE ~ \E j \in DOMAIN events : events'[i] = events[j]
    BY <1>3, <2>2
  <2> QED BY <2>1, <2>2
<1>4. \A l \in pending' : stored'[l] # None
  BY DEF InStore, Held
<1> QED BY <1>2, <1>3, <1>4 DEF InStore

\* A step that writes nothing and takes no event, but queues a save.
LEMMA SaveStep ==
  ASSUME Held, InStore, NEW c \in Configs, NEW st \in [List -> Statuses],
         writer' = Saved(writer, c, st), Backed(st, stored), Backed(status', stored),
         UNCHANGED <<disk, stored>>,
         \A l \in pending' : l \in pending \/ stored[l] # None,
         \A i \in DOMAIN events' : \E j \in DOMAIN events : events'[i] = events[j]
  PROVE  InStore'
<1>1. \A i \in DOMAIN writer' : writer'[i].kind = "save" => Backed(writer'[i].status, stored)
  BY SavedBacked DEF Held
<1>2. Backed(disk'.status, stored')
  BY DEF InStore
<1> QED BY <1>1, <1>2, StoreStep

\* A list is only settled as stored after its file was written.
LEMMA SettleStore ==
  ASSUME Held, InStore, UNCHANGED <<config, disk, stored>>,
         NEW l \in List, NEW usable \in BOOLEAN, NEW isStored \in BOOLEAN,
         Settle(l, usable, isStored, writer), isStored => stored[l] # None,
         \A i \in DOMAIN events' : \E j \in DOMAIN events : events'[i] = events[j]
  PROVE  InStore'
<1> DEFINE compiles == isStored /\ l \in config.on
           st == [status EXCEPT ![l] = IF ~usable \/ ~isStored THEN "failed"
                                       ELSE IF compiles THEN "compiling" ELSE "current"]
<1>1. CASE l \notin config.known
  <2>1. UNCHANGED <<status, pending, writer>>
    BY <1>1 DEF Settle
  <2>2. Backed(status', stored') /\ Backed(disk'.status, stored')
    BY <2>1 DEF InStore
  <2> QED BY <2>1, <2>2, StoreStep
<1>2. CASE l \in config.known
  <2>1. status' = st /\ writer' = Saved(writer, config, st)
        /\ (UNCHANGED pending \/ (isStored /\ pending' = pending \cup {l}))
    BY <1>2 DEF Settle
  <2>2. st \in [List -> Statuses] /\ Backed(st, stored)
    BY DEF Held, Statuses, Backed, InStore
  <2> HIDE DEF st
  <2> QED BY <2>1, <2>2, SaveStep DEF Held
<1> QED BY <1>1, <1>2

\* What is current when a session begins is stored.
LEMMA InitStore == Init => InStore
<1> SUFFICES ASSUME Init PROVE InStore
  OBVIOUS
<1>1. PICK c \in Configs, files \in [List -> Version \cup {None}] :
        /\ stored = files
        /\ status = [l \in List |-> IF l \in c.known /\ files[l] # None THEN "current"
                                    ELSE "none"]
        /\ disk = [config |-> c, status |-> status]
  BY DEF Init
<1>2. Backed(status, stored) /\ disk.status = status
  BY <1>1 DEF Backed
<1>3. pending = {} /\ writer = << >> /\ events = << >>
  BY DEF Init
<1> QED BY <1>2, <1>3 DEF InStore

\* Every step keeps the lists called current, in memory, in the writer's queue
\* and on disk, among the stored ones.
LEMMA NextStore ==
  ASSUME Held, InStore, [Next]_vars
  PROVE  InStore'
<1> USE DEF memory, threads
<1>0. /\ events \in Seq(Events) /\ writer \in Seq(Writes) /\ status \in [List -> Statuses]
      /\ config \in Configs /\ Backed(status, stored) /\ Backed(disk.status, stored)
      /\ stored \in [List -> Version \cup {None}]
  BY DEF Held, InStore
<1>u. ASSUME UNCHANGED <<status, disk, stored, writer, pending, events>> PROVE InStore'
  BY <1>u DEF InStore
<1>t. ASSUME NEW kind, NextEvent(kind)
      PROVE  \A i \in DOMAIN events' : \E j \in DOMAIN events : events'[i] = events[j]
  BY <1>0, <1>t, QueueTail DEF NextEvent
<1>1. ASSUME NEW r \in Rules, SetUserRules(r) PROVE InStore'
  <2> DEFINE c == [config EXCEPT !.rules = r]
  <2>1. c \in Configs
    BY DEF Held, Configs
  <2>2. writer' = Saved(writer, c, status) /\ UNCHANGED <<status, disk, stored, pending, events>>
    BY <1>1 DEF SetUserRules
  <2> HIDE DEF c
  <2> QED BY <1>0, <2>1, <2>2, SaveStep
<1>2. ASSUME NEW l \in List, NEW enabled \in BOOLEAN, SetEnabled(l, enabled) PROVE InStore'
  <2> DEFINE c == [config EXCEPT !.on = IF enabled THEN @ \cup {l} ELSE @ \ {l}]
  <2>1. c \in Configs
    BY <1>2 DEF Held, Configs, SetEnabled
  <2>2. writer' = Saved(writer, c, status) /\ UNCHANGED <<status, disk, stored, pending, events>>
    BY <1>2 DEF SetEnabled
  <2> HIDE DEF c
  <2> QED BY <1>0, <2>1, <2>2, SaveStep
<1>3. ASSUME NEW off \in BOOLEAN, SetSite(off) PROVE InStore'
  <2> DEFINE c == [config EXCEPT !.off = off]
  <2>1. c \in Configs
    BY DEF Held, Configs
  <2>2. writer' = Saved(writer, c, status) /\ UNCHANGED <<status, disk, stored, pending, events>>
    BY <1>3 DEF SetSite
  <2> HIDE DEF c
  <2> QED BY <1>0, <2>1, <2>2, SaveStep
<1>4. ASSUME NEW l \in List, Update(l) PROVE InStore'
  <2>1. status' = Updating(status, {l}) /\ UNCHANGED <<disk, stored, writer, pending, events>>
    BY <1>4 DEF Update
  <2>2. Backed(status', stored)
    BY <1>0, <2>1 DEF Updating, Backed
  <2> QED BY <2>1, <2>2 DEF InStore
<1>5. ASSUME NEW l \in List, Subscribe(l) PROVE InStore'
  <2> DEFINE c == [config EXCEPT !.known = @ \cup {l}, !.on = @ \cup {l}]
             st == [status EXCEPT ![l] = "none"]
  <2>1. c \in Configs /\ st \in [List -> Statuses] /\ Backed(st, stored)
    BY <1>0, ZenonT(60) DEF Held, Configs, Statuses, Backed
  <2>2. /\ writer' = Saved(writer, c, st) /\ status' = Updating(status, {l})
        /\ UNCHANGED <<disk, stored, pending, events>>
    BY <1>5 DEF Subscribe
  <2>3. Backed(status', stored)
    BY <1>0, <2>2 DEF Updating, Backed
  <2> HIDE DEF c, st
  <2> QED BY <2>1, <2>2, <2>3, SaveStep
<1>6. ASSUME RestoreDefaults PROVE InStore'
  <2> DEFINE back == Seeded \ config.known
             c == [config EXCEPT !.known = @ \cup back, !.on = @ \cup back]
             st == [l \in List |-> IF l \in back THEN "none" ELSE status[l]]
  <2>1. c \in Configs /\ st \in [List -> Statuses] /\ Backed(st, stored)
    BY <1>0, BlockingAssumption DEF Held, Configs, Statuses, Backed
  <2>2. /\ writer' = Saved(writer, c, st) /\ (UNCHANGED status \/ status' = Updating(st, back))
        /\ UNCHANGED <<disk, stored, pending, events>>
    BY <1>6 DEF RestoreDefaults
  <2> HIDE DEF c, st, back
  <2>3. Backed(status', stored)
    BY <1>0, <2>1, <2>2 DEF Updating, Backed
  <2> QED BY <2>1, <2>2, <2>3, SaveStep
<1>7. ASSUME NEW known \in SUBSET List, NEW on \in SUBSET known, ApplySync(known, on)
      PROVE  InStore'
  <2> DEFINE c == [disk.config EXCEPT !.known = known, !.on = on]
             fresh == [l \in List |-> "none"]
  <2>1. /\ disk' = [config |-> c, status |-> fresh]
        /\ UNCHANGED status \/ status' = Updating(fresh, on)
        /\ UNCHANGED <<stored, writer, pending, events>>
    BY <1>7 DEF ApplySync
  <2>2. Backed(fresh, stored) /\ disk'.status = fresh
    BY <2>1 DEF Backed
  <2>3. Backed(status', stored)
    BY <1>0, <2>1 DEF Updating, Backed
  <2> HIDE DEF fresh, c
  <2> QED BY <2>1, <2>2, <2>3 DEF InStore
<1>8. ASSUME NEW l \in List, NEW v \in Version \cup {None}, Reply(l, v) PROVE InStore'
  <2> DEFINE e == [kind |-> "reply", list |-> l, version |-> v]
  <2>1. events' = Append(events, e) /\ UNCHANGED <<status, disk, stored, writer, pending>>
        /\ e \in Events /\ e.kind # "stored"
    BY <1>8 DEF Reply, Events
  <2> HIDE DEF e
  <2>2. \A i \in DOMAIN events' : (\E j \in DOMAIN events : events'[i] = events[j]) \/ events'[i] = e
    BY <1>0, <2>1, QueueAppend
  <2> QED BY <1>0, <2>1, <2>2, StoreStep
<1>9. ASSUME NEW e, e.kind \in {"checked", "compiled"}, events' = Append(events, e),
             UNCHANGED <<status, disk, stored, writer, pending>>
      PROVE  InStore'
  <2>1. \A i \in DOMAIN events' : (\E j \in DOMAIN events : events'[i] = events[j]) \/ events'[i] = e
    <3>1. events \in Seq(Events \cup {e})
      BY <1>0
    <3> QED BY <1>9, <3>1, QueueAppend
  <2> QED BY <1>0, <1>9, <2>1, StoreStep
<1>10. ASSUME Check PROVE InStore'
  <2> DEFINE job == Head(lane["refresher"])
             e == [kind |-> "checked", list |-> job.list, version |-> job.version,
                   usable |-> job.version \notin Unusable]
  <2>1. events' = Append(events, e) /\ UNCHANGED <<status, disk, stored, writer, pending>>
        /\ e.kind = "checked"
    BY <1>10 DEF Check
  <2> HIDE DEF e
  <2> QED BY <1>9, <2>1
<1>11. ASSUME NEW x \in Lanes, BeginCompile(x) PROVE InStore'
  BY <1>11, <1>u DEF BeginCompile
<1>12. ASSUME NEW x \in Lanes, EndCompile(x) PROVE InStore'
  <2> DEFINE e == [Head(lane[x]) EXCEPT !.kind = "compiled"]
  <2>1. /\ lane[x] \in Seq(Jobs) /\ lane[x] # << >> /\ Head(lane[x]) \in Jobs
        /\ Head(lane[x]).kind = "made" /\ events' = Append(events, e)
        /\ UNCHANGED <<status, disk, stored, writer, pending>>
    BY <1>12 DEF EndCompile, Held
  <2>2. Head(lane[x]) \in Results("made")
    BY <2>1 DEF Jobs, CheckJobs, Results
  <2>3. e.kind = "compiled"
    BY <2>2 DEF Results
  <2> HIDE DEF e
  <2> QED BY <1>9, <2>1, <2>3
<1>13. ASSUME NEW ok \in BOOLEAN, Write(ok) PROVE InStore'
  <2> DEFINE job == Head(writer)
  <2>1. /\ writer # << >> /\ writer' = Tail(writer) /\ job \in Writes
        /\ \A i \in DOMAIN writer' : \E j \in DOMAIN writer : writer'[i] = writer[j]
        /\ 1 \in DOMAIN writer /\ job = writer[1] /\ UNCHANGED <<status, pending>>
    BY <1>0, <1>13, QueueTail DEF Write
  <2>2. CASE job.kind = "skipped"
    <3>1. UNCHANGED <<events, disk, stored>>
      BY <1>13, <2>2 DEF Write
    <3> QED BY <1>0, <2>1, <3>1, StoreStep
  <2>3. CASE job.kind = "save"
    <3>1. disk'.status = job.status /\ UNCHANGED <<events, stored>>
      BY <1>13, <2>3 DEF Write
    <3>2. Backed(job.status, stored)
      BY <2>1, <2>3 DEF InStore
    <3> QED BY <1>0, <2>1, <3>1, <3>2, StoreStep
  <2>4. CASE job.kind = "store"
    <3> DEFINE e == [kind |-> "stored", list |-> job.list, ok |-> ok]
    <3>1. /\ stored' = [stored EXCEPT ![job.list] = IF ok THEN job.version ELSE @]
          /\ events' = Append(events, e) /\ UNCHANGED disk
      BY <1>13, <2>4 DEF Write
    <3>2. job.list \in List /\ job.version \in Version /\ job.version # None
      BY <2>1, <2>4, BlockingAssumption DEF Writes
    <3>3. (\A l \in List : stored[l] # None => stored'[l] # None) /\ (ok => stored'[job.list] # None)
      BY <1>0, <3>1, <3>2
    <3>4. Backed(status', stored') /\ Backed(disk'.status, stored')
      BY <1>0, <2>1, <3>1, <3>3 DEF Backed
    <3>5. e \in Events
      BY <3>2 DEF Events
    <3>6. e.ok => stored'[e.list] # None
      BY <3>3
    <3> HIDE DEF e
    <3>7. \A i \in DOMAIN events' :
            (\E j \in DOMAIN events : events'[i] = events[j]) \/ events'[i] = e
      BY <1>0, <3>1, <3>5, QueueAppend
    <3>8. \A i \in DOMAIN events' :
            \/ \E j \in DOMAIN events : events'[i] = events[j]
            \/ events'[i].ok => stored'[events'[i].list] # None
      BY <3>6, <3>7
    <3> HIDE DEF job
    <3> QED BY <2>1, <3>3, <3>4, <3>8, StoreStep
  <2> QED BY <2>1, <2>2, <2>3, <2>4 DEF Writes
<1>14. ASSUME TakeFetched PROVE InStore'
  <2> DEFINE e == Head(events)
             st == [status EXCEPT ![e.list] = IF e.version = None THEN "failed"
                                              ELSE "validating"]
  <2>1. /\ NextEvent("reply") /\ UNCHANGED <<disk, stored, pending>>
        /\ \/ UNCHANGED <<status, writer>>
           \/ status' = st /\ writer' = Saved(writer, config, st)
    BY <1>14 DEF TakeFetched
  <2>2. st \in [List -> Statuses] /\ Backed(st, stored)
    BY <1>0 DEF Statuses, Backed
  <2> HIDE DEF st
  <2>3. CASE UNCHANGED <<status, writer>>
    BY <1>0, <1>t, <2>1, <2>3, StoreStep
  <2>4. CASE status' = st /\ writer' = Saved(writer, config, st)
    BY <1>0, <1>t, <2>1, <2>2, <2>4, SaveStep
  <2> QED BY <2>1, <2>3, <2>4
<1>15. ASSUME TakeChecked PROVE InStore'
  <2> DEFINE e == Head(events)
             job == [kind |-> "store", list |-> e.list, version |-> e.version]
  <2>1. NextEvent("checked") /\ UNCHANGED <<config, disk, stored>>
    BY <1>15 DEF TakeChecked
  <2>2. e \in Events /\ e.kind = "checked"
    BY <1>0, <2>1, TakenKeeps
  <2>3. e.list \in List /\ e.version \in Version
    BY <2>2 DEF Events, Results
  <2>4. CASE e.usable
    <3>1. writer' = Append(writer, job) /\ UNCHANGED <<status, pending>>
      BY <1>15, <2>4 DEF TakeChecked
    <3>2. job \in Writes /\ job.kind # "save"
      BY <2>3 DEF Writes
    <3> HIDE DEF job
    <3>3. \A i \in DOMAIN writer' :
            (\E j \in DOMAIN writer : writer'[i] = writer[j]) \/ writer'[i] = job
      BY <1>0, <3>1, <3>2, QueueAppend
    <3> QED BY <1>0, <1>t, <2>1, <3>1, <3>2, <3>3, StoreStep
  <2>5. CASE ~e.usable
    <3>1. Settle(e.list, FALSE, FALSE, writer)
      BY <1>15, <2>5 DEF TakeChecked
    <3> QED BY <1>t, <2>1, <2>3, <3>1, SettleStore
  <2> QED BY <2>4, <2>5
<1>16. ASSUME TakeStored PROVE InStore'
  <2> DEFINE e == Head(events)
  <2>1. NextEvent("stored") /\ UNCHANGED <<config, disk, stored>>
        /\ Settle(e.list, TRUE, e.ok, writer)
    BY <1>16 DEF TakeStored
  <2>2. e \in Events /\ e.kind = "stored" /\ e = events[1] /\ 1 \in DOMAIN events
    BY <1>0, <2>1, TakenKeeps, QueueTail
  <2>3. e.list \in List /\ e.ok \in BOOLEAN
    BY <2>2 DEF Events, Results
  <2>4. e.ok => stored[e.list] # None
    BY <2>2 DEF InStore
  <2> QED BY <1>t, <2>1, <2>3, <2>4, SettleStore
<1>17. ASSUME TakeCompiled PROVE InStore'
  <2> DEFINE e == Head(events)
  <2>1. NextEvent("compiled") /\ UNCHANGED <<config, disk, stored>>
        /\ (UNCHANGED <<status, pending, writer>> \/ Land(e.matcher))
    BY <1>17 DEF TakeCompiled
  <2>2. CASE UNCHANGED <<status, pending, writer>>
    BY <1>0, <1>t, <2>1, <2>2, StoreStep
  <2>3. CASE Land(e.matcher)
    <3>1. /\ writer' = Saved(writer, config, status') /\ pending' = {}
          /\ status' = [l \in List |-> IF l \in pending \cap config.known
                                       THEN IF e.matcher # NoMatcher THEN "current" ELSE "failed"
                                       ELSE status[l]]
      BY <2>3 DEF Land
    <3>2. status' \in [List -> Statuses]
      BY <1>0, <3>1 DEF Statuses
    <3>3. Backed(status', stored)
      BY <1>0, <3>1 DEF Backed, InStore
    <3>4. \A l \in pending' : l \in pending \/ stored[l] # None
      BY <3>1
    <3>5. PICK st : st = status'
      OBVIOUS
    <3> QED BY <1>0, <1>t, <2>1, <3>1, <3>2, <3>3, <3>4, <3>5, SaveStep
  <2> QED BY <2>1, <2>2, <2>3
<1>18. ASSUME NEW d, NEW files, Start(d, files), Backed(d.status, files) PROVE InStore'
  BY <1>18 DEF Start, InStore
<1>19. ASSUME Crash PROVE InStore'
  BY <1>0, <1>18, <1>19 DEF Crash
<1>20. ASSUME Quit PROVE InStore'
  <2>1. PICK d, files :
          /\ Start(d, files)
          /\ \/ d = disk
             \/ \E i \in DOMAIN writer :
                  /\ writer[i].kind = "save"
                  /\ d = [config |-> writer[i].config, status |-> writer[i].status]
          /\ \A l \in List : stored[l] # None => files[l] # None
    BY <1>20, QuitFrom
  <2>2. Backed(d.status, stored)
    BY <1>0, <2>1 DEF InStore
  <2>3. Backed(d.status, files)
    BY <2>1, <2>2 DEF Backed
  <2> QED BY <1>18, <2>1, <2>3
<1>21. CASE UNCHANGED vars
  BY <1>21, <1>u DEF vars
<1> QED BY <1>1, <1>2, <1>3, <1>4, <1>5, <1>6, <1>7, <1>8, <1>10, <1>11, <1>12, <1>13, <1>14,
           <1>15, <1>16, <1>17, <1>19, <1>20, <1>21
        DEF Next, Reader, Network, Threads, Interface

\* The settings file never says a list is current, or compiling, that is not
\* stored, wherever a crash falls between the two writes and whichever writes a
\* quit makes: the list is on disk before its status is.
THEOREM CurrentStored == Spec => []CurrentIsStored
<1> DEFINE I == Held /\ InStore
<1>1. Init => I
  BY InitHeld, InitStore
<1>2. I /\ [Next]_vars => I'
  BY NextHeld, NextStore
<1>3. I => CurrentIsStored
  BY DEF InStore, Backed, CurrentIsStored
<1> QED BY <1>1, <1>2, <1>3, PTL DEF Spec

-----------------------------------------------------------------------------
(* At rest the rules in force are the stored ones                          *)

\* A list's file was written, and the interface thread has still to hear of it.
Coming(l, queue) ==
  \E i \in DOMAIN queue : queue[i].kind = "stored" /\ queue[i].ok /\ queue[i].list = l

\* The matcher m is of the request r and read every list as the files hold it,
\* but for those whose newer file the interface thread has still to hear of.
ReadsFiles(m, r, files, queue) ==
  /\ Request(m) = r
  /\ DOMAIN m.read \subseteq r.on
  /\ \A l \in r.on : Coming(l, queue) \/ IF l \in DOMAIN m.read THEN m.read[l] = files[l]
                                         ELSE files[l] = None

\* What the newest compile, n, made, if result is of it.
MadeInStep(result, n, r, files, queue) ==
  result.generation = n =>
    IF result.matcher = NoMatcher THEN r.rules \in Uncompiled
    ELSE ReadsFiles(result.matcher, r, files, queue)

\* The newest compile has not landed.
OfCompile(job, n) == job.kind \in {"compile", "made", "compiled"} /\ job.generation = n
Outstanding ==
  \/ \E x \in Lanes : \E i \in DOMAIN lane[x] : OfCompile(lane[x][i], generation)
  \/ \E i \in DOMAIN events : OfCompile(events[i], generation)

\* The rules in force are in step.
InForce ==
  /\ ReadsFiles(runtime.matcher, asked, stored, events)
  /\ runtime.off = config.off

\* What RestIsCurrent rests on.
InStep ==
  /\ asked.rules = config.rules /\ asked.on \subseteq config.on
  /\ \A x \in Lanes : \A i \in DOMAIN lane[x] :
       lane[x][i].kind = "made" => MadeInStep(lane[x][i], generation, asked, stored, events)
  /\ \A i \in DOMAIN events :
       events[i].kind = "compiled" => MadeInStep(events[i], generation, asked, stored, events)
  /\ Outstanding \/ asked.rules \in Uncompiled \/ InForce

\* What a compile read stays in step while every list it is of is as it was, or
\* is to be heard of.
LEMMA StillReads ==
  ASSUME NEW m, NEW r, NEW files, NEW queue, NEW files2, NEW queue2,
         ReadsFiles(m, r, files, queue),
         \A l \in r.on : \/ Coming(l, queue2)
                         \/ ~Coming(l, queue) /\ files2[l] = files[l]
  PROVE  ReadsFiles(m, r, files2, queue2)
BY DEF ReadsFiles

\* A step that asks for no compile and finds every list's file as it was, or has
\* it to be heard of, leaves what was made and what is in force in step.
LEMMA QuietInStep ==
  ASSUME InStep, UNCHANGED <<generation, asked>>,
         config'.rules = config.rules, asked.on \subseteq config'.on,
         \A l \in asked.on : \/ Coming(l, events')
                             \/ ~Coming(l, events) /\ stored'[l] = stored[l],
         \A x \in Lanes : \A i \in DOMAIN lane'[x] :
           \/ \E j \in DOMAIN lane[x] : lane'[x][i] = lane[x][j]
           \/ lane'[x][i].kind # "made"
           \/ MadeInStep(lane'[x][i], generation', asked', stored', events'),
         \A i \in DOMAIN events' :
           \/ \E j \in DOMAIN events : events'[i] = events[j]
           \/ events'[i].kind # "compiled"
           \/ MadeInStep(events'[i], generation', asked', stored', events'),
         \/ InForce'
         \/ asked.rules \in Uncompiled
         \/ /\ Outstanding => Outstanding'
            /\ runtime'.matcher = runtime.matcher
            /\ runtime.off = config.off => runtime'.off = config'.off
  PROVE  InStep'
<1>1. ASSUME NEW result, MadeInStep(result, generation, asked, stored, events)
      PROVE  MadeInStep(result, generation', asked', stored', events')
  BY <1>1, StillReads DEF MadeInStep
<1>2. asked'.rules = config'.rules /\ asked'.on \subseteq config'.on
  BY DEF InStep
<1>3. ASSUME NEW x \in Lanes, NEW i \in DOMAIN lane'[x], lane'[x][i].kind = "made"
      PROVE  MadeInStep(lane'[x][i], generation', asked', stored', events')
  BY <1>1, <1>3 DEF InStep
<1>4. ASSUME NEW i \in DOMAIN events', events'[i].kind = "compiled"
      PROVE  MadeInStep(events'[i], generation', asked', stored', events')
  BY <1>1, <1>4 DEF InStep
<1>5. (Outstanding \/ asked.rules \in Uncompiled \/ InForce)'
  <2>1. CASE /\ Outstanding => Outstanding'
             /\ runtime'.matcher = runtime.matcher
             /\ runtime.off = config.off => runtime'.off = config'.off
    <3>1. InForce => InForce'
      BY <2>1, StillReads DEF InForce
    <3> QED BY <2>1, <3>1 DEF InStep
  <2> QED BY <2>1
<1> QED BY <1>2, <1>3, <1>4, <1>5 DEF InStep

\* A compile asked for is outstanding, and nothing made before it is of it.
LEMMA RecompileInStep ==
  ASSUME Held, Newest, NEW x \in Lanes, NEW c \in Configs, Recompile(x, c), config' = c,
         \A i \in DOMAIN events' : \/ events'[i].kind # "compiled"
                                   \/ \E j \in DOMAIN events : events'[i] = events[j]
  PROVE  InStep'
<1> DEFINE job == CompileJob(generation + 1, c)
<1>1. /\ generation' = generation + 1 /\ generation \in Nat /\ asked' = Request(c)
      /\ lane'[x] = Append(lane[x], job) /\ \A y \in Lanes \ {x} : lane'[y] = lane[y]
      /\ lane \in [Lanes -> Seq(Jobs)] /\ events \in Seq(Events) /\ job \in Jobs
      /\ job.kind = "compile" /\ job.generation = generation'
  BY RecompileKeeps DEF Held, CompileJob
<1> HIDE DEF job
<1>2. lane[x] \in Seq(Jobs)
  BY <1>1
<1>3. \A k \in DOMAIN Append(lane[x], job) :
        \/ k \in DOMAIN lane[x] /\ Append(lane[x], job)[k] = lane[x][k]
        \/ Append(lane[x], job)[k] = job
  BY <1>1, <1>2, QueueAppend
<1>4. ASSUME NEW y \in Lanes, NEW i \in DOMAIN lane'[y], lane'[y][i].kind = "made"
      PROVE  MadeInStep(lane'[y][i], generation', asked', stored', events')
  <2>1. i \in DOMAIN lane[y] /\ lane'[y][i] = lane[y][i]
    BY <1>1, <1>3, <1>4
  <2>2. OfNewest(lane[y][i], generation, asked)
    BY <1>4, <2>1 DEF Newest
  <2>3. lane[y][i] \in Jobs
    BY <1>1, <2>1
  <2>4. lane[y][i].generation \in Nat
    BY <1>4, <2>1, <2>3 DEF Jobs, CheckJobs, Results
  <2>5. lane[y][i].generation # generation'
    BY <1>1, <2>2, <2>4 DEF OfNewest
  <2> QED BY <2>1, <2>5 DEF MadeInStep
<1>5. ASSUME NEW i \in DOMAIN events', events'[i].kind = "compiled"
      PROVE  MadeInStep(events'[i], generation', asked', stored', events')
  <2>1. PICK j \in DOMAIN events : events'[i] = events[j]
    BY <1>5
  <2>2. OfNewest(events[j], generation, asked) /\ events[j] \in Events
    BY <1>1, <1>5, <2>1 DEF Newest
  <2>3. events[j].generation \in Nat
    BY <1>5, <2>1, <2>2 DEF Events, Results
  <2>4. events[j].generation # generation'
    BY <1>1, <2>2, <2>3 DEF OfNewest
  <2> QED BY <2>1, <2>4 DEF MadeInStep
<1>6. Outstanding'
  <2> DEFINE n == Len(lane[x]) + 1
  <2>1. n \in DOMAIN lane'[x] /\ lane'[x][n] = job
    BY <1>1, <1>2
  <2>2. OfCompile(lane'[x][n], generation')
    BY <1>1, <2>1 DEF OfCompile
  <2> QED BY <2>1, <2>2 DEF Outstanding
<1>7. asked'.rules = config'.rules /\ asked'.on \subseteq config'.on
  BY <1>1 DEF Request
<1> QED BY <1>4, <1>5, <1>6, <1>7 DEF InStep

\* A session starts with its first compile outstanding and nothing made.
LEMMA StartInStep ==
  ASSUME NEW d, NEW files, Start(d, files)
  PROVE  InStep'
<1>1. /\ config' = d.config /\ asked' = Request(d.config) /\ generation' = 1 /\ events' = << >>
      /\ lane' = FirstLanes(d.config)
  BY DEF Start
<1>2. lane'["compiler"] = <<CompileJob(1, d.config)>> /\ lane'["refresher"] = << >>
  BY <1>1 DEF FirstLanes, Lanes
<1>3. OfCompile(lane'["compiler"][1], generation')
  BY <1>1, <1>2 DEF OfCompile, CompileJob
<1>4. Outstanding'
  BY <1>2, <1>3 DEF Outstanding, Lanes
<1>5. asked'.rules = config'.rules /\ asked'.on \subseteq config'.on
  BY <1>1 DEF Request
<1>6. \A x \in Lanes : \A i \in DOMAIN lane'[x] : lane'[x][i].kind # "made"
  BY <1>2 DEF Lanes, CompileJob
<1> QED BY <1>1, <1>4, <1>5, <1>6 DEF InStep

\* So does the first.
LEMMA InitInStep == Init => InStep
<1> SUFFICES ASSUME Init PROVE InStep
  OBVIOUS
<1>1. PICK c \in Configs : config = c /\ lane = FirstLanes(c) /\ asked = Request(c)
  BY DEF Init
<1>2. generation = 1 /\ events = << >>
  BY DEF Init
<1>3. lane["compiler"] = <<CompileJob(1, c)>> /\ lane["refresher"] = << >>
  BY <1>1 DEF FirstLanes, Lanes
<1>4. OfCompile(lane["compiler"][1], generation)
  BY <1>2, <1>3 DEF OfCompile, CompileJob
<1>5. Outstanding
  BY <1>3, <1>4 DEF Outstanding, Lanes
<1>6. asked.rules = config.rules /\ asked.on \subseteq config.on
  BY <1>1 DEF Request
<1>7. \A x \in Lanes : \A i \in DOMAIN lane[x] : lane[x][i].kind # "made"
  BY <1>3 DEF Lanes, CompileJob
<1> QED BY <1>2, <1>5, <1>6, <1>7 DEF InStep

\* What is not taken from a queue stays in it.
LEMMA QueueRest ==
  ASSUME NEW S, NEW queue \in Seq(S), queue # << >>
  PROVE  /\ \A i \in DOMAIN Tail(queue) : \E j \in DOMAIN queue : Tail(queue)[i] = queue[j]
         /\ \A j \in DOMAIN queue :
              \/ queue[j] = Head(queue)
              \/ \E i \in DOMAIN Tail(queue) : Tail(queue)[i] = queue[j]
<1>1. /\ Len(queue) \in Nat /\ Len(queue) > 0 /\ DOMAIN queue = 1 .. Len(queue)
      /\ DOMAIN Tail(queue) = 1 .. Len(queue) - 1 /\ Head(queue) = queue[1]
      /\ \A i \in 1 .. Len(queue) - 1 : Tail(queue)[i] = queue[i + 1]
  OBVIOUS
<1>2. ASSUME NEW j \in DOMAIN queue, j # 1
      PROVE  j - 1 \in DOMAIN Tail(queue) /\ Tail(queue)[j - 1] = queue[j]
  BY <1>1, <1>2
<1>3. \A i \in DOMAIN Tail(queue) : i + 1 \in DOMAIN queue /\ Tail(queue)[i] = queue[i + 1]
  BY <1>1
<1> QED BY <1>1, <1>2, <1>3

\* Every step keeps what was made and what is in force in step: a list is stored
\* before the interface thread hears of it, and what it hears of is compiled.
LEMMA NextInStep ==
  ASSUME Held, Newest, InStep, [Next]_vars
  PROVE  InStep'
<1> USE DEF memory, threads
<1>0. /\ events \in Seq(Events) /\ config \in Configs /\ disk.config \in Configs
      /\ lane \in [Lanes -> Seq(Jobs)] /\ writer \in Seq(Writes)
      /\ lane["compiler"] \in Seq(Jobs) /\ lane["refresher"] \in Seq(Jobs)
      /\ asked.rules = config.rules /\ asked.on \subseteq config.on
      /\ stored \in [List -> Version \cup {None}] /\ asked \in Requests
  BY DEF Held, Lanes, InStep
<1>c. ASSUME NEW c \in Configs, NEW n, Changed(c, n), UNCHANGED events, config' = c
      PROVE  InStep'
  <2>1. Recompile("compiler", c)
    BY <1>c DEF Changed
  <2> QED BY <1>c, <2>1, RecompileInStep DEF Lanes
<1>u. ASSUME UNCHANGED <<lane, events, generation, asked, stored>>,
             config'.rules = config.rules, config.on \subseteq config'.on,
             runtime'.matcher = runtime.matcher,
             runtime.off = config.off => runtime'.off = config'.off
      PROVE  InStep'
  <2>1. Outstanding => Outstanding'
    BY <1>u DEF Outstanding
  <2>2. asked.on \subseteq config'.on
    BY <1>0, <1>u
  <2>3. UNCHANGED <<generation, asked>> /\ config'.rules = config.rules
        /\ (\A x \in Lanes : \A i \in DOMAIN lane'[x] : \E j \in DOMAIN lane[x] : lane'[x][i] = lane[x][j])
        /\ \A i \in DOMAIN events' : \E j \in DOMAIN events : events'[i] = events[j]
    BY <1>u
  <2>5. \A l \in asked.on : Coming(l, events') \/ (~Coming(l, events) /\ stored'[l] = stored[l])
    BY <1>u
  <2> QED BY <1>u, <2>1, <2>2, <2>3, <2>5, QuietInStep
<1>t. ASSUME NEW kind, NextEvent(kind)
      PROVE  /\ \A i \in DOMAIN events' : \E j \in DOMAIN events : events'[i] = events[j]
             /\ \A i \in DOMAIN events' : i + 1 \in DOMAIN events /\ events'[i] = events[i + 1]
             /\ \A j \in DOMAIN events : j = 1 \/ (j - 1 \in DOMAIN events' /\ events'[j - 1] = events[j])
             /\ 1 \in DOMAIN events /\ Head(events) = events[1] /\ events[1].kind = kind
             /\ events[1] \in Events
  <2>1. events # << >> /\ events' = Tail(events) /\ Head(events).kind = kind
    BY <1>t DEF NextEvent
  <2>2. Len(events) \in Nat /\ Len(events) > 0 /\ DOMAIN events = 1 .. Len(events)
        /\ Len(events') = Len(events) - 1 /\ DOMAIN events' = 1 .. Len(events) - 1
        /\ \A i \in 1 .. Len(events) - 1 : events'[i] = events[i + 1]
    BY <1>0, <2>1
  <2>3. Head(events) = events[1] /\ events[1] \in Events
    BY <1>0, <2>1, QueueTail
  <2> QED BY <2>1, <2>2, <2>3
<1>l. ASSUME NEW kind, NextEvent(kind), NEW l,
             kind # "stored" \/ ~events[1].ok \/ events[1].list # l
      PROVE  Coming(l, events') <=> Coming(l, events)
  <2>1. ASSUME NEW j \in DOMAIN events, events[j].kind = "stored", events[j].ok, events[j].list = l
        PROVE  Coming(l, events')
    <3>1. j # 1
      BY <1>l, <1>t, <2>1
    <3>2. j - 1 \in DOMAIN events' /\ events'[j - 1] = events[j]
      BY <1>l, <1>t, <3>1
    <3> QED BY <2>1, <3>2 DEF Coming
  <2>2. ASSUME NEW i \in DOMAIN events', events'[i].kind = "stored", events'[i].ok, events'[i].list = l
        PROVE  Coming(l, events)
    BY <1>l, <1>t, <2>2 DEF Coming
  <2> QED BY <2>1, <2>2 DEF Coming
<1>o. ASSUME NEW kind, NextEvent(kind), UNCHANGED generation,
             \A x \in Lanes : \A j \in DOMAIN lane[x] :
               \E i \in DOMAIN lane'[x] : lane'[x][i] = lane[x][j],
             ~OfCompile(events[1], generation), Outstanding
      PROVE  Outstanding'
  <2>1. CASE \E x \in Lanes : \E j \in DOMAIN lane[x] : OfCompile(lane[x][j], generation)
    BY <1>o, <2>1 DEF Outstanding
  <2>2. ASSUME NEW j \in DOMAIN events, OfCompile(events[j], generation)
        PROVE  Outstanding'
    <3>1. j # 1
      BY <1>o, <2>2
    <3>2. j - 1 \in DOMAIN events' /\ events'[j - 1] = events[j]
      BY <1>o, <1>t, <3>1
    <3> QED BY <1>o, <2>2, <3>2 DEF Outstanding
  <2> QED BY <1>o, <2>1, <2>2 DEF Outstanding
<1>s. ASSUME NEW kind, NextEvent(kind), NEW l, NEW usable, NEW isStored, NEW queue,
             Settle(l, usable, isStored, queue), UNCHANGED <<config, runtime, stored>>,
             kind \in {"checked", "stored"},
             kind = "stored" => l = events[1].list /\ isStored = events[1].ok
      PROVE  InStep'
  <2>1. CASE Recompile("refresher", config)
    BY <1>0, <1>s, <1>t, <2>1, RecompileInStep DEF Lanes
  <2>2. CASE UNCHANGED <<generation, asked, lane>> /\ ~(isStored /\ l \in config.on)
    <3>1. ~OfCompile(events[1], generation)
      BY <1>s, <1>t DEF OfCompile
    <3>2. Outstanding => Outstanding'
      BY <1>o, <1>s, <2>2, <3>1
    <3>3. \A k \in asked.on : Coming(k, events') <=> Coming(k, events)
      <4> TAKE k \in asked.on
      <4>1. kind # "stored" \/ ~events[1].ok \/ events[1].list # k
        BY <1>0, <1>s, <2>2
      <4> QED BY <1>l, <1>s, <4>1
    <3>4. \A k \in asked.on : Coming(k, events') \/ (~Coming(k, events) /\ stored'[k] = stored[k])
      BY <1>s, <3>3
    <3>5. \A x \in Lanes : \A i \in DOMAIN lane'[x] : \E j \in DOMAIN lane[x] : lane'[x][i] = lane[x][j]
      BY <2>2
    <3>6. \A i \in DOMAIN events' : \E j \in DOMAIN events : events'[i] = events[j]
      BY <1>s, <1>t
    <3> QED BY <1>0, <1>s, <2>2, <3>2, <3>4, <3>5, <3>6, QuietInStep
  <2>3. l \notin config.known => l \notin config.on
    BY <1>0 DEF Configs
  <2> QED BY <1>s, <2>1, <2>2, <2>3 DEF Settle
<1>a. ASSUME NEW e, events' = Append(events, e)
      PROVE  /\ \A i \in DOMAIN events' : (\E j \in DOMAIN events : events'[i] = events[j]) \/ events'[i] = e
             /\ \A j \in DOMAIN events : j \in DOMAIN events' /\ events'[j] = events[j]
             /\ \E i \in DOMAIN events' : events'[i] = e
  <2>1. events \in Seq(Events \cup {e})
    BY <1>0
  <2>2. Len(events') = Len(events) + 1 /\ DOMAIN events' = 1 .. Len(events) + 1
        /\ Len(events) \in Nat /\ DOMAIN events = 1 .. Len(events)
        /\ events'[Len(events) + 1] = e /\ \A i \in 1 .. Len(events) : events'[i] = events[i]
    BY <1>a, <2>1
  <2> QED BY <2>2
<1>b. ASSUME NEW e, events' = Append(events, e), e.kind # "stored", NEW l
      PROVE  Coming(l, events') <=> Coming(l, events)
  BY <1>a, <1>b DEF Coming
<1>1. ASSUME NEW r \in Rules, SetUserRules(r) PROVE InStep'
  <2>1. [config EXCEPT !.rules = r] \in Configs
    BY DEF Held, Configs
  <2> QED BY <1>1, <1>c, <2>1 DEF SetUserRules
<1>2. ASSUME NEW l \in List, NEW enabled \in BOOLEAN, SetEnabled(l, enabled) PROVE InStep'
  <2>1. [config EXCEPT !.on = IF enabled THEN @ \cup {l} ELSE @ \ {l}] \in Configs
    BY <1>2 DEF Held, Configs, SetEnabled
  <2> QED BY <1>2, <1>c, <2>1 DEF SetEnabled
<1>3. ASSUME NEW off \in BOOLEAN, SetSite(off) PROVE InStep'
  <2>1. /\ config'.rules = config.rules /\ config'.on = config.on /\ config'.off = off
        /\ runtime'.matcher = runtime.matcher /\ runtime'.off = off
    BY <1>0, <1>3 DEF SetSite, Configs, Held
  <2> QED BY <1>3, <1>u, <2>1 DEF SetSite
<1>4. ASSUME NEW l \in List, Update(l) \/ Subscribe(l) PROVE InStep'
  <2>1. config'.rules = config.rules /\ config.on \subseteq config'.on /\ config'.off = config.off
    BY <1>0, <1>4 DEF Update, Subscribe, Configs
  <2> QED BY <1>4, <1>u, <2>1 DEF Update, Subscribe
<1>5. ASSUME RestoreDefaults PROVE InStep'
  <2> DEFINE back == Seeded \ config.known
             c == [config EXCEPT !.known = @ \cup back, !.on = @ \cup back]
  <2>1. c \in Configs
    BY BlockingAssumption DEF Held, Configs
  <2>2. \/ UNCHANGED <<generation, asked, lane>> /\ back = {}
        \/ Changed(c, Cardinality(back))
    BY <1>5 DEF RestoreDefaults
  <2>3. UNCHANGED <<events, stored, runtime>> /\ config' = c
    BY <1>5 DEF RestoreDefaults
  <2>4. config'.rules = config.rules /\ config.on \subseteq config'.on /\ config'.off = config.off
    BY <1>0, <2>3 DEF Configs
  <2> HIDE DEF c, back
  <2> QED BY <1>c, <1>u, <2>1, <2>2, <2>3, <2>4
<1>6. ASSUME NEW known \in SUBSET List, NEW on \in SUBSET known, ApplySync(known, on)
      PROVE  InStep'
  <2> DEFINE c == [disk.config EXCEPT !.known = known, !.on = on]
  <2>1. c \in Configs
    BY DEF Held, Configs
  <2>2. /\ UNCHANGED <<events, stored, runtime>>
        /\ \/ UNCHANGED <<config, generation, asked, lane>>
           \/ Changed(c, Cardinality(on)) /\ config' = c
    BY <1>6 DEF ApplySync
  <2> HIDE DEF c
  <2> QED BY <1>c, <1>u, <2>1, <2>2
<1>7. ASSUME NEW l \in List, NEW v \in Version \cup {None}, Reply(l, v) PROVE InStep'
  <2> DEFINE e == [kind |-> "reply", list |-> l, version |-> v]
  <2>1. events' = Append(events, e) /\ UNCHANGED <<config, generation, asked, lane, stored, runtime>>
        /\ e.kind \notin {"compiled", "stored"}
    BY <1>7 DEF Reply
  <2> HIDE DEF e
  <2>2. \A k \in asked.on : Coming(k, events') \/ (~Coming(k, events) /\ stored'[k] = stored[k])
    BY <1>b, <2>1
  <2>3. \A i \in DOMAIN events' :
          (\E j \in DOMAIN events : events'[i] = events[j]) \/ events'[i].kind # "compiled"
    BY <1>a, <2>1
  <2>4. Outstanding => Outstanding'
    BY <1>a, <2>1 DEF Outstanding
  <2> QED BY <1>0, <2>1, <2>2, <2>3, <2>4, QuietInStep
<1>8. ASSUME Check PROVE InStep'
  <2> DEFINE job == Head(lane["refresher"])
             e == [kind |-> "checked", list |-> job.list, version |-> job.version,
                   usable |-> job.version \notin Unusable]
  <2>1. lane["refresher"] # << >> /\ lane' = [lane EXCEPT !["refresher"] = Tail(@)]
        /\ events' = Append(events, e) /\ UNCHANGED <<config, generation, asked, stored, runtime>>
        /\ e.kind \notin {"compiled", "stored"} /\ job.kind = "check"
    BY <1>8 DEF Check
  <2> HIDE DEF e
  <2>2. /\ \A i \in DOMAIN Tail(lane["refresher"]) :
             \E j \in DOMAIN lane["refresher"] : Tail(lane["refresher"])[i] = lane["refresher"][j]
        /\ \A j \in DOMAIN lane["refresher"] :
             \/ lane["refresher"][j] = job
             \/ \E i \in DOMAIN Tail(lane["refresher"]) :
                  Tail(lane["refresher"])[i] = lane["refresher"][j]
    BY <1>0, <2>1, QueueRest
  <2>3. \A y \in Lanes : \A i \in DOMAIN lane'[y] : \E j \in DOMAIN lane[y] : lane'[y][i] = lane[y][j]
    BY <1>0, <2>1, <2>2
  <2>4. \A k \in asked.on : Coming(k, events') \/ (~Coming(k, events) /\ stored'[k] = stored[k])
    BY <1>b, <2>1
  <2>5. \A i \in DOMAIN events' :
          (\E j \in DOMAIN events : events'[i] = events[j]) \/ events'[i].kind # "compiled"
    BY <1>a, <2>1
  <2>6. ASSUME NEW y \in Lanes, NEW j \in DOMAIN lane[y], OfCompile(lane[y][j], generation)
        PROVE  \E i \in DOMAIN lane'[y] : OfCompile(lane'[y][i], generation)
    BY <1>0, <2>1, <2>2, <2>6, ZenonT(60) DEF OfCompile
  <2>7. Outstanding => Outstanding'
    BY <1>a, <2>1, <2>6 DEF Outstanding
  <2> QED BY <1>0, <2>1, <2>3, <2>4, <2>5, <2>7, QuietInStep
<1>9. ASSUME NEW x \in Lanes, BeginCompile(x) PROVE InStep'
  <2> DEFINE job == Head(lane[x])
             ls == {l \in job.request.on : stored[l] # None}
             matcher == [rules |-> job.request.rules, on |-> job.request.on,
                         read |-> [l \in ls |-> stored[l]]]
             made == IF job.generation = generation /\ job.request.rules \notin Uncompiled
                     THEN matcher ELSE NoMatcher
             e == [kind |-> "made", generation |-> job.generation, matcher |-> made]
  <2>1. lane[x] \in Seq(Jobs) /\ lane[x] # << >> /\ job.kind = "compile"
        /\ lane' = [lane EXCEPT ![x] = <<e>> \o Tail(@)]
        /\ UNCHANGED <<config, generation, asked, events, stored, runtime>>
    BY <1>0, <1>9 DEF BeginCompile
  <2>2. job \in Jobs /\ job = lane[x][1] /\ 1 \in DOMAIN lane[x]
    BY <2>1, QueueTail
  <2>3. job.generation \in Nat /\ job.request \in Requests
    BY <2>1, <2>2 DEF Jobs, CheckJobs, Results
  <2>4. ForNewest(job, generation, asked)
    BY <2>1, <2>2 DEF Newest
  <2>5. Request(matcher) = job.request /\ matcher # NoMatcher
    <3>1. matcher.rules \in Rules /\ NoMatcher.rules = None
      BY <2>3 DEF Requests, NoMatcher
    <3> QED BY <2>3, <3>1, BlockingAssumption DEF Request, Requests
  <2>6. MadeInStep(e, generation', asked', stored', events')
    <3>1. ASSUME job.generation = generation, job.request.rules \notin Uncompiled
          PROVE  ReadsFiles(matcher, asked, stored, events)
      <4>1. job.request = asked
        BY <2>4, <3>1 DEF ForNewest
      <4> QED BY <2>5, <4>1 DEF ReadsFiles
    <3>2. CASE job.generation # generation
      BY <2>1, <3>2 DEF MadeInStep
    <3>3. CASE job.generation = generation /\ job.request.rules \in Uncompiled
      BY <2>1, <2>4, <3>3 DEF MadeInStep, ForNewest
    <3>4. CASE job.generation = generation /\ job.request.rules \notin Uncompiled
      <4>1. made = matcher
        BY <3>4
      <4> HIDE DEF matcher
      <4> QED BY <2>1, <2>5, <3>1, <3>4, <4>1 DEF MadeInStep
    <3> QED BY <3>2, <3>3, <3>4
  <2>7. Counted(e) /\ Counted(job) /\ e.kind = "made" /\ e.generation = job.generation
    BY <2>1 DEF Counted, Uncounted
  <2> HIDE DEF e
  <2>9. lane'[x] = <<e>> \o Tail(lane[x]) /\ \A y \in Lanes \ {x} : lane'[y] = lane[y]
    BY <1>0, <2>1
  <2>10. /\ Len(lane'[x]) = Len(lane[x]) /\ lane'[x] \in Seq(Jobs \cup {e})
         /\ lane'[x][1] = e /\ \A i \in 2 .. Len(lane[x]) : lane'[x][i] = lane[x][i]
    <3>1. lane[x] \in Seq(Jobs \cup {e})
      BY <2>1
    <3>2. lane[x] # << >> /\ Counted(e) /\ Counted(Head(lane[x])) /\ e \in Jobs \cup {e}
      BY <2>1, <2>7
    <3> HIDE DEF job
    <3>3. /\ <<e>> \o Tail(lane[x]) \in Seq(Jobs \cup {e})
          /\ Len(<<e>> \o Tail(lane[x])) = Len(lane[x])
          /\ (<<e>> \o Tail(lane[x]))[1] = e
          /\ \A i \in 2 .. Len(lane[x]) : (<<e>> \o Tail(lane[x]))[i] = lane[x][i]
      BY <3>1, <3>2, UnderBegun
    <3>4. lane'[x] = <<e>> \o Tail(lane[x])
      BY <2>9
    <3> QED BY <3>3, <3>4
  <2>11. DOMAIN lane'[x] = 1 .. Len(lane[x]) /\ DOMAIN lane[x] = 1 .. Len(lane[x])
         /\ Len(lane[x]) \in Nat
    BY <2>1, <2>10
  <2>12. \A i \in DOMAIN lane'[x] : lane'[x][i] = e \/ \E j \in DOMAIN lane[x] : lane'[x][i] = lane[x][j]
    BY <2>10, <2>11
  <2>13. ASSUME NEW y \in Lanes, NEW j \in DOMAIN lane[y], OfCompile(lane[y][j], generation)
         PROVE  \E i \in DOMAIN lane'[y] : OfCompile(lane'[y][i], generation)
    <3>1. CASE y = x /\ j = 1
      <4>1. OfCompile(lane'[x][1], generation) /\ 1 \in DOMAIN lane'[x]
        BY <2>2, <2>7, <2>10, <2>11, <2>13, <3>1 DEF OfCompile
      <4> QED BY <3>1, <4>1
    <3>2. CASE y = x /\ j # 1
      BY <2>10, <2>11, <2>13, <3>2
    <3>3. CASE y # x
      BY <2>9, <2>13, <3>3
    <3> QED BY <3>1, <3>2, <3>3
  <2>14. Outstanding => Outstanding'
    BY <2>1, <2>13 DEF Outstanding
  <2>15. \A k \in asked.on : Coming(k, events) \/ (~Coming(k, events) /\ stored'[k] = stored[k])
    BY <2>1
  <2>16. \A y \in Lanes : \A i \in DOMAIN lane'[y] :
           \/ \E j \in DOMAIN lane[y] : lane'[y][i] = lane[y][j]
           \/ MadeInStep(lane'[y][i], generation', asked', stored', events')
    BY <2>6, <2>9, <2>12
  <2> QED BY <1>0, <2>1, <2>14, <2>15, <2>16, QuietInStep
<1>10. ASSUME NEW x \in Lanes, EndCompile(x) PROVE InStep'
  <2> DEFINE job == Head(lane[x])
             e == [job EXCEPT !.kind = "compiled"]
  <2>1. lane[x] \in Seq(Jobs) /\ lane[x] # << >> /\ job.kind = "made"
        /\ lane' = [lane EXCEPT ![x] = Tail(@)] /\ events' = Append(events, e)
        /\ UNCHANGED <<config, generation, asked, stored, runtime>>
    BY <1>0, <1>10 DEF EndCompile
  <2>2. job \in Jobs /\ job = lane[x][1] /\ 1 \in DOMAIN lane[x]
        /\ (\A i \in DOMAIN Tail(lane[x]) : \E j \in DOMAIN lane[x] : Tail(lane[x])[i] = lane[x][j])
        /\ \A j \in DOMAIN lane[x] :
             lane[x][j] = job \/ \E i \in DOMAIN Tail(lane[x]) : Tail(lane[x])[i] = lane[x][j]
    BY <2>1, QueueTail, QueueRest
  <2>3. job \in Results("made")
    BY <2>1, <2>2 DEF Jobs, CheckJobs, Results
  <2>4. MadeInStep(job, generation, asked, stored, events)
    BY <2>1, <2>2 DEF InStep
  <2>5. e.kind = "compiled" /\ e.generation = job.generation /\ e.matcher = job.matcher
    BY <2>3 DEF Results
  <2> HIDE DEF e
  <2>6. \A k \in asked.on : Coming(k, events') \/ (~Coming(k, events) /\ stored'[k] = stored[k])
    BY <1>b, <2>1, <2>5
  <2>7. MadeInStep(e, generation', asked', stored', events')
    BY <2>1, <2>4, <2>5, <2>6, StillReads DEF MadeInStep
  <2>8. \A y \in Lanes : \A i \in DOMAIN lane'[y] : \E j \in DOMAIN lane[y] : lane'[y][i] = lane[y][j]
    BY <1>0, <2>1, <2>2
  <2>9. \A i \in DOMAIN events' : (\E j \in DOMAIN events : events'[i] = events[j])
          \/ MadeInStep(events'[i], generation', asked', stored', events')
    BY <1>a, <2>1, <2>7
  <2>10. ASSUME NEW y \in Lanes, NEW j \in DOMAIN lane[y], OfCompile(lane[y][j], generation)
         PROVE  \/ \E i \in DOMAIN lane'[y] : OfCompile(lane'[y][i], generation)
                \/ \E i \in DOMAIN events' : OfCompile(events'[i], generation)
    <3>1. CASE y = x /\ lane[x][j] = job
      <4>1. OfCompile(e, generation)
        BY <2>5, <2>10, <3>1 DEF OfCompile
      <4> QED BY <1>a, <2>1, <4>1
    <3>2. CASE y = x /\ lane[x][j] # job
      BY <1>0, <2>1, <2>2, <2>10, <3>2
    <3>3. CASE y # x
      BY <1>0, <2>1, <2>10, <3>3
    <3> QED BY <3>1, <3>2, <3>3
  <2>11. Outstanding => Outstanding'
    BY <1>a, <2>1, <2>10, SMTT(30) DEF Outstanding
  <2> QED BY <1>0, <2>1, <2>6, <2>8, <2>9, <2>11, QuietInStep
<1>11. ASSUME NEW ok \in BOOLEAN, Write(ok) PROVE InStep'
  <2> DEFINE e == [kind |-> "stored", list |-> Head(writer).list, ok |-> ok]
  <2>1. UNCHANGED <<config, generation, asked, lane, runtime>>
        /\ \/ UNCHANGED <<events, stored>>
           \/ /\ events' = Append(events, e)
              /\ stored' = [stored EXCEPT ![Head(writer).list] = IF ok THEN Head(writer).version ELSE @]
    BY <1>11 DEF Write
  <2>2. CASE UNCHANGED <<events, stored>>
    BY <1>u, <2>1, <2>2
  <2>3. CASE /\ events' = Append(events, e)
             /\ stored' = [stored EXCEPT ![Head(writer).list] = IF ok THEN Head(writer).version ELSE @]
    <3>1. e.kind = "stored" /\ e.ok = ok /\ e.list = Head(writer).list
      OBVIOUS
    <3> HIDE DEF e
    <3>2. ASSUME NEW k \in asked.on
          PROVE  Coming(k, events') \/ (~Coming(k, events) /\ stored'[k] = stored[k])
      <4>1. CASE ok /\ k = Head(writer).list
        <5>1. PICK i \in DOMAIN events' : events'[i] = e
          BY <1>a, <2>3
        <5> QED BY <3>1, <4>1, <5>1 DEF Coming
      <4>2. CASE ~(ok /\ k = Head(writer).list)
        <5>1. Coming(k, events) => Coming(k, events')
          BY <1>a, <2>3 DEF Coming
        <5>2. stored'[k] = stored[k]
          BY <1>0, <2>3, <4>2 DEF Requests
        <5> QED BY <5>1, <5>2
      <4> QED BY <4>1, <4>2
    <3>3. \A i \in DOMAIN events' :
            (\E j \in DOMAIN events : events'[i] = events[j]) \/ events'[i].kind # "compiled"
      BY <1>a, <2>3, <3>1
    <3>4. Outstanding => Outstanding'
      BY <1>a, <2>1, <2>3 DEF Outstanding
    <3> QED BY <1>0, <2>1, <3>2, <3>3, <3>4, QuietInStep
  <2> QED BY <2>1, <2>2, <2>3
<1>12. ASSUME TakeFetched PROVE InStep'
  <2> DEFINE e == Head(events)
             job == [kind |-> "check", list |-> e.list, version |-> e.version]
  <2>1. NextEvent("reply") /\ UNCHANGED <<config, generation, asked, stored, runtime>>
        /\ (UNCHANGED lane \/ (e.version # None /\ Push("refresher", job)))
    BY <1>12 DEF TakeFetched
  <2>2. /\ \A y \in Lanes : \A i \in DOMAIN lane'[y] :
             (\E j \in DOMAIN lane[y] : lane'[y][i] = lane[y][j]) \/ lane'[y][i].kind # "made"
        /\ \A y \in Lanes : \A j \in DOMAIN lane[y] :
             \E i \in DOMAIN lane'[y] : lane'[y][i] = lane[y][j]
    <3>1. CASE UNCHANGED lane
      BY <3>1
    <3>2. CASE Push("refresher", job) /\ e.version # None
      <4>1. e \in Events /\ e.kind = "reply"
        BY <1>0, <2>1, TakenKeeps
      <4>2. job \in Jobs /\ job.kind = "check"
        BY <3>2, <4>1 DEF Events, Results, Jobs, CheckJobs
      <4> HIDE DEF job
      <4>3. lane'["refresher"] = Append(lane["refresher"], job)
            /\ \A y \in Lanes \ {"refresher"} : lane'[y] = lane[y]
        BY <1>0, <3>2, <4>2, PushKeeps DEF Lanes
      <4>4. /\ \A i \in DOMAIN lane'["refresher"] :
                 (\E j \in DOMAIN lane["refresher"] : lane'["refresher"][i] = lane["refresher"][j])
                 \/ lane'["refresher"][i] = job
            /\ \A j \in DOMAIN lane["refresher"] :
                 j \in DOMAIN lane'["refresher"] /\ lane'["refresher"][j] = lane["refresher"][j]
        BY <1>0, <4>2, <4>3
      <4> QED BY <4>2, <4>3, <4>4
    <3> QED BY <2>1, <3>1, <3>2
  <2>3. ~OfCompile(events[1], generation)
    BY <1>t, <2>1 DEF OfCompile
  <2>4. Outstanding => Outstanding'
    BY <1>o, <2>1, <2>2, <2>3
  <2>5. \A k \in asked.on : Coming(k, events') \/ (~Coming(k, events) /\ stored'[k] = stored[k])
    BY <1>l, <2>1
  <2>6. \A i \in DOMAIN events' : \E j \in DOMAIN events : events'[i] = events[j]
    BY <1>t, <2>1
  <2> QED BY <1>0, <2>1, <2>2, <2>4, <2>5, <2>6, QuietInStep
<1>13. ASSUME TakeChecked PROVE InStep'
  <2>1. NextEvent("checked") /\ UNCHANGED <<config, runtime, stored>>
        /\ (UNCHANGED <<generation, asked, lane>> \/ Settle(Head(events).list, FALSE, FALSE, writer))
    BY <1>13 DEF TakeChecked
  <2>2. CASE UNCHANGED <<generation, asked, lane>>
    <3>1. ~OfCompile(events[1], generation)
      BY <1>t, <2>1 DEF OfCompile
    <3>2. Outstanding => Outstanding'
      BY <1>o, <2>1, <2>2, <3>1
    <3>3. \A k \in asked.on : Coming(k, events') \/ (~Coming(k, events) /\ stored'[k] = stored[k])
      BY <1>l, <2>1
    <3>4. \A i \in DOMAIN events' : \E j \in DOMAIN events : events'[i] = events[j]
      BY <1>t, <2>1
    <3> QED BY <1>0, <2>1, <2>2, <3>2, <3>3, <3>4, QuietInStep
  <2>3. CASE Settle(Head(events).list, FALSE, FALSE, writer)
    BY <1>s, <2>1, <2>3
  <2> QED BY <2>1, <2>2, <2>3
<1>14. ASSUME TakeStored PROVE InStep'
  <2>1. NextEvent("stored") /\ Settle(Head(events).list, TRUE, Head(events).ok, writer)
        /\ UNCHANGED <<config, runtime, stored>>
    BY <1>14 DEF TakeStored
  <2>2. Head(events) = events[1]
    BY <1>t, <2>1
  <2> QED BY <1>s, <2>1, <2>2
<1>15. ASSUME TakeCompiled PROVE InStep'
  <2> DEFINE e == Head(events)
  <2>1. NextEvent("compiled") /\ UNCHANGED <<config, generation, asked, lane, stored>>
        /\ IF e.generation = generation THEN Land(e.matcher) ELSE UNCHANGED runtime
    BY <1>15 DEF TakeCompiled
  <2>2. e = events[1] /\ e.kind = "compiled" /\ 1 \in DOMAIN events
        /\ \A i \in DOMAIN events' : \E j \in DOMAIN events : events'[i] = events[j]
    BY <1>t, <2>1
  <2>3. \A k \in asked.on : Coming(k, events') \/ (~Coming(k, events) /\ stored'[k] = stored[k])
    BY <1>l, <2>1
  <2>4. MadeInStep(e, generation, asked, stored, events)
    BY <2>2 DEF InStep
  <2> HIDE DEF e
  <2>5. \/ InForce' \/ asked.rules \in Uncompiled
        \/ /\ Outstanding => Outstanding'
           /\ UNCHANGED runtime
    <3>1. CASE e.generation # generation
      <4>1. ~OfCompile(events[1], generation)
        BY <2>2, <3>1 DEF OfCompile
      <4>2. Outstanding => Outstanding'
        BY <1>o, <2>1, <4>1
      <4> QED BY <2>1, <3>1, <4>2
    <3>2. CASE e.generation = generation /\ e.matcher = NoMatcher
      BY <2>4, <3>2 DEF MadeInStep
    <3>3. CASE e.generation = generation /\ e.matcher # NoMatcher
      <4>1. ReadsFiles(e.matcher, asked, stored, events)
        BY <2>4, <3>3 DEF MadeInStep
      <4>2. runtime' = [matcher |-> e.matcher, off |-> config.off]
        BY <2>1, <3>3 DEF Land
      <4>3. runtime'.matcher = e.matcher /\ runtime'.off = config'.off
        BY <2>1, <4>2
      <4>4. ReadsFiles(e.matcher, asked', stored', events')
        BY <2>1, <2>3, <4>1, StillReads
      <4> QED BY <4>3, <4>4 DEF InForce
    <3> QED BY <3>1, <3>2, <3>3
  <2> QED BY <1>0, <2>1, <2>2, <2>3, <2>5, QuietInStep
<1>16. ASSUME Crash \/ Quit PROVE InStep'
  <2>1. \E d, files : Start(d, files)
    BY <1>16, QuitFrom DEF Crash
  <2> QED BY <2>1, StartInStep
<1>17. CASE UNCHANGED vars
  BY <1>17, <1>u DEF vars
<1> QED BY <1>1, <1>2, <1>3, <1>4, <1>5, <1>6, <1>7, <1>8, <1>9, <1>10, <1>11, <1>12, <1>13,
           <1>14, <1>15, <1>16, <1>17
        DEF Next, Reader, Network, Threads, Interface

\* Everything the claims about rest need holds of every reachable state.
Resting == Held /\ Newest /\ CompilingIsShown /\ InStep

\* It does so in the first state and after every step.
LEMMA RestingHolds == Spec => []Resting
<1>1. Init => Resting
  BY InitHeld, InitNewest, InitShown, InitInStep DEF Resting
<1>2. Resting /\ [Next]_vars => Resting'
  BY NextHeld, NextNewest, NextShown, NextInStep DEF Resting
<1> QED BY <1>1, <1>2, PTL DEF Spec

\* With nothing under way no queue holds work.
LEMMA NothingUnderWay ==
  ASSUME Held, CompilingIsShown, active = 0
  PROVE  /\ ~Outstanding
         /\ \A l : ~Coming(l, events)
<1>1. /\ lane["compiler"] \in Seq(Jobs) /\ lane["refresher"] \in Seq(Jobs)
      /\ writer \in Seq(Writes) /\ events \in Seq(Events)
  BY DEF Held, Lanes
<1>2. /\ Under(lane["compiler"]) = 0 /\ Under(lane["refresher"]) = 0 /\ Under(events) = 0
  BY <1>1, UnderNat DEF CompilingIsShown
<1>3. /\ CountedAt(lane["compiler"]) = {} /\ CountedAt(lane["refresher"]) = {}
      /\ CountedAt(events) = {}
  BY <1>1, <1>2, UnderNat, FS_EmptySet DEF Under
<1>4. \A x \in Lanes : CountedAt(lane[x]) = {}
  BY <1>3 DEF Lanes
<1>5. ~Outstanding
  BY <1>3, <1>4 DEF Outstanding, OfCompile, CountedAt, Uncounted
<1>6. \A l : ~Coming(l, events)
  BY <1>3 DEF Coming, CountedAt, Uncounted
<1> QED BY <1>5, <1>6

\* Once nothing is under way the rules in force are the reader's own and the
\* stored content of the lists last asked for, whichever fetches, switches, saves
\* and applied checkouts came between (settleFetchedList, recompileOn, land).
THEOREM RestCurrent == Spec => []RestIsCurrent
<1>1. Resting => RestIsCurrent
  <2> SUFFICES ASSUME Resting, active = 0, config.rules \notin Uncompiled
               PROVE  /\ runtime.matcher.rules = config.rules
                      /\ runtime.matcher.read = [l \in {k \in asked.on : stored[k] # None} |-> stored[l]]
                      /\ runtime.off = config.off
    BY DEF RestIsCurrent
  <2> DEFINE m == runtime.matcher
             S == {k \in asked.on : stored[k] # None}
  <2>1. ~Outstanding /\ \A l : ~Coming(l, events)
    BY NothingUnderWay DEF Resting
  <2>2. InForce /\ asked.rules = config.rules
    BY <2>1 DEF Resting, InStep
  <2>3. Request(m) = asked /\ DOMAIN m.read \subseteq asked.on /\ runtime.off = config.off
        /\ \A l \in asked.on : IF l \in DOMAIN m.read THEN m.read[l] = stored[l] ELSE stored[l] = None
    BY <2>1, <2>2 DEF InForce, ReadsFiles
  <2>4. m \in Matchers
    BY DEF Resting, Held
  <2>5. m.rules = config.rules
    BY <2>2, <2>3 DEF Request
  <2>6. m # NoMatcher
    <3>1. m.rules \in Rules /\ NoMatcher.rules = None
      BY <2>5 DEF Resting, Held, Configs, NoMatcher
    <3> QED BY <3>1, BlockingAssumption
  <2>7. PICK ls \in SUBSET List : m.read \in [ls -> Version]
    BY <2>4, <2>6 DEF Matchers
  <2>8. DOMAIN m.read = S
    BY <2>3, <2>7, BlockingAssumption
  <2>9. m.read = [l \in S |-> stored[l]]
    BY <2>3, <2>7, <2>8
  <2> QED BY <2>3, <2>5, <2>9
<1> QED BY <1>1, RestingHolds, PTL

-----------------------------------------------------------------------------
(* What the settings file will hold                                        *)

\* The saves of a queue, and the configuration the file holds once they are made.
SavesIn(queue) == {queue[i] : i \in {j \in DOMAIN queue : queue[j].kind = "save"}}
FileAfter(queue, d) ==
  IF SavesIn(queue) = {} THEN d.config ELSE (CHOOSE job \in SavesIn(queue) : TRUE).config

\* A queue holds one save at the most: a newer one has the older skipped.
SavesOnce(queue) ==
  \A i, j \in DOMAIN queue : queue[i].kind = "save" /\ queue[j].kind = "save" => i = j

\* The one save of a queue is what the file will hold.
LEMMA FileOfTheSave ==
  ASSUME NEW queue, NEW d, SavesOnce(queue), NEW i \in DOMAIN queue, queue[i].kind = "save"
  PROVE  FileAfter(queue, d) = queue[i].config
<1>1. SavesIn(queue) = {queue[i]}
  BY DEF SavesIn, SavesOnce
<1> HIDE DEF SavesOnce
<1>2. (CHOOSE job \in SavesIn(queue) : TRUE) = queue[i]
  BY <1>1
<1> QED BY <1>1, <1>2 DEF FileAfter

\* A queue without a save leaves the file as it is.
LEMMA FileWithoutSave ==
  ASSUME NEW queue, NEW d, \A i \in DOMAIN queue : queue[i].kind # "save"
  PROVE  FileAfter(queue, d) = d.config /\ SavesOnce(queue)
BY DEF FileAfter, SavesIn, SavesOnce

\* Two queues with the same saves come to the same file.
LEMMA FileOfSameSaves ==
  ASSUME NEW q, NEW r, NEW d, NEW e, SavesOnce(q), SavesOnce(r), d.config = e.config,
         \A i \in DOMAIN q : q[i].kind = "save" => \E j \in DOMAIN r : r[j] = q[i],
         \A j \in DOMAIN r : r[j].kind = "save" => \E i \in DOMAIN q : q[i] = r[j]
  PROVE  FileAfter(q, d) = FileAfter(r, e)
<1>1. CASE \E i \in DOMAIN q : q[i].kind = "save"
  <2>1. PICK i \in DOMAIN q : q[i].kind = "save"
    BY <1>1
  <2>2. PICK j \in DOMAIN r : r[j] = q[i]
    BY <2>1
  <2>3. FileAfter(q, d) = q[i].config
    BY <2>1, FileOfTheSave
  <2>4. r[j].kind = "save"
    BY <2>1, <2>2
  <2>5. FileAfter(r, e) = r[j].config
    BY <2>4, FileOfTheSave
  <2> QED BY <2>2, <2>3, <2>5
<1>2. CASE ~ \E i \in DOMAIN q : q[i].kind = "save"
  <2>1. FileAfter(q, d) = d.config
    BY <1>2, FileWithoutSave
  <2>2. \A j \in DOMAIN r : r[j].kind # "save"
    BY <1>2
  <2>3. FileAfter(r, e) = e.config
    BY <2>2, FileWithoutSave
  <2> QED BY <2>1, <2>3
<1> QED BY <1>1, <1>2

\* A save queued now is the only one, and what the file will hold.
LEMMA FileOfSaved ==
  ASSUME NEW queue \in Seq(Writes), NEW c \in Configs, NEW st \in [List -> Statuses], NEW d
  PROVE  /\ SavesOnce(Saved(queue, c, st))
         /\ FileAfter(Saved(queue, c, st), d) = c
<1> DEFINE q == Saved(queue, c, st)
           n == Len(queue) + 1
<1>1. /\ q \in Seq(Writes) /\ Len(q) = n /\ Len(queue) \in Nat
      /\ q[n] = [kind |-> "save", config |-> c, status |-> st]
      /\ \A i \in DOMAIN q : i # n => q[i] = Skipping(queue)[i]
  <2>1. Len(q) = n /\ q \in Seq(Writes) /\ Len(queue) \in Nat
    BY SavedKeeps
  <2>2. n \in DOMAIN q
    BY <2>1
  <2> QED BY <2>1, <2>2, SavedKeeps
<1>2. \A i \in DOMAIN q : i # n => i \in DOMAIN queue
  BY <1>1
<1> HIDE DEF q
<1>3. \A i \in DOMAIN q : i # n => q[i].kind # "save"
  <2> SUFFICES ASSUME NEW i \in DOMAIN q, i # n PROVE q[i].kind # "save"
    OBVIOUS
  <2> HIDE DEF n
  <2>1. q[i] = IF queue[i].kind = "save" THEN [kind |-> "skipped"] ELSE queue[i]
    BY <1>1, <1>2, SkippingKeeps
  <2> QED BY <2>1
<1>4. n \in DOMAIN q /\ q[n].kind = "save" /\ q[n].config = c
  BY <1>1
<1> HIDE DEF n
<1>5. SavesOnce(q)
  BY <1>3 DEF SavesOnce
<1>6. FileAfter(q, d) = c
  BY <1>4, <1>5, FileOfTheSave
<1> QED BY <1>5, <1>6 DEF q

\* The writer has one save queued at the most.
OneSave == SavesOnce(writer)

\* What a step does to the file that follows the reader's choices.
Followed ==
  ToBeSaved = config => \/ ToBeSaved' = config'
                        \/ disk' # disk /\ writer' = writer /\ writer # << >>

LEMMA FileToBe == ToBeSaved = FileAfter(writer, disk) /\ ToBeSaved' = FileAfter(writer', disk')
BY DEF ToBeSaved, Queued, FileAfter, SavesIn

\* A step that saves what is chosen then.
LEMMA SavingFollows ==
  ASSUME NEW queue \in Seq(Writes), NEW c \in Configs, NEW st \in [List -> Statuses],
         writer' = Saved(queue, c, st), config' = c
  PROVE  OneSave' /\ Followed
<1>1. SavesOnce(writer') /\ FileAfter(writer', disk') = c
  BY FileOfSaved
<1>2. ToBeSaved' = c
  BY <1>1, FileToBe
<1> QED BY <1>1, <1>2 DEF OneSave, Followed

\* A step that leaves the saves, the file and what is chosen.
LEMMA LeavingFollows ==
  ASSUME OneSave, disk'.config = disk.config, UNCHANGED config, SavesOnce(writer'),
         \A i \in DOMAIN writer : writer[i].kind = "save" => \E j \in DOMAIN writer' : writer'[j] = writer[i],
         \A j \in DOMAIN writer' : writer'[j].kind = "save" => \E i \in DOMAIN writer : writer[i] = writer'[j]
  PROVE  OneSave' /\ Followed
<1>1. FileAfter(writer, disk) = FileAfter(writer', disk')
  BY FileOfSameSaves DEF OneSave
<1> QED BY <1>1, FileToBe DEF OneSave, Followed

LEMMA StillFollows ==
  ASSUME OneSave, UNCHANGED <<config, writer>>, disk'.config = disk.config
  PROVE  OneSave' /\ Followed
<1>1. SavesOnce(writer')
  BY DEF OneSave
<1> QED BY <1>1, LeavingFollows

\* A session begins with nothing queued.
LEMMA StartFollows ==
  ASSUME NEW d, NEW files, Start(d, files)
  PROVE  OneSave' /\ Followed
<1>1. writer' = << >> /\ disk' = d /\ config' = d.config
  BY DEF Start
<1>2. FileAfter(writer', disk') = d.config /\ SavesOnce(writer')
  BY <1>1, FileWithoutSave
<1> QED BY <1>1, <1>2, FileToBe DEF OneSave, Followed

\* A list that is settled is saved with what the reader chose, or not at all.
LEMMA SettleFollows ==
  ASSUME Held, OneSave, UNCHANGED <<config, disk>>,
         NEW l \in List, NEW usable \in BOOLEAN, NEW isStored \in BOOLEAN,
         Settle(l, usable, isStored, writer)
  PROVE  OneSave' /\ Followed
<1> DEFINE compiles == isStored /\ l \in config.on
           st == [status EXCEPT ![l] = IF ~usable \/ ~isStored THEN "failed"
                                       ELSE IF compiles THEN "compiling" ELSE "current"]
<1>1. CASE l \notin config.known
  BY <1>1, StillFollows DEF Settle
<1>2. CASE l \in config.known
  <2>1. writer' = Saved(writer, config, st)
    BY <1>2 DEF Settle
  <2>2. st \in [List -> Statuses]
    BY DEF Held, Statuses
  <2> HIDE DEF st
  <2> QED BY <2>1, <2>2, SavingFollows DEF Held
<1> QED BY <1>1, <1>2

\* Every step keeps one save queued at the most, and the file after what the
\* reader chose, but for what Sync writes in front of a save.
LEMMA NextFollows ==
  ASSUME Held, OneSave, [Next]_vars
  PROVE  OneSave' /\ Followed
<1> USE DEF memory, threads
<1>0. /\ writer \in Seq(Writes) /\ status \in [List -> Statuses]
      /\ events \in Seq(Events) /\ config \in Configs
  BY DEF Held
<1>u. ASSUME UNCHANGED <<config, writer, disk>> PROVE OneSave' /\ Followed
  BY <1>u, StillFollows
<1>1. ASSUME NEW r \in Rules, SetUserRules(r) PROVE OneSave' /\ Followed
  <2> DEFINE c == [config EXCEPT !.rules = r]
  <2>1. c \in Configs
    BY <1>0 DEF Configs
  <2>2. writer' = Saved(writer, c, status) /\ config' = c
    BY <1>1 DEF SetUserRules
  <2> HIDE DEF c
  <2> QED BY <1>0, <2>1, <2>2, SavingFollows
<1>2. ASSUME NEW l \in List, NEW enabled \in BOOLEAN, SetEnabled(l, enabled)
      PROVE  OneSave' /\ Followed
  <2> DEFINE c == [config EXCEPT !.on = IF enabled THEN @ \cup {l} ELSE @ \ {l}]
  <2>1. c \in Configs
    BY <1>0, <1>2 DEF Configs, SetEnabled
  <2>2. writer' = Saved(writer, c, status) /\ config' = c
    BY <1>2 DEF SetEnabled
  <2> HIDE DEF c
  <2> QED BY <1>0, <2>1, <2>2, SavingFollows
<1>3. ASSUME NEW off \in BOOLEAN, SetSite(off) PROVE OneSave' /\ Followed
  <2> DEFINE c == [config EXCEPT !.off = off]
  <2>1. c \in Configs
    BY <1>0 DEF Configs
  <2>2. writer' = Saved(writer, c, status) /\ config' = c
    BY <1>3 DEF SetSite
  <2> HIDE DEF c
  <2> QED BY <1>0, <2>1, <2>2, SavingFollows
<1>4. ASSUME NEW l \in List, Update(l) PROVE OneSave' /\ Followed
  BY <1>4, <1>u DEF Update
<1>5. ASSUME NEW l \in List, Subscribe(l) PROVE OneSave' /\ Followed
  <2> DEFINE c == [config EXCEPT !.known = @ \cup {l}, !.on = @ \cup {l}]
             st == [status EXCEPT ![l] = "none"]
  <2>1. c \in Configs /\ st \in [List -> Statuses]
    BY <1>0 DEF Configs, Statuses
  <2>2. writer' = Saved(writer, c, st) /\ config' = c
    BY <1>5 DEF Subscribe
  <2> HIDE DEF c, st
  <2> QED BY <1>0, <2>1, <2>2, SavingFollows
<1>6. ASSUME RestoreDefaults PROVE OneSave' /\ Followed
  <2> DEFINE back == Seeded \ config.known
             c == [config EXCEPT !.known = @ \cup back, !.on = @ \cup back]
             st == [l \in List |-> IF l \in back THEN "none" ELSE status[l]]
  <2>1. c \in Configs /\ st \in [List -> Statuses]
    BY <1>0, BlockingAssumption DEF Configs, Statuses
  <2>2. writer' = Saved(writer, c, st) /\ config' = c
    BY <1>6 DEF RestoreDefaults
  <2> HIDE DEF c, st, back
  <2> QED BY <1>0, <2>1, <2>2, SavingFollows
<1>7. ASSUME NEW known \in SUBSET List, NEW on \in SUBSET known, ApplySync(known, on)
      PROVE  OneSave' /\ Followed
  <2> DEFINE c == [disk.config EXCEPT !.known = known, !.on = on]
  <2>1. /\ writer' = writer /\ disk'.config = c
        /\ \/ c = disk.config /\ UNCHANGED config
           \/ config' = c
    BY <1>7 DEF ApplySync
  <2> HIDE DEF c
  <2>2. OneSave'
    BY <2>1 DEF OneSave
  <2>3. CASE c = disk.config /\ UNCHANGED config
    BY <2>1, <2>3, StillFollows
  <2>4. CASE c # disk.config
    <3>1. disk' # disk
      BY <2>1, <2>4
    <3>2. ASSUME writer = << >> PROVE ToBeSaved' = config'
      <4>1. FileAfter(writer', disk') = disk'.config
        BY <2>1, <3>2, FileWithoutSave
      <4> QED BY <2>1, <2>4, <4>1, FileToBe
    <3> QED BY <2>1, <2>2, <3>1, <3>2 DEF Followed
  <2>5. CASE c = disk.config /\ config' = c
    <3>1. FileAfter(writer', disk') = FileAfter(writer, disk)
      BY <2>1, <2>2, <2>5, FileOfSameSaves DEF OneSave
    <3>2. ToBeSaved' = ToBeSaved
      BY <3>1, FileToBe
    <3> QED BY <1>7, <2>2, <2>5, <3>2 DEF Followed, ApplySync
  <2> QED BY <2>1, <2>3, <2>4, <2>5
<1>8. ASSUME NEW l \in List, NEW v \in Version \cup {None}, Reply(l, v)
      PROVE  OneSave' /\ Followed
  BY <1>8, <1>u DEF Reply
<1>9. ASSUME Check PROVE OneSave' /\ Followed
  BY <1>9, <1>u DEF Check
<1>10. ASSUME NEW x \in Lanes, BeginCompile(x) \/ EndCompile(x) PROVE OneSave' /\ Followed
  BY <1>10, <1>u DEF BeginCompile, EndCompile
<1>11. ASSUME NEW ok \in BOOLEAN, Write(ok) PROVE OneSave' /\ Followed
  <2> DEFINE job == Head(writer)
  <2>1. /\ writer # << >> /\ writer' = Tail(writer) /\ UNCHANGED config
        /\ 1 \in DOMAIN writer /\ job = writer[1]
        /\ \A i \in DOMAIN writer' : i + 1 \in DOMAIN writer /\ writer'[i] = writer[i + 1]
        /\ DOMAIN writer = 1 .. Len(writer) /\ Len(writer) \in Nat
        /\ DOMAIN writer' = 1 .. Len(writer) - 1
    BY <1>0, <1>11, QueueTail DEF Write
  <2>2. SavesOnce(writer')
    <3> SUFFICES ASSUME NEW i \in DOMAIN writer', NEW j \in DOMAIN writer',
                        writer'[i].kind = "save", writer'[j].kind = "save"
                 PROVE  i = j
      BY DEF SavesOnce
    <3>1. i + 1 = j + 1
      BY <2>1 DEF OneSave, SavesOnce
    <3> QED BY <2>1, <3>1
  <2>3. CASE job.kind = "save"
    <3>1. disk'.config = job.config
      BY <1>11, <2>3 DEF Write
    <3>2. \A i \in DOMAIN writer' : writer'[i].kind # "save"
      <4> SUFFICES ASSUME NEW i \in DOMAIN writer', writer'[i].kind = "save" PROVE FALSE
        OBVIOUS
      <4>1. i + 1 = 1
        BY <2>1, <2>3 DEF OneSave, SavesOnce
      <4> QED BY <2>1, <4>1
    <3>3. FileAfter(writer', disk') = job.config
      BY <3>1, <3>2, FileWithoutSave
    <3>4. FileAfter(writer, disk) = job.config
      BY <2>1, <2>3, FileOfTheSave DEF OneSave
    <3>5. ToBeSaved' = ToBeSaved
      BY <3>3, <3>4, FileToBe
    <3> QED BY <2>1, <2>2, <3>5 DEF OneSave, Followed
  <2>4. CASE job.kind # "save"
    <3>1. UNCHANGED disk
      BY <1>11, <2>4 DEF Write
    <3>2. ASSUME NEW i \in DOMAIN writer, writer[i].kind = "save"
          PROVE  \E j \in DOMAIN writer' : writer'[j] = writer[i]
      <4>1. i # 1
        BY <2>1, <2>4, <3>2
      <4>2. i - 1 \in DOMAIN writer' /\ (i - 1) + 1 = i
        BY <2>1, <4>1
      <4> QED BY <2>1, <4>2
    <3>3. ASSUME NEW j \in DOMAIN writer'
          PROVE  \E i \in DOMAIN writer : writer[i] = writer'[j]
      BY <2>1
    <3> QED BY <2>1, <2>2, <3>1, <3>2, <3>3, LeavingFollows
  <2> QED BY <2>3, <2>4
<1>12. ASSUME TakeFetched PROVE OneSave' /\ Followed
  <2> DEFINE e == Head(events)
             st == [status EXCEPT ![e.list] = IF e.version = None THEN "failed"
                                              ELSE "validating"]
  <2>1. /\ UNCHANGED <<config, disk>>
        /\ \/ UNCHANGED writer
           \/ writer' = Saved(writer, config, st)
    BY <1>12 DEF TakeFetched
  <2>2. st \in [List -> Statuses]
    BY <1>0 DEF Statuses
  <2> HIDE DEF st
  <2> QED BY <1>0, <1>u, <2>1, <2>2, SavingFollows
<1>13. ASSUME TakeChecked PROVE OneSave' /\ Followed
  <2> DEFINE e == Head(events)
             job == [kind |-> "store", list |-> e.list, version |-> e.version]
  <2>1. NextEvent("checked") /\ UNCHANGED <<config, disk>>
    BY <1>13 DEF TakeChecked
  <2>2. e \in Events /\ e.kind = "checked"
    BY <1>0, <2>1, TakenKeeps
  <2>3. e.list \in List /\ e.version \in Version
    BY <2>2 DEF Events, Results
  <2>4. CASE e.usable
    <3>1. writer' = Append(writer, job)
      BY <1>13, <2>4 DEF TakeChecked
    <3>2. job \in Writes /\ job.kind # "save"
      BY <2>3 DEF Writes
    <3> HIDE DEF job
    <3>3. /\ DOMAIN writer \subseteq DOMAIN writer'
          /\ \A i \in DOMAIN writer : writer'[i] = writer[i]
          /\ \A i \in DOMAIN writer' : i \in DOMAIN writer \/ writer'[i] = job
      BY <1>0, <3>1, <3>2
    <3>4. SavesOnce(writer')
      BY <3>2, <3>3 DEF OneSave, SavesOnce
    <3>5. /\ \A i \in DOMAIN writer : \E j \in DOMAIN writer' : writer'[j] = writer[i]
          /\ \A j \in DOMAIN writer' : writer'[j].kind = "save"
               => \E i \in DOMAIN writer : writer[i] = writer'[j]
      BY <3>2, <3>3
    <3> QED BY <2>1, <3>4, <3>5, LeavingFollows
  <2>5. CASE ~e.usable
    <3>1. Settle(e.list, FALSE, FALSE, writer)
      BY <1>13, <2>5 DEF TakeChecked
    <3> QED BY <2>1, <2>3, <3>1, SettleFollows
  <2> QED BY <2>4, <2>5
<1>14. ASSUME TakeStored PROVE OneSave' /\ Followed
  <2> DEFINE e == Head(events)
  <2>1. NextEvent("stored") /\ UNCHANGED <<config, disk>> /\ Settle(e.list, TRUE, e.ok, writer)
    BY <1>14 DEF TakeStored
  <2>2. e \in Events /\ e.kind = "stored"
    BY <1>0, <2>1, TakenKeeps
  <2>3. e.list \in List /\ e.ok \in BOOLEAN
    BY <2>2 DEF Events, Results
  <2> QED BY <2>1, <2>3, SettleFollows
<1>15. ASSUME TakeCompiled PROVE OneSave' /\ Followed
  <2> DEFINE e == Head(events)
             st == [l \in List |-> IF l \in pending \cap config.known
                                   THEN IF e.matcher # NoMatcher THEN "current" ELSE "failed"
                                   ELSE status[l]]
  <2>1. UNCHANGED <<config, disk>> /\ (UNCHANGED writer \/ writer' = Saved(writer, config, st))
    BY <1>15 DEF TakeCompiled, Land
  <2>2. st \in [List -> Statuses]
    BY <1>0 DEF Statuses
  <2> HIDE DEF st
  <2> QED BY <1>0, <1>u, <2>1, <2>2, SavingFollows
<1>16. ASSUME Crash PROVE OneSave' /\ Followed
  BY <1>16, StartFollows DEF Crash
<1>17. ASSUME Quit PROVE OneSave' /\ Followed
  <2>1. PICK d, files : Start(d, files)
    BY <1>17 DEF Quit
  <2> QED BY <2>1, StartFollows
<1>18. CASE UNCHANGED vars
  BY <1>18, <1>u DEF vars
<1> QED BY <1>1, <1>2, <1>3, <1>4, <1>5, <1>6, <1>7, <1>8, <1>9, <1>10, <1>11, <1>12, <1>13,
           <1>14, <1>15, <1>16, <1>17, <1>18
        DEF Next, Reader, Network, Threads, Interface

\* Once the file is, or will be, what the reader chose, it stays so through every
\* change, fetch, compile, failed write, crash and quit, but for a checkout that
\* Sync writes while the writer still has a file to write (saveConfiguration,
\* reloadSyncedConfiguration): one save is queued at the most, the newest.
THEOREM FileFollowed == Spec => FileFollows
<1>1. Init => Held /\ OneSave
  <2>1. Init => writer = << >>
    BY DEF Init
  <2> QED BY <2>1, InitHeld DEF OneSave, SavesOnce
<1>2. Held /\ OneSave /\ [Next]_vars => Held' /\ OneSave' /\ Followed
  BY NextHeld, NextFollows
<1>3. Followed => [ToBeSaved = config =>
                     \/ ToBeSaved' = config'
                     \/ disk' # disk /\ writer' = writer /\ writer # << >>]_vars
  BY DEF Followed
<1> QED BY <1>1, <1>2, <1>3, PTL DEF Spec, FileFollows

=============================================================================
