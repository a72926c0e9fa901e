------------------------- MODULE AgentControlLemmas -------------------------
(***************************************************************************)
(* What the handlers of Agent control keep, for any names, sockets,        *)
(* Spaces, tabs and bounds; AgentControlProofs takes the runs from there.  *)
(*                                                                         *)
(* A handler is an operator from a record of the state to another, so most *)
(* lemmas are about one such record: what an operator changes in it, and   *)
(* which part of the invariant Sound it keeps.                             *)
(***************************************************************************)
EXTENDS AgentControl, FiniteSetTheorems, WellFoundedInduction, TLAPS

-----------------------------------------------------------------------------
(* Records of the state                                                    *)

Fields ==
  {"allowed", "spaces", "agentSpaces", "temporary", "granted", "tabs", "used", "opened",
   "attached", "windows", "conn", "grants", "pages", "made", "names", "socket", "asked",
   "carried", "stopped"}

\* c has the fields of Now.
Rec(c) == DOMAIN c = Fields /\ c = [x \in DOMAIN c |-> c[x]]

\* c and d differ in no field but these.
Same(c, d, S) == \A x \in Fields \ S : d[x] = c[x]

\* The state is such a record.
LEMMA NowIsRec == Rec(Now)
BY DEF Rec, Now, Fields

\* Whoever is in tabs N knows no tab.
OutOf(conn0, N) ==
  [n \in Names |-> IF n \in N THEN [conn0[n] EXCEPT !.tab = None] ELSE conn0[n]]

\* What an answer changes.
LEMMA ReplyFields ==
  ASSUME NEW c, Rec(c), NEW s
  PROVE  /\ Rec(Reply(c, s)) /\ Same(c, Reply(c, s), {"asked", "stopped"})
         /\ Reply(c, s).asked = [c.asked EXCEPT ![s] = NoRequest]
         /\ Reply(c, s).stopped = c.stopped \ {s}
BY DEF Rec, Reply, Fields, Same

\* What several answers change.
LEMMA ReplyAllFields ==
  ASSUME NEW c, Rec(c), NEW S
  PROVE  /\ Rec(ReplyAll(c, S)) /\ Same(c, ReplyAll(c, S), {"asked", "stopped"})
         /\ ReplyAll(c, S).asked =
              [s \in Sockets |-> IF s \in S THEN NoRequest ELSE c.asked[s]]
         /\ ReplyAll(c, S).stopped = c.stopped \ S
BY DEF Rec, ReplyAll, Fields, Same

\* What leaving tabs changes.
LEMMA LeaveTabsFields ==
  ASSUME NEW c, Rec(c), NEW N
  PROVE  /\ Rec(LeaveTabs(c, N)) /\ Same(c, LeaveTabs(c, N), {"conn"})
         /\ LeaveTabs(c, N).conn = OutOf(c.conn, N)
BY DEF Rec, LeaveTabs, Fields, Same, OutOf

\* What forgetting windows changes.
LEMMA ForgetWindowsFields ==
  ASSUME NEW c, Rec(c), NEW W
  PROVE  LET d == ForgetWindows(c, W)
         IN /\ Rec(d) /\ Same(c, d, {"conn", "windows"})
            /\ d.conn = OutOf(c.conn, NamesAt(c, W)) /\ d.windows = Without(c.windows, W)
<1> DEFINE e == LeaveTabs(c, NamesAt(c, W))
<1>1. Rec(e) /\ Same(c, e, {"conn"}) /\ e.conn = OutOf(c.conn, NamesAt(c, W))
  BY LeaveTabsFields
<1>2. ForgetWindows(c, W) = [e EXCEPT !.windows = Without(@, W)]
  BY DEF ForgetWindows
<1> HIDE DEF e
<1> QED BY <1>1, <1>2 DEF Same, Rec, Fields

\* What detaching tabs changes.
LEMMA DetachFields ==
  ASSUME NEW c, Rec(c), NEW T
  PROVE  LET d == Detach(c, T)
             W == {w \in DOMAIN c.windows : c.windows[w] \in T}
         IN /\ Rec(d) /\ Same(c, d, {"conn", "windows", "attached"})
            /\ d.conn = OutOf(c.conn, NamesAt(c, W)) /\ d.windows = Without(c.windows, W)
            /\ d.attached = Without(c.attached, T)
<1> DEFINE W == {w \in DOMAIN c.windows : c.windows[w] \in T}
           e == ForgetWindows(c, W)
<1>1. Rec(e) /\ Same(c, e, {"conn", "windows"}) /\ e.conn = OutOf(c.conn, NamesAt(c, W))
      /\ e.windows = Without(c.windows, W)
  BY ForgetWindowsFields
<1>2. Detach(c, T) = [e EXCEPT !.attached = Without(@, T)]
  BY DEF Detach
<1> HIDE DEF e, W
<1>3. /\ Rec(Detach(c, T)) /\ Same(c, Detach(c, T), {"conn", "windows", "attached"})
      /\ Detach(c, T).conn = e.conn /\ Detach(c, T).windows = e.windows
      /\ Detach(c, T).attached = Without(c.attached, T)
  BY <1>1, <1>2 DEF Same, Rec, Fields
<1> QED BY <1>1, <1>3 DEF W

-----------------------------------------------------------------------------
(* The invariant                                                           *)

\* The types of what Agent control holds.
Typed(c) ==
  /\ Rec(c)
  /\ c.allowed \in BOOLEAN
  /\ c.spaces \subseteq c.used \cap Spaces /\ c.spaces # {}
  /\ c.agentSpaces \in [DOMAIN c.agentSpaces -> Names] /\ DOMAIN c.agentSpaces \subseteq c.spaces
  /\ c.temporary \subseteq DOMAIN c.agentSpaces
  /\ c.granted \subseteq c.spaces \ DOMAIN c.agentSpaces
  /\ c.tabs \in [DOMAIN c.tabs -> c.spaces] /\ DOMAIN c.tabs \subseteq c.used \cap Tabs
  /\ c.opened \subseteq c.used \cap Tabs
  /\ c.attached \in [DOMAIN c.attached -> Names] /\ DOMAIN c.attached \subseteq c.used \cap Tabs
  /\ c.windows \in [DOMAIN c.windows -> Tabs] /\ DOMAIN c.windows \subseteq c.used \cap Windows
  /\ c.conn \in [Names -> Connections]
  /\ c.grants \in Seq(Prompts)
  /\ c.pages \in [DOMAIN c.pages -> c.used \cap (Tabs \cup Windows)]
  /\ DOMAIN c.pages \subseteq Sockets
  /\ c.made \in [Sockets -> SUBSET Spaces] /\ c.names \in [Sockets -> SUBSET Names]
  /\ c.socket \in [Sockets -> {"open", "closing", "closed"}]
  /\ c.asked \in [Sockets -> Requests]
  /\ c.carried \subseteq Tabs /\ c.stopped \subseteq Sockets

\* What is worked in may be reached, but for what the reader carried away, and
\* every window belongs to an Agent tab.
Reaches(c) ==
  /\ \A t \in DOMAIN c.attached : t \in DOMAIN c.tabs \ c.carried => Usable(c, c.tabs[t])
  /\ \A s \in DOMAIN c.pages :
       LET t == OpenerOf(c, c.pages[s])
       IN t \in DOMAIN c.tabs \ c.carried => Usable(c, c.tabs[t])
  /\ \A w \in DOMAIN c.windows : c.windows[w] \in DOMAIN c.attached

\* A prompt is about a Space of the list that needs one, is there once, and
\* somebody waits on it.
Prompting(c) ==
  \A i \in DOMAIN c.grants :
    /\ c.grants[i].space \in c.spaces \ (c.granted \cup DOMAIN c.agentSpaces)
    /\ c.grants[i].waiters # <<>>
    /\ \A j \in DOMAIN c.grants : c.grants[j].space = c.grants[i].space => i = j

\* The prompts that socket s waits on.
WaitsOn(c, s) ==
  {i \in DOMAIN c.grants : \E k \in DOMAIN c.grants[i].waiters : c.grants[i].waiters[k].socket = s}

\* Waiter k of prompt i asked for a page of a Space it was not refused, and waits
\* there once and nowhere else.
WaitsWell(c, i, k) ==
  LET w == c.grants[i].waiters[k]
  IN /\ c.asked[w.socket].verb \in PageVerbs \cup {"open"}
     /\ c.grants[i].space \notin c.conn[c.asked[w.socket].name].denied
     /\ w.socket \notin DOMAIN c.pages
     /\ \A j \in WaitsOn(c, w.socket) : i = j
     /\ \A l \in DOMAIN c.grants[i].waiters : c.grants[i].waiters[l].socket = w.socket => k = l
Waiting(c) == \A i \in DOMAIN c.grants : \A k \in DOMAIN c.grants[i].waiters : WaitsWell(c, i, k)

\* But for the sockets S, whose requests are being handled, a request that was
\* not answered is held somewhere, and one that was nowhere.
Pending(c, S) ==
  /\ \A s \in Sockets :
       c.asked[s] # NoRequest => s \in S \cup DOMAIN c.pages \/ WaitsOn(c, s) # {}
  /\ \A s \in S \cup DOMAIN c.pages : c.asked[s] # NoRequest
  /\ \A s \in S : s \in Sockets \ DOMAIN c.pages /\ WaitsOn(c, s) = {}

\* Waiter k of prompt i remembers no stop later than the last, and an earlier
\* one if it was stopped since.
Remembers(c, i, k) ==
  LET w == c.grants[i].waiters[k]
      stops == c.conn[c.asked[w.socket].name].stops
  IN w.stops <= stops /\ (w.socket \in c.stopped => w.stops < stops)
Stops(c) ==
  /\ \A i \in DOMAIN c.grants : \A k \in DOMAIN c.grants[i].waiters : Remembers(c, i, k)
  /\ \A s \in c.stopped : c.asked[s] # NoRequest

\* While there is a temporary Space there is an id for the one that may have to
\* take its place.
Spare(c) == c.temporary # {} => Unused(c, Spaces) # {}

\* A temporary Space has a connection.
Lasting(c) == \A x \in c.temporary : \E s \in Sockets : x \in c.made[s] /\ c.socket[s] # "closed"

Sound(c, S) ==
  Typed(c) /\ Reaches(c) /\ Prompting(c) /\ Waiting(c) /\ Pending(c, S) /\ Stops(c) /\ Spare(c)

\* d is c but for connections that left their tabs and tabs and windows that
\* are nobody's any more.
LetsGo(c, d) ==
  /\ Rec(d) /\ Same(c, d, {"conn", "windows", "attached"})
  /\ d.conn \in [Names -> Connections]
  /\ \A n \in Names : d.conn[n].denied = c.conn[n].denied /\ d.conn[n].stops = c.conn[n].stops
  /\ d.attached \in [DOMAIN d.attached -> Names] /\ DOMAIN d.attached \subseteq DOMAIN c.attached
  /\ d.windows \in [DOMAIN d.windows -> DOMAIN d.attached]
  /\ \A w \in DOMAIN d.windows : w \in DOMAIN c.windows /\ d.windows[w] = c.windows[w]
  /\ \A t \in DOMAIN d.attached : d.attached[t] = c.attached[t]

\* A waiter's socket waits for an answer to a request under a name.
LEMMA Waiters ==
  ASSUME NEW c, Typed(c), Waiting(c), NEW i \in DOMAIN c.grants,
         NEW k \in DOMAIN c.grants[i].waiters
  PROVE  LET w == c.grants[i].waiters[k]
         IN /\ w = [socket |-> w.socket, stops |-> w.stops]
            /\ w.socket \in Sockets /\ w.stops \in Nat /\ c.asked[w.socket] # NoRequest
            /\ c.asked[w.socket].name \in Names
            /\ c.conn[c.asked[w.socket].name] \in Connections
            /\ i \in WaitsOn(c, w.socket)
<1> DEFINE W == [socket : Sockets, stops : Nat]
           w == c.grants[i].waiters[k]
           q == c.asked[w.socket]
<1>1. c.grants[i] \in Prompts
  BY DEF Typed
<1>2. c.grants[i].waiters \in Seq(W)
  BY <1>1 DEF Prompts
<1>3. w \in W
  <2> HIDE DEF W
  <2> QED BY <1>2
<1>4. w = [socket |-> w.socket, stops |-> w.stops] /\ w.socket \in Sockets /\ w.stops \in Nat
  BY <1>3
<1>5. q \in Requests /\ q.verb # "none"
  BY <1>4 DEF Typed, Waiting, WaitsWell, PageVerbs
<1>6. i \in WaitsOn(c, w.socket)
  BY DEF WaitsOn
<1> HIDE DEF w, q
<1>7. q.name \in Names /\ q # NoRequest
  BY <1>5 DEF Requests, NoRequest
<1>8. c.conn[q.name] \in Connections
  BY <1>7 DEF Typed
<1> QED BY <1>4, <1>6, <1>7, <1>8 DEF w, q

\* Whether waiters wait well is a matter of four fields.
LEMMA WaitingOf ==
  ASSUME NEW c, NEW d, Waiting(c), d.grants = c.grants, d.asked = c.asked, d.conn = c.conn,
         d.pages = c.pages
  PROVE  Waiting(d)
<1>1. \A r : WaitsOn(d, r) = WaitsOn(c, r)
  BY DEF WaitsOn
<1>2. ASSUME NEW i \in DOMAIN c.grants, NEW k \in DOMAIN c.grants[i].waiters
      PROVE  WaitsWell(d, i, k)
  <2>1. WaitsWell(c, i, k)
    BY DEF Waiting
  <2> QED BY <1>1, <2>1 DEF WaitsWell
<1> QED BY <1>2 DEF Waiting

\* The fields that LetsGo leaves alone.
LEMMA LetsGoFields ==
  ASSUME NEW c, NEW d, LetsGo(c, d)
  PROVE  /\ d.allowed = c.allowed /\ d.spaces = c.spaces /\ d.agentSpaces = c.agentSpaces
         /\ d.temporary = c.temporary /\ d.granted = c.granted /\ d.tabs = c.tabs
         /\ d.used = c.used /\ d.opened = c.opened /\ d.grants = c.grants /\ d.pages = c.pages
         /\ d.made = c.made /\ d.names = c.names /\ d.socket = c.socket /\ d.asked = c.asked
         /\ d.carried = c.carried /\ d.stopped = c.stopped
BY DEF LetsGo, Same, Fields

\* Letting go keeps the invariant.
LEMMA LetsGoSound ==
  ASSUME NEW c, NEW d, NEW S, Sound(c, S), LetsGo(c, d)
  PROVE  Sound(d, S)
<1>1. /\ d.allowed = c.allowed /\ d.spaces = c.spaces /\ d.agentSpaces = c.agentSpaces
      /\ d.temporary = c.temporary /\ d.granted = c.granted /\ d.tabs = c.tabs
      /\ d.used = c.used /\ d.opened = c.opened /\ d.grants = c.grants /\ d.pages = c.pages
      /\ d.made = c.made /\ d.names = c.names /\ d.socket = c.socket /\ d.asked = c.asked
      /\ d.carried = c.carried /\ d.stopped = c.stopped
  BY LetsGoFields
<1>2. Typed(d)
  BY <1>1 DEF Sound, Typed, LetsGo
<1>3. \A x : OpenerOf(d, x) = OpenerOf(c, x) \/ OpenerOf(d, x) = None
  BY DEF OpenerOf, LetsGo
<1>4. None \notin Tabs /\ DOMAIN c.tabs \subseteq Tabs
  BY AgentAssumption DEF Sound, Typed
<1>5. Reaches(d)
  BY <1>1, <1>3, <1>4 DEF Sound, Reaches, LetsGo, Usable
<1>6. \A s : WaitsOn(d, s) = WaitsOn(c, s)
  BY <1>1 DEF WaitsOn
<1>7. Prompting(d)
  BY <1>1 DEF Sound, Prompting
<1>8. ASSUME NEW i \in DOMAIN c.grants, NEW k \in DOMAIN c.grants[i].waiters
      PROVE  WaitsWell(d, i, k) /\ Remembers(d, i, k)
  <2> DEFINE n == c.asked[c.grants[i].waiters[k].socket].name
  <2>1. n \in Names
    BY Waiters DEF Sound
  <2>2. WaitsWell(c, i, k) /\ Remembers(c, i, k)
    BY DEF Sound, Waiting, Stops
  <2>3. d.conn[n].denied = c.conn[n].denied /\ d.conn[n].stops = c.conn[n].stops
    BY <2>1 DEF LetsGo
  <2> QED BY <1>1, <1>6, <2>2, <2>3 DEF WaitsWell, Remembers
<1>9. Waiting(d) /\ Stops(d)
  BY <1>1, <1>8 DEF Waiting, Stops, Sound
<1>10. Pending(d, S)
  BY <1>1, <1>6 DEF Sound, Pending
<1>11. Spare(d)
  BY <1>1 DEF Sound, Spare, Unused
<1> QED BY <1>2, <1>5, <1>7, <1>9, <1>10, <1>11 DEF Sound

\* Letting go twice is letting go.
LEMMA LetsGoTwice ==
  ASSUME NEW c, NEW d, NEW e, LetsGo(c, d), LetsGo(d, e)
  PROVE  LetsGo(c, e)
<1>1. Same(c, e, {"conn", "windows", "attached"})
  BY DEF LetsGo, Same
<1>2. \A w \in DOMAIN e.windows : w \in DOMAIN c.windows /\ e.windows[w] = c.windows[w]
  BY DEF LetsGo
<1>3. \A t \in DOMAIN e.attached : e.attached[t] = c.attached[t]
  BY DEF LetsGo
<1> QED BY <1>1, <1>2, <1>3 DEF LetsGo

\* A connection changed in its tab, its Space and whether it was revoked is one.
LEMMA ConnectionKeeps ==
  ASSUME NEW p \in Connections
  PROVE  /\ p.tab \in Tabs \cup Windows \cup {None} /\ p.space \in Spaces \cup {None}
         /\ p.revoked \in BOOLEAN /\ p.denied \in SUBSET Spaces /\ p.stops \in Nat
         /\ \A t \in Tabs \cup Windows \cup {None} :
              LET o == [p EXCEPT !.tab = t]
              IN /\ o \in Connections /\ o.denied = p.denied /\ o.stops = p.stops
                 /\ o.tab = t /\ o.space = p.space /\ o.revoked = p.revoked
         /\ \A x \in Spaces \cup {None} :
              LET o == [p EXCEPT !.space = x]
              IN /\ o \in Connections /\ o.denied = p.denied /\ o.stops = p.stops
                 /\ o.tab = p.tab
         /\ \A r \in BOOLEAN :
              LET o == [p EXCEPT !.revoked = r]
              IN /\ o \in Connections /\ o.denied = p.denied /\ o.stops = p.stops
BY DEF Connections

\* Being sent out of a tab leaves a connection what it was.
LEMMA OutOfKeeps ==
  ASSUME NEW p \in [Names -> Connections], NEW N
  PROVE  /\ OutOf(p, N) \in [Names -> Connections]
         /\ \A n \in Names : /\ OutOf(p, N)[n].denied = p[n].denied
                             /\ OutOf(p, N)[n].stops = p[n].stops
<1>1. ASSUME NEW n \in Names
      PROVE  /\ OutOf(p, N)[n] \in Connections
             /\ OutOf(p, N)[n].denied = p[n].denied /\ OutOf(p, N)[n].stops = p[n].stops
  <2>1. OutOf(p, N)[n] = IF n \in N THEN [p[n] EXCEPT !.tab = None] ELSE p[n]
    BY DEF OutOf
  <2>2. p[n] \in Connections
    OBVIOUS
  <2> QED BY <2>1, <2>2, ConnectionKeeps
<1>2. OutOf(p, N) = [n \in Names |-> OutOf(p, N)[n]]
  BY DEF OutOf
<1> QED BY <1>1, <1>2

\* So does another tab, or Space, for one of them.
LEMMA OneGoes ==
  ASSUME NEW p \in [Names -> Connections], NEW n \in Names, NEW o \in Connections,
         o.denied = p[n].denied, o.stops = p[n].stops
  PROVE  /\ [p EXCEPT ![n] = o] \in [Names -> Connections]
         /\ \A m \in Names : /\ [p EXCEPT ![n] = o][m].denied = p[m].denied
                             /\ [p EXCEPT ![n] = o][m].stops = p[m].stops
OBVIOUS

\* Leaving tabs is letting go.
LEMMA LeaveTabsLetsGo ==
  ASSUME NEW c, NEW S, Sound(c, S), NEW N
  PROVE  LetsGo(c, LeaveTabs(c, N))
<1> DEFINE d == LeaveTabs(c, N)
<1>1. Rec(d) /\ Same(c, d, {"conn"}) /\ d.conn = OutOf(c.conn, N)
  BY LeaveTabsFields DEF Sound, Typed
<1>2. /\ d.conn \in [Names -> Connections]
      /\ \A n \in Names : d.conn[n].denied = c.conn[n].denied /\ d.conn[n].stops = c.conn[n].stops
  BY <1>1, OutOfKeeps DEF Sound, Typed
<1>3. d.windows = c.windows /\ d.attached = c.attached /\ Same(c, d, {"conn", "windows", "attached"})
  BY <1>1 DEF Same, Fields
<1> HIDE DEF d
<1>4. LetsGo(c, d)
  BY <1>1, <1>2, <1>3 DEF LetsGo, Sound, Typed, Reaches
<1> QED BY <1>4 DEF d

\* Forgetting windows is letting go.
LEMMA ForgetWindowsLetsGo ==
  ASSUME NEW c, NEW S, Sound(c, S), NEW W
  PROVE  LetsGo(c, ForgetWindows(c, W))
<1> DEFINE d == ForgetWindows(c, W)
<1>1. Rec(d) /\ Same(c, d, {"conn", "windows"}) /\ d.conn = OutOf(c.conn, NamesAt(c, W))
      /\ d.windows = Without(c.windows, W)
  BY ForgetWindowsFields DEF Sound, Typed
<1>2. /\ d.conn \in [Names -> Connections]
      /\ \A n \in Names : d.conn[n].denied = c.conn[n].denied /\ d.conn[n].stops = c.conn[n].stops
  BY <1>1, OutOfKeeps DEF Sound, Typed
<1>3. d.attached = c.attached /\ Same(c, d, {"conn", "windows", "attached"})
  BY <1>1 DEF Same, Fields
<1>4. c.windows \in [DOMAIN c.windows -> DOMAIN c.attached]
  BY DEF Sound, Typed, Reaches
<1>5. /\ d.windows \in [DOMAIN d.windows -> DOMAIN c.attached]
      /\ DOMAIN d.windows = DOMAIN c.windows \ W
      /\ \A w \in DOMAIN d.windows : w \in DOMAIN c.windows /\ d.windows[w] = c.windows[w]
  <2> HIDE DEF d
  <2>1. d.windows = [w \in DOMAIN c.windows \ W |-> c.windows[w]]
    BY <1>1 DEF Without, Restrict
  <2> QED BY <1>4, <2>1
<1> HIDE DEF d
<1>6. LetsGo(c, d)
  BY <1>1, <1>2, <1>3, <1>5 DEF LetsGo, Sound, Typed
<1> QED BY <1>6 DEF d

\* Detaching tabs is letting go.
LEMMA DetachLetsGo ==
  ASSUME NEW c, NEW S, Sound(c, S), NEW T
  PROVE  LetsGo(c, Detach(c, T))
<1> DEFINE d == Detach(c, T)
           W == {w \in DOMAIN c.windows : c.windows[w] \in T}
<1>1. /\ Rec(d) /\ Same(c, d, {"conn", "windows", "attached"})
      /\ d.conn = OutOf(c.conn, NamesAt(c, W)) /\ d.windows = Without(c.windows, W)
      /\ d.attached = Without(c.attached, T)
  BY DetachFields DEF Sound, Typed
<1>2. /\ d.conn \in [Names -> Connections]
      /\ \A n \in Names : d.conn[n].denied = c.conn[n].denied /\ d.conn[n].stops = c.conn[n].stops
  BY <1>1, OutOfKeeps DEF Sound, Typed
<1> HIDE DEF d
<1>3. /\ d.attached \in [DOMAIN c.attached \ T -> Names] /\ DOMAIN d.attached = DOMAIN c.attached \ T
      /\ \A t \in DOMAIN d.attached : d.attached[t] = c.attached[t]
  <2>1. d.attached = [t \in DOMAIN c.attached \ T |-> c.attached[t]]
    BY <1>1 DEF Without, Restrict
  <2>2. c.attached \in [DOMAIN c.attached -> Names]
    BY DEF Sound, Typed
  <2> QED BY <2>1, <2>2
<1>4. /\ d.windows \in [DOMAIN c.windows \ W -> Tabs] /\ DOMAIN d.windows = DOMAIN c.windows \ W
      /\ \A w \in DOMAIN d.windows : d.windows[w] = c.windows[w]
  <2> HIDE DEF W
  <2>1. d.windows = [w \in DOMAIN c.windows \ W |-> c.windows[w]]
    BY <1>1 DEF Without, Restrict
  <2>2. c.windows \in [DOMAIN c.windows -> Tabs]
    BY DEF Sound, Typed
  <2> QED BY <2>1, <2>2
<1>5. \A w \in DOMAIN d.windows : d.windows[w] \in DOMAIN c.attached \ T
  BY <1>4 DEF Sound, Reaches
<1> HIDE DEF W
<1>6. LetsGo(c, d)
  BY <1>1, <1>2, <1>3, <1>4, <1>5 DEF LetsGo
<1> QED BY <1>6 DEF d

\* So is going to another tab.
LEMMA GoToLetsGo ==
  ASSUME NEW c, NEW S, Sound(c, S), NEW n \in Names, NEW target \in Tabs \cup Windows,
         NEW t \in DOMAIN c.tabs
  PROVE  LetsGo(c, GoTo(c, n, target, t))
<1> DEFINE d == GoTo(c, n, target, t)
           o1 == [c.conn[n] EXCEPT !.tab = target]
           o == [o1 EXCEPT !.space = c.tabs[t]]
<1>1. c.conn[n] \in Connections /\ c.tabs[t] \in Spaces
  BY DEF Sound, Typed
<1>2. o \in Connections /\ o.denied = c.conn[n].denied /\ o.stops = c.conn[n].stops
  <2>1. o1 \in Connections /\ o1.denied = c.conn[n].denied /\ o1.stops = c.conn[n].stops
    BY <1>1, ConnectionKeeps
  <2> HIDE DEF o1
  <2> QED BY <1>1, <2>1, ConnectionKeeps
<1>3. Rec(d) /\ Same(c, d, {"conn"}) /\ d.conn = [c.conn EXCEPT ![n] = o]
  BY <1>1 DEF GoTo, Rec, Same, Fields, Sound, Typed
<1> HIDE DEF o
<1>4. /\ d.conn \in [Names -> Connections]
      /\ \A m \in Names : d.conn[m].denied = c.conn[m].denied /\ d.conn[m].stops = c.conn[m].stops
  BY <1>2, <1>3, OneGoes DEF Sound, Typed
<1>5. d.windows = c.windows /\ d.attached = c.attached /\ Same(c, d, {"conn", "windows", "attached"})
  BY <1>3 DEF Same, Fields
<1> HIDE DEF d
<1>6. LetsGo(c, d)
  BY <1>3, <1>4, <1>5 DEF LetsGo, Sound, Typed, Reaches
<1> QED BY <1>6 DEF d

\* So is changing one connection's tab, Space or revocation.
LEMMA OneLetsGo ==
  ASSUME NEW c, NEW S, Sound(c, S), NEW d, Rec(d), Same(c, d, {"conn"}), NEW n \in Names,
         NEW o \in Connections, o.denied = c.conn[n].denied, o.stops = c.conn[n].stops,
         d.conn = [c.conn EXCEPT ![n] = o]
  PROVE  LetsGo(c, d)
<1>1. /\ d.conn \in [Names -> Connections]
      /\ \A m \in Names : d.conn[m].denied = c.conn[m].denied /\ d.conn[m].stops = c.conn[m].stops
  BY OneGoes DEF Sound, Typed
<1>2. d.windows = c.windows /\ d.attached = c.attached /\ Same(c, d, {"conn", "windows", "attached"})
  BY DEF Same, Fields
<1> QED BY <1>1, <1>2 DEF LetsGo, Sound, Typed, Reaches

\* So is changing nothing.
LEMMA SelfLetsGo ==
  ASSUME NEW c, NEW S, Sound(c, S)
  PROVE  LetsGo(c, c)
BY DEF LetsGo, Sound, Typed, Reaches, Same

\* So is finding out that the current tab was closed or moved.
LEMMA ResolveLetsGo ==
  ASSUME NEW c, NEW S, Sound(c, S), NEW n \in Names
  PROVE  LetsGo(c, ResolveCurrentTab(c, n))
<1> DEFINE t == c.conn[n].tab
           d == ResolveCurrentTab(c, n)
<1>1. c.conn[n] \in Connections /\ Rec(c) /\ c.conn \in [Names -> Connections]
  BY DEF Sound, Typed
<1>2. CASE t = None \/ t \in DOMAIN c.windows
  <2>1. d = c
    BY <1>2 DEF ResolveCurrentTab
  <2> QED BY <2>1, SelfLetsGo
<1>3. CASE t \in DOMAIN c.tabs /\ ~(t = None \/ t \in DOMAIN c.windows)
  <2> DEFINE o == [c.conn[n] EXCEPT !.space = c.tabs[t]]
  <2>1. c.tabs[t] \in Spaces
    BY <1>3 DEF Sound, Typed
  <2>2. o \in Connections /\ o.denied = c.conn[n].denied /\ o.stops = c.conn[n].stops
    BY <1>1, <2>1, ConnectionKeeps
  <2>3. d = [c EXCEPT !.conn[n].space = c.tabs[t]]
    BY <1>3 DEF ResolveCurrentTab
  <2>4. Rec(d) /\ Same(c, d, {"conn"}) /\ d.conn = [c.conn EXCEPT ![n] = o]
    BY <1>1, <2>3 DEF Rec, Same, Fields
  <2> HIDE DEF d, o
  <2>5. LetsGo(c, d)
    BY <2>2, <2>4, OneLetsGo
  <2> QED BY <2>5 DEF d
<1>4. CASE ~(t = None \/ t \in DOMAIN c.windows \/ t \in DOMAIN c.tabs)
  <2> DEFINE o == [c.conn[n] EXCEPT !.tab = None]
             e == [c EXCEPT !.conn[n].tab = None]
  <2>1. o \in Connections /\ o.denied = c.conn[n].denied /\ o.stops = c.conn[n].stops
    BY <1>1, ConnectionKeeps
  <2>2. d = Detach(e, {t})
    BY <1>4 DEF ResolveCurrentTab
  <2>3. Rec(e) /\ Same(c, e, {"conn"}) /\ e.conn = [c.conn EXCEPT ![n] = o]
    BY <1>1 DEF Rec, Same, Fields
  <2> HIDE DEF e, o
  <2>4. LetsGo(c, e)
    BY <2>1, <2>3, OneLetsGo
  <2>5. Sound(e, S)
    BY <2>4, LetsGoSound
  <2>6. LetsGo(e, Detach(e, {t}))
    BY <2>5, DetachLetsGo
  <2> QED BY <2>2, <2>4, <2>6, LetsGoTwice
<1> QED BY <1>2, <1>3, <1>4

-----------------------------------------------------------------------------
(* Answers                                                                 *)

\* A request being handled that is answered is done with.
LEMMA ReplySound ==
  ASSUME NEW c, NEW S, Sound(c, S), NEW s \in S
  PROVE  Sound(Reply(c, s), S \ {s})
<1> DEFINE d == Reply(c, s)
<1>1. Rec(d) /\ Same(c, d, {"asked", "stopped"}) /\ d.asked = [c.asked EXCEPT ![s] = NoRequest]
      /\ d.stopped = c.stopped \ {s}
  BY ReplyFields DEF Sound, Typed
<1> HIDE DEF d
<1>2. /\ d.allowed = c.allowed /\ d.spaces = c.spaces /\ d.agentSpaces = c.agentSpaces
      /\ d.temporary = c.temporary /\ d.granted = c.granted /\ d.tabs = c.tabs
      /\ d.used = c.used /\ d.opened = c.opened /\ d.attached = c.attached
      /\ d.windows = c.windows /\ d.conn = c.conn /\ d.grants = c.grants /\ d.pages = c.pages
      /\ d.made = c.made /\ d.names = c.names /\ d.socket = c.socket /\ d.carried = c.carried
  BY <1>1 DEF Same, Fields
<1>3. s \in Sockets \ DOMAIN c.pages /\ WaitsOn(c, s) = {} /\ NoRequest \in Requests
  BY DEF Sound, Pending, Requests
<1>4. \A r \in Sockets : d.asked[r] = IF r = s THEN NoRequest ELSE c.asked[r]
  BY <1>1, <1>3 DEF Sound, Typed
<1>5. Typed(d)
  BY <1>1, <1>2, <1>3 DEF Sound, Typed
<1>6. Reaches(d)
  BY <1>2 DEF Sound, Reaches, OpenerOf, Usable
<1>7. Prompting(d)
  BY <1>2 DEF Sound, Prompting
<1>8. \A r : WaitsOn(d, r) = WaitsOn(c, r)
  BY <1>2 DEF WaitsOn
<1>9. ASSUME NEW i \in DOMAIN c.grants, NEW k \in DOMAIN c.grants[i].waiters
      PROVE  WaitsWell(d, i, k) /\ Remembers(d, i, k)
  <2> DEFINE r == c.grants[i].waiters[k].socket
  <2>1. r \in Sockets /\ i \in WaitsOn(c, r)
    BY Waiters DEF Sound
  <2>2. d.asked[r] = c.asked[r]
    BY <1>3, <1>4, <2>1
  <2>3. WaitsWell(c, i, k) /\ Remembers(c, i, k)
    BY DEF Sound, Waiting, Stops
  <2> QED BY <1>1, <1>2, <1>8, <2>2, <2>3 DEF WaitsWell, Remembers
<1>10. Waiting(d)
  BY <1>2, <1>9 DEF Waiting
<1>11. Stops(d)
  BY <1>1, <1>2, <1>4, <1>9 DEF Stops, Sound, Typed
<1>12. Pending(d, S \ {s})
  BY <1>2, <1>3, <1>4, <1>8 DEF Sound, Pending, Typed
<1>13. Spare(d)
  BY <1>2 DEF Sound, Spare, Unused
<1>14. Sound(d, S \ {s})
  BY <1>5, <1>6, <1>7, <1>10, <1>11, <1>12, <1>13 DEF Sound
<1> QED BY <1>14 DEF d

\* An answered request to a page, or several of them, are done with.
LEMMA PagesSound ==
  ASSUME NEW c, NEW S, Sound(c, S), NEW P \in SUBSET DOMAIN c.pages, NEW d,
         Rec(d), Same(c, d, {"asked", "stopped", "pages"}),
         d.asked \in [Sockets -> Requests],
         \A s \in Sockets : d.asked[s] = IF s \in P THEN NoRequest ELSE c.asked[s],
         d.stopped = c.stopped \ P, d.pages = Without(c.pages, P)
  PROVE  Sound(d, S)
<1>2. /\ d.allowed = c.allowed /\ d.spaces = c.spaces /\ d.agentSpaces = c.agentSpaces
      /\ d.temporary = c.temporary /\ d.granted = c.granted /\ d.tabs = c.tabs
      /\ d.used = c.used /\ d.opened = c.opened /\ d.attached = c.attached
      /\ d.windows = c.windows /\ d.conn = c.conn /\ d.grants = c.grants
      /\ d.made = c.made /\ d.names = c.names /\ d.socket = c.socket /\ d.carried = c.carried
  BY DEF Same, Fields
<1>3. /\ DOMAIN d.pages = DOMAIN c.pages \ P /\ \A s \in DOMAIN d.pages : d.pages[s] = c.pages[s]
      /\ d.pages \in [DOMAIN d.pages -> c.used \cap (Tabs \cup Windows)]
      /\ DOMAIN c.pages \subseteq Sockets
  <2>1. d.pages = [s \in DOMAIN c.pages \ P |-> c.pages[s]]
    BY DEF Without, Restrict
  <2> QED BY <2>1 DEF Sound, Typed
<1>5. Typed(d)
  BY <1>2, <1>3 DEF Sound, Typed
<1>6. Reaches(d)
  BY <1>2, <1>3 DEF Sound, Reaches, OpenerOf, Usable
<1>7. Prompting(d)
  BY <1>2 DEF Sound, Prompting
<1>8. \A r : WaitsOn(d, r) = WaitsOn(c, r)
  BY <1>2 DEF WaitsOn
<1>9. ASSUME NEW i \in DOMAIN c.grants, NEW k \in DOMAIN c.grants[i].waiters
      PROVE  WaitsWell(d, i, k) /\ Remembers(d, i, k)
  <2> DEFINE r == c.grants[i].waiters[k].socket
  <2>1. r \in Sockets /\ i \in WaitsOn(c, r)
    BY Waiters DEF Sound
  <2>2. WaitsWell(c, i, k) /\ Remembers(c, i, k)
    BY DEF Sound, Waiting, Stops
  <2>3. d.asked[r] = c.asked[r] /\ r \notin DOMAIN d.pages /\ (r \in d.stopped => r \in c.stopped)
    BY <1>3, <2>1, <2>2 DEF WaitsWell
  <2> QED BY <1>2, <1>8, <2>2, <2>3 DEF WaitsWell, Remembers
<1>10. Waiting(d)
  BY <1>2, <1>9 DEF Waiting
<1>11. Stops(d)
  BY <1>2, <1>9 DEF Stops, Sound, Typed
<1>12. Pending(d, S)
  BY <1>2, <1>3, <1>8 DEF Sound, Pending
<1>13. Spare(d)
  BY <1>2 DEF Sound, Spare, Unused
<1> QED BY <1>5, <1>6, <1>7, <1>10, <1>11, <1>12, <1>13 DEF Sound

-----------------------------------------------------------------------------
(* Prompts                                                                 *)

\* Everyone who waits on a prompt for Space x.
Asking(c, x) == {s \in Sockets : WaitsOn(c, s) \cap Prompted(c.grants, x) # {}}

\* One prompt for each Space.
OneEach(prompts) == \A i, j \in DOMAIN prompts : prompts[i].space = prompts[j].space => i = j

\* Taking out the prompt for a Space leaves the others, in their order.
LEMMA UnpromptedKeeps ==
  ASSUME NEW prompts \in Seq(Prompts), NEW x, OneEach(prompts),
         NEW rest, rest = Unprompted(prompts, x)
  PROVE  /\ rest \in Seq(Prompts) /\ OneEach(rest)
         /\ \A j \in DOMAIN rest :
              \E i \in DOMAIN prompts : rest[j] = prompts[i] /\ prompts[i].space # x
         /\ \A i \in DOMAIN prompts :
              prompts[i].space # x => \E j \in DOMAIN rest : rest[j] = prompts[i]
         /\ Prompted(prompts, x) # {} => Len(rest) = Len(prompts) - 1
<1>1. CASE Prompted(prompts, x) = {}
  <2>1. rest = prompts
    BY <1>1 DEF Unprompted
  <2> QED BY <1>1, <2>1 DEF Prompted
<1>2. CASE Prompted(prompts, x) # {}
  <2> DEFINE here == Prompted(prompts, x)
             p == CHOOSE i \in here : \A j \in here : i <= j
  <2>1. PICK i \in DOMAIN prompts : prompts[i].space = x
    BY <1>2 DEF Prompted
  <2>2. here = {i}
    BY <2>1 DEF Prompted, OneEach
  <2>3. p = i
    BY <2>2
  <2>4. rest = SubSeq(prompts, 1, i - 1) \o SubSeq(prompts, i + 1, Len(prompts))
    BY <1>2, <2>3 DEF Unprompted, RemoveAt
  <2> HIDE DEF p, here
  <2>5. Len(prompts) \in Nat /\ i \in 1 .. Len(prompts) /\ DOMAIN prompts = 1 .. Len(prompts)
    OBVIOUS
  <2>6. /\ SubSeq(prompts, 1, i - 1) \in Seq(Prompts) /\ Len(SubSeq(prompts, 1, i - 1)) = i - 1
        /\ \A j \in 1 .. i - 1 : SubSeq(prompts, 1, i - 1)[j] = prompts[j]
    BY <2>5
  <2>7. /\ SubSeq(prompts, i + 1, Len(prompts)) \in Seq(Prompts)
        /\ Len(SubSeq(prompts, i + 1, Len(prompts))) = Len(prompts) - i
        /\ \A j \in 1 .. Len(prompts) - i : SubSeq(prompts, i + 1, Len(prompts))[j] = prompts[i + j]
    BY <2>5
  <2>8. /\ rest \in Seq(Prompts) /\ Len(rest) = Len(prompts) - 1
        /\ \A j \in 1 .. Len(prompts) - 1 : rest[j] = prompts[IF j < i THEN j ELSE j + 1]
    <3> DEFINE A == SubSeq(prompts, 1, i - 1)
               B == SubSeq(prompts, i + 1, Len(prompts))
    <3>1. rest = A \o B /\ A \in Seq(Prompts) /\ B \in Seq(Prompts)
          /\ Len(A) = i - 1 /\ Len(B) = Len(prompts) - i
          /\ (\A j \in 1 .. i - 1 : A[j] = prompts[j])
          /\ (\A j \in 1 .. Len(prompts) - i : B[j] = prompts[i + j])
      BY <2>4, <2>6, <2>7
    <3> HIDE DEF A, B
    <3>2. rest \in Seq(Prompts) /\ Len(rest) = Len(prompts) - 1
      <4>1. rest \in Seq(Prompts) /\ Len(rest) = Len(A) + Len(B)
        BY <3>1
      <4> QED BY <2>5, <3>1, <4>1
    <3>3. \A j \in 1 .. Len(prompts) - 1 : rest[j] = IF j <= i - 1 THEN A[j] ELSE B[j - (i - 1)]
      BY <2>5, <3>1
    <3>4. ASSUME NEW j \in 1 .. Len(prompts) - 1
          PROVE  rest[j] = prompts[IF j < i THEN j ELSE j + 1]
      <4>1. CASE j < i
        BY <2>5, <3>1, <3>3, <4>1
      <4>2. CASE ~(j < i)
        <5>1. j - (i - 1) \in 1 .. Len(prompts) - i /\ i + (j - (i - 1)) = j + 1
          BY <2>5, <4>2
        <5>2. B[j - (i - 1)] = prompts[j + 1]
          BY <3>1, <5>1
        <5>3. ~(j <= i - 1)
          BY <2>5, <4>2
        <5> QED BY <3>3, <4>2, <5>2, <5>3
      <4> QED BY <4>1, <4>2
    <3> QED BY <3>2, <3>4
  <2>9. DOMAIN rest = 1 .. Len(prompts) - 1
    BY <2>5, <2>8
  <2>10. OneEach(rest)
    <3> SUFFICES ASSUME NEW j \in DOMAIN rest, NEW k \in DOMAIN rest,
                        rest[j].space = rest[k].space
                 PROVE  j = k
      BY DEF OneEach
    <3>1. /\ (IF j < i THEN j ELSE j + 1) \in DOMAIN prompts
          /\ (IF k < i THEN k ELSE k + 1) \in DOMAIN prompts
      BY <2>5, <2>9
    <3>2. (IF j < i THEN j ELSE j + 1) = (IF k < i THEN k ELSE k + 1)
      BY <2>8, <2>9, <3>1 DEF OneEach
    <3> QED BY <2>5, <2>9, <3>2
  <2>11. ASSUME NEW j \in DOMAIN rest
         PROVE  \E k \in DOMAIN prompts : rest[j] = prompts[k] /\ prompts[k].space # x
    <3> DEFINE k == IF j < i THEN j ELSE j + 1
    <3>1. k \in DOMAIN prompts /\ k # i
      BY <2>5, <2>9
    <3> QED BY <2>1, <2>8, <2>9, <3>1 DEF OneEach
  <2>12. ASSUME NEW k \in DOMAIN prompts, prompts[k].space # x
         PROVE  \E j \in DOMAIN rest : rest[j] = prompts[k]
    <3> DEFINE j == IF k < i THEN k ELSE k - 1
    <3>1. j \in DOMAIN rest /\ rest[j] = prompts[k]
      BY <2>1, <2>5, <2>8, <2>9, <2>12
    <3> QED BY <3>1
  <2>13. /\ rest \in Seq(Prompts) /\ OneEach(rest) /\ Len(rest) = Len(prompts) - 1
    BY <2>8, <2>10
  <2> QED BY <2>11, <2>12, <2>13
<1> QED BY <1>1, <1>2

\* What the end of a prompt changes.
LEMMA RefuseFields ==
  ASSUME NEW c, Typed(c), Waiting(c), NEW x \in Spaces, NEW answer
  PROVE  LET d == Refuse(c, x, answer)
         IN /\ Rec(d) /\ Same(c, d, {"grants", "conn", "asked", "stopped"})
            /\ d.grants = Unprompted(c.grants, x)
            /\ d.asked \in [Sockets -> Requests]
            /\ \A s \in Sockets :
                 d.asked[s] = IF s \in Asking(c, x) THEN NoRequest ELSE c.asked[s]
            /\ d.stopped = c.stopped \ Asking(c, x)
            /\ d.conn \in [Names -> Connections]
            /\ \A n \in Names :
                 /\ d.conn[n].denied \subseteq c.conn[n].denied \cup {x}
                 /\ d.conn[n].stops = c.conn[n].stops
            /\ answer # "denied" => d.conn = c.conn
<1> DEFINE waiters == UNION {ToSet(c.grants[i].waiters) : i \in Prompted(c.grants, x)}
           denied == {c.asked[w.socket].name :
                        w \in {v \in waiters : c.conn[c.asked[v.socket].name].stops = v.stops}}
           P == {w.socket : w \in waiters}
           q == IF answer # "denied" THEN c.conn
                ELSE [n \in Names |-> IF n \in denied
                        THEN [c.conn[n] EXCEPT !.denied = @ \cup {x}] ELSE c.conn[n]]
           e == [c EXCEPT !.grants = Unprompted(c.grants, x), !.conn = q]
           d == Refuse(c, x, answer)
<1>1. d = ReplyAll(e, P)
  BY DEF Refuse
<1>2. P = Asking(c, x)
  <2>1. ASSUME NEW s \in P
        PROVE  s \in Asking(c, x)
    <3>1. PICK i \in Prompted(c.grants, x) : \E w \in ToSet(c.grants[i].waiters) : w.socket = s
      BY <2>1
    <3>2. PICK k \in DOMAIN c.grants[i].waiters : c.grants[i].waiters[k].socket = s
      BY <3>1 DEF ToSet
    <3>3. i \in DOMAIN c.grants
      BY DEF Prompted
    <3>4. s \in Sockets /\ i \in WaitsOn(c, s)
      BY <3>2, <3>3, Waiters
    <3> QED BY <3>4 DEF Asking
  <2>2. ASSUME NEW s \in Asking(c, x)
        PROVE  s \in P
    <3>1. PICK i \in WaitsOn(c, s) : i \in Prompted(c.grants, x)
      BY DEF Asking
    <3>2. PICK k \in DOMAIN c.grants[i].waiters : c.grants[i].waiters[k].socket = s
      BY DEF WaitsOn
    <3>3. c.grants[i].waiters[k] \in waiters
      BY <3>1, <3>2 DEF ToSet
    <3> HIDE DEF waiters
    <3> QED BY <3>2, <3>3
  <2> QED BY <2>1, <2>2
<1> HIDE DEF P
<1>3. q \in [Names -> Connections]
      /\ \A n \in Names : q[n].denied \subseteq c.conn[n].denied \cup {x} /\ q[n].stops = c.conn[n].stops
  <2>1. c.conn \in [Names -> Connections]
    BY DEF Typed
  <2> HIDE DEF denied
  <2>2. CASE answer # "denied"
    BY <2>1, <2>2
  <2>3. CASE answer = "denied"
    <3>1. ASSUME NEW n \in Names
          PROVE  LET o == [c.conn[n] EXCEPT !.denied = @ \cup {x}]
                 IN o \in Connections /\ o.denied = c.conn[n].denied \cup {x} /\ o.stops = c.conn[n].stops
      BY <2>1 DEF Connections
    <3>2. ASSUME NEW n \in Names
          PROVE  q[n] \in Connections /\ q[n].denied \subseteq c.conn[n].denied \cup {x}
                 /\ q[n].stops = c.conn[n].stops
      BY <2>1, <2>3, <3>1
    <3> QED BY <2>3, <3>2
  <2> QED BY <2>2, <2>3
<1>4. answer # "denied" => q = c.conn
  OBVIOUS
<1> HIDE DEF q, denied, waiters
<1>5. Rec(e) /\ Same(c, e, {"grants", "conn"}) /\ e.grants = Unprompted(c.grants, x) /\ e.conn = q
  BY DEF Typed, Rec, Same, Fields
<1> HIDE DEF e
<1>6. /\ Rec(d) /\ Same(e, d, {"asked", "stopped"})
      /\ d.asked = [s \in Sockets |-> IF s \in P THEN NoRequest ELSE e.asked[s]]
      /\ d.stopped = e.stopped \ P
  BY <1>1, <1>5, ReplyAllFields
<1> HIDE DEF d
<1>7. e.asked = c.asked /\ e.stopped = c.stopped /\ d.grants = e.grants /\ d.conn = e.conn
  BY <1>5, <1>6 DEF Same, Fields
<1>8. Same(c, d, {"grants", "conn", "asked", "stopped"})
  BY <1>5, <1>6 DEF Same
<1>9. d.asked \in [Sockets -> Requests]
      /\ \A s \in Sockets : d.asked[s] = IF s \in Asking(c, x) THEN NoRequest ELSE c.asked[s]
  BY <1>2, <1>6, <1>7 DEF Typed, Requests
<1>10. d.stopped = c.stopped \ Asking(c, x)
  BY <1>2, <1>6, <1>7
<1>11. d.conn = q /\ d.grants = Unprompted(c.grants, x)
  BY <1>5, <1>7
<1> QED BY <1>3, <1>4, <1>6, <1>8, <1>9, <1>10, <1>11 DEF d

\* It leaves the other prompts and everyone who waits on them.
LEMMA RefuseKeeps ==
  ASSUME NEW c, NEW S, Typed(c), Prompting(c), Waiting(c), Pending(c, S), Stops(c),
         NEW x \in Spaces, NEW answer
  PROVE  LET d == Refuse(c, x, answer)
         IN /\ Typed(d) /\ Prompting(d) /\ Waiting(d) /\ Pending(d, S) /\ Stops(d)
            /\ \A i \in DOMAIN d.grants : d.grants[i].space # x
<1> DEFINE d == Refuse(c, x, answer)
<1>1. /\ Rec(d) /\ Same(c, d, {"grants", "conn", "asked", "stopped"})
      /\ d.grants = Unprompted(c.grants, x)
      /\ d.asked \in [Sockets -> Requests]
      /\ \A s \in Sockets : d.asked[s] = IF s \in Asking(c, x) THEN NoRequest ELSE c.asked[s]
      /\ d.stopped = c.stopped \ Asking(c, x)
      /\ d.conn \in [Names -> Connections]
      /\ \A n \in Names : /\ d.conn[n].denied \subseteq c.conn[n].denied \cup {x}
                          /\ d.conn[n].stops = c.conn[n].stops
  BY RefuseFields
<1> HIDE DEF d
<1>2. /\ d.allowed = c.allowed /\ d.spaces = c.spaces /\ d.agentSpaces = c.agentSpaces
      /\ d.temporary = c.temporary /\ d.granted = c.granted /\ d.tabs = c.tabs
      /\ d.used = c.used /\ d.opened = c.opened /\ d.attached = c.attached
      /\ d.windows = c.windows /\ d.pages = c.pages
      /\ d.made = c.made /\ d.names = c.names /\ d.socket = c.socket /\ d.carried = c.carried
  BY <1>1 DEF Same, Fields
<1>3. c.grants \in Seq(Prompts) /\ OneEach(c.grants)
  BY DEF Typed, Prompting, OneEach
<1>4. /\ d.grants \in Seq(Prompts) /\ OneEach(d.grants)
      /\ \A j \in DOMAIN d.grants :
           \E i \in DOMAIN c.grants : d.grants[j] = c.grants[i] /\ c.grants[i].space # x
      /\ \A i \in DOMAIN c.grants :
           c.grants[i].space # x => \E j \in DOMAIN d.grants : d.grants[j] = c.grants[i]
  <2>1. d.grants = Unprompted(c.grants, x)
    BY <1>1
  <2> QED BY <1>3, <2>1, UnpromptedKeeps
<1>5. Typed(d)
  BY <1>1, <1>2, <1>4 DEF Typed
<1>6. Prompting(d)
  BY <1>2, <1>4 DEF Prompting, OneEach
<1>7. ASSUME NEW i \in DOMAIN c.grants, NEW k \in DOMAIN c.grants[i].waiters, c.grants[i].space # x
      PROVE  LET s == c.grants[i].waiters[k].socket
             IN s \in Sockets /\ s \notin Asking(c, x) /\ d.asked[s] = c.asked[s]
                /\ c.asked[s].name \in Names
  <2> DEFINE s == c.grants[i].waiters[k].socket
  <2>1. s \in Sockets /\ WaitsWell(c, i, k) /\ c.asked[s].name \in Names
    BY Waiters DEF Waiting
  <2>2. s \notin Asking(c, x)
    BY <1>7, <2>1 DEF Asking, WaitsWell, Prompted
  <2> QED BY <1>1, <2>1, <2>2
<1>8. ASSUME NEW j \in DOMAIN d.grants, NEW k \in DOMAIN d.grants[j].waiters
      PROVE  WaitsWell(d, j, k) /\ Remembers(d, j, k)
  <2> DEFINE s == d.grants[j].waiters[k].socket
  <2>1. PICK i \in DOMAIN c.grants : d.grants[j] = c.grants[i] /\ c.grants[i].space # x
    BY <1>4
  <2>2. k \in DOMAIN c.grants[i].waiters /\ c.grants[i].waiters[k] = d.grants[j].waiters[k]
    BY <2>1
  <2>3. s \in Sockets /\ s \notin Asking(c, x) /\ d.asked[s] = c.asked[s] /\ c.asked[s].name \in Names
    BY <1>7, <2>1, <2>2
  <2>4. WaitsWell(c, i, k) /\ Remembers(c, i, k)
    BY <2>2 DEF Waiting, Stops
  <2>5. \A h \in WaitsOn(d, s) : j = h
    <3> SUFFICES ASSUME NEW h \in WaitsOn(d, s)
                 PROVE  j = h
      OBVIOUS
    <3>1. h \in DOMAIN d.grants /\ \E l \in DOMAIN d.grants[h].waiters : d.grants[h].waiters[l].socket = s
      BY DEF WaitsOn
    <3>2. PICK i2 \in DOMAIN c.grants : d.grants[h] = c.grants[i2]
      BY <1>4, <3>1
    <3>3. i2 \in WaitsOn(c, s)
      BY <3>1, <3>2 DEF WaitsOn
    <3>4. i = i2
      BY <2>2, <2>4, <3>3 DEF WaitsWell
    <3> QED BY <1>4, <2>1, <3>1, <3>2, <3>4 DEF OneEach
  <2>6. WaitsWell(d, j, k)
    BY <1>1, <1>2, <2>1, <2>2, <2>3, <2>4, <2>5 DEF WaitsWell
  <2>7. Remembers(d, j, k)
    BY <1>1, <2>2, <2>3, <2>4 DEF Remembers
  <2> QED BY <2>6, <2>7
<1>9. Waiting(d)
  BY <1>8 DEF Waiting
<1>10. Stops(d)
  BY <1>1, <1>8 DEF Stops, Typed
<1>11. Pending(d, S)
  <2>1. ASSUME NEW s \in Sockets, d.asked[s] # NoRequest
        PROVE  s \in S \cup DOMAIN d.pages \/ WaitsOn(d, s) # {}
    <3>1. s \notin Asking(c, x) /\ c.asked[s] # NoRequest
      BY <1>1, <2>1
    <3>2. CASE s \in S \cup DOMAIN c.pages
      BY <1>2, <3>2
    <3>3. CASE WaitsOn(c, s) # {}
      <4>1. PICK i \in WaitsOn(c, s) : TRUE
        BY <3>3
      <4>2. i \in DOMAIN c.grants /\ c.grants[i].space # x
        BY <3>1, <4>1 DEF Asking, Prompted, WaitsOn
      <4>3. PICK j \in DOMAIN d.grants : d.grants[j] = c.grants[i]
        BY <1>4, <4>2
      <4>4. j \in WaitsOn(d, s)
        BY <4>1, <4>3 DEF WaitsOn
      <4> QED BY <4>4
    <3> QED BY <3>1, <3>2, <3>3 DEF Pending
  <2>2. ASSUME NEW s \in S
        PROVE  s \in Sockets \ DOMAIN d.pages /\ WaitsOn(d, s) = {} /\ d.asked[s] # NoRequest
    <3>1. s \in Sockets \ DOMAIN c.pages /\ WaitsOn(c, s) = {} /\ c.asked[s] # NoRequest
      BY DEF Pending
    <3>2. s \notin Asking(c, x)
      BY <3>1 DEF Asking
    <3>3. WaitsOn(d, s) = {}
      BY <1>4, <3>1 DEF WaitsOn
    <3> QED BY <1>1, <1>2, <3>1, <3>2, <3>3
  <2>3. ASSUME NEW s \in DOMAIN d.pages
        PROVE  d.asked[s] # NoRequest
    <3>1. s \in Sockets /\ s \in DOMAIN c.pages /\ c.asked[s] # NoRequest
      BY <1>2, <2>3 DEF Pending, Typed
    <3>2. \A i \in DOMAIN c.grants : \A k \in DOMAIN c.grants[i].waiters :
            c.grants[i].waiters[k].socket # s
      BY <3>1 DEF Waiting, WaitsWell
    <3>3. s \notin Asking(c, x)
      BY <3>2 DEF Asking, WaitsOn
    <3> QED BY <1>1, <3>1, <3>3
  <2> QED BY <2>1, <2>2, <2>3 DEF Pending
<1>12. \A j \in DOMAIN d.grants : d.grants[j].space # x
  BY <1>4
<1> QED BY <1>5, <1>6, <1>9, <1>10, <1>11, <1>12 DEF d

\* So the invariant holds on.
LEMMA RefuseSound ==
  ASSUME NEW c, NEW S, Sound(c, S), NEW x \in Spaces, NEW answer
  PROVE  LET d == Refuse(c, x, answer)
         IN Sound(d, S) /\ \A i \in DOMAIN d.grants : d.grants[i].space # x
<1> DEFINE d == Refuse(c, x, answer)
<1>1. /\ Typed(d) /\ Prompting(d) /\ Waiting(d) /\ Pending(d, S) /\ Stops(d)
      /\ \A i \in DOMAIN d.grants : d.grants[i].space # x
  BY RefuseKeeps DEF Sound
<1>2. Same(c, d, {"grants", "conn", "asked", "stopped"})
  BY RefuseFields DEF Sound
<1> HIDE DEF d
<1>3. /\ d.allowed = c.allowed /\ d.agentSpaces = c.agentSpaces
      /\ d.temporary = c.temporary /\ d.granted = c.granted /\ d.tabs = c.tabs
      /\ d.used = c.used /\ d.attached = c.attached /\ d.windows = c.windows /\ d.pages = c.pages
      /\ d.made = c.made /\ d.socket = c.socket /\ d.carried = c.carried
  BY <1>2 DEF Same, Fields
<1>4. Reaches(d) /\ Spare(d)
  BY <1>3 DEF Sound, Reaches, Spare, OpenerOf, Usable, Unused
<1> QED BY <1>1, <1>4 DEF d, Sound

-----------------------------------------------------------------------------
(* Spaces that go                                                          *)

\* A Space nobody is asked about may go with what it holds, as may be that a new
\* one takes its place.
LEMMA DroppedSound ==
  ASSUME NEW c, NEW S, Sound(c, S), NEW d, NEW x \in Spaces, NEW N \in SUBSET (Spaces \ c.used),
         Rec(d), Same(c, d, {"spaces", "used", "temporary", "granted", "agentSpaces", "tabs"}),
         d.spaces = (c.spaces \cup N) \ {x}, d.spaces # {}, d.used = c.used \cup N,
         d.temporary = c.temporary \ {x}, d.granted = c.granted \ {x},
         DOMAIN d.agentSpaces = DOMAIN c.agentSpaces \ {x},
         d.agentSpaces \in [DOMAIN d.agentSpaces -> Names],
         d.tabs \in [DOMAIN d.tabs -> d.spaces], DOMAIN d.tabs \subseteq DOMAIN c.tabs,
         \A t \in DOMAIN d.tabs : d.tabs[t] = c.tabs[t],
         N = {} \/ c.temporary \subseteq {x},
         \A i \in DOMAIN c.grants : c.grants[i].space # x
  PROVE  Sound(d, S)
<1>1. /\ d.allowed = c.allowed /\ d.opened = c.opened /\ d.attached = c.attached
      /\ d.windows = c.windows /\ d.conn = c.conn /\ d.grants = c.grants /\ d.pages = c.pages
      /\ d.made = c.made /\ d.names = c.names /\ d.socket = c.socket /\ d.asked = c.asked
      /\ d.carried = c.carried /\ d.stopped = c.stopped
  BY DEF Same, Fields
<1>4. Typed(d)
  <2>1. /\ d.spaces \subseteq d.used \cap Spaces /\ DOMAIN d.agentSpaces \subseteq d.spaces
        /\ d.temporary \subseteq DOMAIN d.agentSpaces
        /\ d.granted \subseteq d.spaces \ DOMAIN d.agentSpaces
        /\ DOMAIN d.tabs \subseteq d.used \cap Tabs
    BY DEF Sound, Typed
  <2>2. d.pages \in [DOMAIN d.pages -> d.used \cap (Tabs \cup Windows)]
    BY <1>1 DEF Sound, Typed
  <2>3. /\ d.opened \subseteq d.used \cap Tabs /\ DOMAIN d.attached \subseteq d.used \cap Tabs
        /\ DOMAIN d.windows \subseteq d.used \cap Windows
    BY <1>1 DEF Sound, Typed
  <2> QED BY <1>1, <2>1, <2>2, <2>3 DEF Sound, Typed
<1>5. Reaches(d)
  <2>1. \A t \in DOMAIN d.tabs : Usable(c, c.tabs[t]) => Usable(d, d.tabs[t])
    BY <1>1 DEF Usable, Sound, Typed
  <2> QED BY <1>1, <2>1 DEF Sound, Reaches, OpenerOf
<1>6. Prompting(d)
  BY <1>1 DEF Sound, Prompting
<1>7. \A r : WaitsOn(d, r) = WaitsOn(c, r)
  BY <1>1 DEF WaitsOn
<1>8. Waiting(d)
  BY <1>1, WaitingOf DEF Sound
<1>9. Stops(d)
  BY <1>1 DEF Sound, Stops, Remembers
<1>10. Pending(d, S)
  BY <1>1, <1>7 DEF Sound, Pending
<1>11. Spare(d)
  BY <1>1 DEF Sound, Spare, Unused
<1> QED BY <1>4, <1>5, <1>6, <1>8, <1>9, <1>10, <1>11 DEF Sound

\* e is c, maybe with new Spaces N, and Space x is not the last of its list.
Grown(c, e, N, x) ==
  /\ Rec(e) /\ Same(c, e, {"spaces", "used"}) /\ N \in SUBSET (Spaces \ c.used)
  /\ e.spaces = c.spaces \cup N /\ e.used = c.used \cup N /\ e.spaces # {x}
  /\ N = {} \/ c.temporary \subseteq {x}

\* d is c without Space x, maybe with new Spaces N.
Deleted(c, d, N, x) ==
  /\ Same(c, d, {"spaces", "used", "temporary", "granted", "agentSpaces", "tabs",
                 "grants", "asked", "stopped"})
  /\ d.spaces = (c.spaces \cup N) \ {x} /\ d.used = c.used \cup N
  /\ d.temporary = c.temporary \ {x}
  /\ DOMAIN d.agentSpaces = DOMAIN c.agentSpaces \ {x}
  /\ \A s \in Sockets : d.asked[s] = IF s \in Asking(c, x) THEN NoRequest ELSE c.asked[s]
  /\ d.stopped = c.stopped \ Asking(c, x) /\ d.grants = Unprompted(c.grants, x)

\* What the end of a Space changes.
LEMMA DeletedSound ==
  ASSUME NEW c, NEW S, Sound(c, S), NEW x \in c.spaces, NEW N, NEW e, Grown(c, e, N, x)
  PROVE  Sound(DeleteSpace(e, x), S) /\ Deleted(c, DeleteSpace(e, x), N, x)
<1>0. /\ Rec(e) /\ Same(c, e, {"spaces", "used"}) /\ N \in SUBSET (Spaces \ c.used)
      /\ e.spaces = c.spaces \cup N /\ e.used = c.used \cup N /\ e.spaces # {x}
      /\ N = {} \/ c.temporary \subseteq {x}
  BY DEF Grown
<1> USE <1>0
<1> DEFINE d == DeleteSpace(e, x)
           f == Refuse(c, x, "gone")
           g == [e EXCEPT !.spaces = @ \ {x}, !.temporary = @ \ {x}, !.granted = @ \ {x},
                          !.agentSpaces = Without(@, {x}),
                          !.tabs = Without(@, {t \in DOMAIN e.tabs : e.tabs[t] = x})]
<1>1. d = Refuse(g, x, "gone")
  BY DEF DeleteSpace
<1>2. /\ e.allowed = c.allowed /\ e.agentSpaces = c.agentSpaces
      /\ e.temporary = c.temporary /\ e.granted = c.granted /\ e.tabs = c.tabs
      /\ e.opened = c.opened /\ e.attached = c.attached
      /\ e.windows = c.windows /\ e.conn = c.conn /\ e.grants = c.grants /\ e.pages = c.pages
      /\ e.made = c.made /\ e.names = c.names /\ e.socket = c.socket /\ e.asked = c.asked
      /\ e.carried = c.carried /\ e.stopped = c.stopped
  BY DEF Same, Fields
<1>3. /\ Rec(g) /\ Same(e, g, {"spaces", "temporary", "granted", "agentSpaces", "tabs"})
      /\ g.spaces = (c.spaces \cup N) \ {x} /\ g.temporary = c.temporary \ {x}
      /\ g.granted = c.granted \ {x}
      /\ g.agentSpaces = [y \in DOMAIN c.agentSpaces \ {x} |-> c.agentSpaces[y]]
      /\ g.tabs = [t \in {u \in DOMAIN c.tabs : c.tabs[u] # x} |-> c.tabs[t]]
  <2>1. /\ Rec(g) /\ Same(e, g, {"spaces", "temporary", "granted", "agentSpaces", "tabs"})
        /\ g.spaces = e.spaces \ {x} /\ g.temporary = e.temporary \ {x}
        /\ g.granted = e.granted \ {x}
        /\ g.agentSpaces = Without(e.agentSpaces, {x})
        /\ g.tabs = Without(e.tabs, {t \in DOMAIN e.tabs : e.tabs[t] = x})
    BY DEF Rec, Same, Fields
  <2>2. DOMAIN c.tabs \ {t \in DOMAIN c.tabs : c.tabs[t] = x} = {u \in DOMAIN c.tabs : c.tabs[u] # x}
    OBVIOUS
  <2> HIDE DEF g
  <2>3. g.agentSpaces = [y \in DOMAIN c.agentSpaces \ {x} |-> c.agentSpaces[y]]
    BY <1>2, <2>1 DEF Without, Restrict
  <2>4. g.tabs = [t \in DOMAIN c.tabs \ {t \in DOMAIN c.tabs : c.tabs[t] = x} |-> c.tabs[t]]
    BY <1>2, <2>1 DEF Without, Restrict
  <2> QED BY <1>2, <2>1, <2>2, <2>3, <2>4
<1> HIDE DEF g
<1>4. /\ g.allowed = c.allowed /\ g.used = c.used \cup N
      /\ g.opened = c.opened /\ g.attached = c.attached
      /\ g.windows = c.windows /\ g.conn = c.conn /\ g.grants = c.grants /\ g.pages = c.pages
      /\ g.made = c.made /\ g.names = c.names /\ g.socket = c.socket /\ g.asked = c.asked
      /\ g.carried = c.carried /\ g.stopped = c.stopped
  BY <1>2, <1>3 DEF Same, Fields
<1>5. /\ DOMAIN g.agentSpaces = DOMAIN c.agentSpaces \ {x}
      /\ g.agentSpaces \in [DOMAIN g.agentSpaces -> Names]
      /\ DOMAIN g.tabs \subseteq DOMAIN c.tabs /\ g.tabs \in [DOMAIN g.tabs -> g.spaces]
  BY <1>3 DEF Sound, Typed
<1>6. Typed(g)
  <2>1. /\ g.spaces \subseteq g.used \cap Spaces /\ g.spaces # {}
        /\ DOMAIN g.agentSpaces \subseteq g.spaces
        /\ g.temporary \subseteq DOMAIN g.agentSpaces
        /\ g.granted \subseteq g.spaces \ DOMAIN g.agentSpaces
        /\ DOMAIN g.tabs \subseteq g.used \cap Tabs
    BY <1>3, <1>4, <1>5 DEF Sound, Typed
  <2>2. g.pages \in [DOMAIN g.pages -> g.used \cap (Tabs \cup Windows)]
    BY <1>4 DEF Sound, Typed
  <2>3. /\ g.opened \subseteq g.used \cap Tabs /\ DOMAIN g.attached \subseteq g.used \cap Tabs
        /\ DOMAIN g.windows \subseteq g.used \cap Windows
    BY <1>4 DEF Sound, Typed
  <2> QED BY <1>3, <1>4, <1>5, <2>1, <2>2, <2>3 DEF Sound, Typed
<1>7. (\A r : WaitsOn(g, r) = WaitsOn(c, r)) /\ Asking(g, x) = Asking(c, x)
  BY <1>4 DEF WaitsOn, Asking
<1>8. Waiting(g)
  BY <1>4, WaitingOf DEF Sound
<1>9. x \in Spaces
  BY DEF Sound, Typed
<1>10. /\ Rec(d) /\ Same(g, d, {"grants", "conn", "asked", "stopped"})
       /\ d.grants = Unprompted(c.grants, x) /\ d.asked \in [Sockets -> Requests]
       /\ \A s \in Sockets : d.asked[s] = IF s \in Asking(c, x) THEN NoRequest ELSE c.asked[s]
       /\ d.stopped = c.stopped \ Asking(c, x) /\ d.conn = c.conn
  <2>1. LET h == Refuse(g, x, "gone")
        IN /\ Rec(h) /\ Same(g, h, {"grants", "conn", "asked", "stopped"})
           /\ h.grants = Unprompted(g.grants, x) /\ h.asked \in [Sockets -> Requests]
           /\ \A s \in Sockets : h.asked[s] = IF s \in Asking(g, x) THEN NoRequest ELSE g.asked[s]
           /\ h.stopped = g.stopped \ Asking(g, x) /\ h.conn = g.conn
    BY <1>6, <1>8, <1>9, RefuseFields
  <2> HIDE DEF d
  <2> QED BY <1>1, <1>4, <1>7, <2>1
<1> HIDE DEF d
<1>11. /\ Rec(f) /\ Same(c, f, {"grants", "conn", "asked", "stopped"})
       /\ f.grants = Unprompted(c.grants, x) /\ f.asked \in [Sockets -> Requests]
       /\ \A s \in Sockets : f.asked[s] = IF s \in Asking(c, x) THEN NoRequest ELSE c.asked[s]
       /\ f.stopped = c.stopped \ Asking(c, x) /\ f.conn = c.conn
  BY <1>9, RefuseFields DEF Sound
<1>12. Sound(f, S) /\ \A i \in DOMAIN f.grants : f.grants[i].space # x
  BY <1>9, RefuseSound
<1> HIDE DEF f
<1>13. d.asked = f.asked
  BY <1>10, <1>11
<1>14. /\ f.allowed = c.allowed /\ f.spaces = c.spaces /\ f.agentSpaces = c.agentSpaces
       /\ f.temporary = c.temporary /\ f.granted = c.granted /\ f.tabs = c.tabs
       /\ f.used = c.used /\ f.opened = c.opened /\ f.attached = c.attached
       /\ f.windows = c.windows /\ f.pages = c.pages
       /\ f.made = c.made /\ f.names = c.names /\ f.socket = c.socket /\ f.carried = c.carried
  BY <1>11 DEF Same, Fields
<1>15. /\ d.allowed = c.allowed /\ d.spaces = g.spaces /\ d.agentSpaces = g.agentSpaces
       /\ d.temporary = g.temporary /\ d.granted = g.granted /\ d.tabs = g.tabs
       /\ d.used = g.used /\ d.opened = c.opened /\ d.attached = c.attached
       /\ d.windows = c.windows /\ d.pages = c.pages
       /\ d.made = c.made /\ d.names = c.names /\ d.socket = c.socket /\ d.carried = c.carried
  BY <1>4, <1>10 DEF Same, Fields
<1>16. Same(f, d, {"spaces", "used", "temporary", "granted", "agentSpaces", "tabs"})
  <2>1. d.grants = f.grants /\ d.conn = f.conn /\ d.stopped = f.stopped
    BY <1>10, <1>11
  <2> QED BY <1>13, <1>14, <1>15, <2>1 DEF Same, Fields
<1>17. N \in SUBSET (Spaces \ f.used)
  BY <1>14
<1>18. Sound(d, S)
  <2>1. /\ d.spaces = (f.spaces \cup N) \ {x} /\ d.spaces # {} /\ d.used = f.used \cup N
        /\ d.temporary = f.temporary \ {x} /\ d.granted = f.granted \ {x}
        /\ N = {} \/ f.temporary \subseteq {x}
    BY <1>3, <1>4, <1>14, <1>15 DEF Sound, Typed
  <2>2. /\ DOMAIN d.agentSpaces = DOMAIN f.agentSpaces \ {x}
        /\ d.agentSpaces \in [DOMAIN d.agentSpaces -> Names]
        /\ d.tabs \in [DOMAIN d.tabs -> d.spaces] /\ DOMAIN d.tabs \subseteq DOMAIN f.tabs
        /\ \A t \in DOMAIN d.tabs : d.tabs[t] = f.tabs[t]
    BY <1>3, <1>5, <1>14, <1>15
  <2>3. Rec(d)
    BY <1>10
  <2> QED BY <1>9, <1>12, <1>16, <1>17, <2>1, <2>2, <2>3, DroppedSound
<1>19. Same(c, d, {"spaces", "used", "temporary", "granted", "agentSpaces", "tabs",
                   "grants", "asked", "stopped"})
  BY <1>10, <1>15 DEF Same, Fields
<1>20. /\ d.spaces = (c.spaces \cup N) \ {x} /\ d.used = c.used \cup N
       /\ d.temporary = c.temporary \ {x}
       /\ DOMAIN d.agentSpaces = DOMAIN c.agentSpaces \ {x}
       /\ \A s \in Sockets : d.asked[s] = IF s \in Asking(c, x) THEN NoRequest ELSE c.asked[s]
       /\ d.stopped = c.stopped \ Asking(c, x) /\ d.grants = Unprompted(c.grants, x)
  BY <1>3, <1>4, <1>5, <1>10, <1>15
<1>21. Sound(d, S) /\ Deleted(c, d, N, x)
  BY <1>18, <1>19, <1>20 DEF Deleted
<1> QED BY <1>21 DEF d

\* A temporary Space goes, and none that is not an Agent Space does.
GoneFrom(c, d, T) ==
  /\ Same(c, d, {"spaces", "used", "temporary", "granted", "agentSpaces", "tabs",
                 "grants", "asked", "stopped"})
  /\ d.temporary = c.temporary \ T /\ (c.grants = <<>> => d.grants = <<>>)
  /\ c.spaces \ DOMAIN c.agentSpaces \subseteq d.spaces \ DOMAIN d.agentSpaces

\* Where there is no prompt none can be taken out.
LEMMA NoPrompts == \A x : Unprompted(<<>>, x) = <<>>
BY DEF Unprompted, Prompted

\* One temporary Space goes, with a new one in its place when it is the last.
LEMMA DeleteTemporarySpaceSound ==
  ASSUME NEW c, NEW S, Sound(c, S), NEW x \in Spaces
  PROVE  Sound(DeleteTemporarySpace(c, x), S) /\ GoneFrom(c, DeleteTemporarySpace(c, x), {x})
<1> DEFINE d == DeleteTemporarySpace(c, x)
           N == {NewId(c, Spaces)}
           e == [c EXCEPT !.spaces = @ \cup N, !.used = @ \cup N]
<1>1. c.temporary \subseteq DOMAIN c.agentSpaces /\ DOMAIN c.agentSpaces \subseteq c.spaces /\ Rec(c)
  BY DEF Sound, Typed
<1>2. CASE x \notin c.temporary
  <2>1. d = c
    BY <1>2 DEF DeleteTemporarySpace
  <2> QED BY <1>2, <2>1 DEF GoneFrom, Same
<1>3. CASE x \in c.temporary /\ c.spaces # {x}
  <2>1. d = DeleteSpace(c, x)
    BY <1>1, <1>3 DEF DeleteTemporarySpace
  <2>2. Grown(c, c, {}, x) /\ x \in c.spaces
    BY <1>1, <1>3 DEF Same, Grown
  <2>3. Sound(DeleteSpace(c, x), S) /\ Deleted(c, DeleteSpace(c, x), {}, x)
    BY <2>2, DeletedSound
  <2> HIDE DEF d
  <2>4. Sound(d, S) /\ GoneFrom(c, d, {x})
    BY <1>1, <1>3, <2>1, <2>3, NoPrompts DEF GoneFrom, Deleted
  <2> QED BY <2>4 DEF d
<1>4. CASE x \in c.temporary /\ c.spaces = {x}
  <2>1. Unused(c, Spaces) # {}
    BY <1>4 DEF Sound, Spare
  <2>2. NewId(c, Spaces) \in Spaces \ c.used
    BY <2>1 DEF NewId, Unused
  <2>3. N \in SUBSET (Spaces \ c.used) /\ c.temporary \subseteq {x} /\ x \in c.used /\ x \in c.spaces
    BY <1>1, <1>4, <2>2 DEF Sound, Typed
  <2>4. Rec(e) /\ Same(c, e, {"spaces", "used"}) /\ e.spaces = c.spaces \cup N /\ e.used = c.used \cup N
    BY <1>1 DEF Rec, Same, Fields
  <2>5. d = DeleteSpace(e, x)
    BY <1>1, <1>4 DEF DeleteTemporarySpace
  <2>6. e.spaces # {x}
    BY <2>2, <2>3, <2>4
  <2> HIDE DEF e, N
  <2>7. Grown(c, e, N, x)
    BY <2>3, <2>4, <2>6 DEF Grown
  <2>9. Sound(DeleteSpace(e, x), S) /\ Deleted(c, DeleteSpace(e, x), N, x)
    BY <2>3, <2>7, DeletedSound
  <2> HIDE DEF d
  <2>8. Sound(d, S) /\ GoneFrom(c, d, {x})
    BY <1>1, <1>4, <2>5, <2>9, NoPrompts DEF GoneFrom, Deleted
  <2> QED BY <2>8 DEF d
<1> QED BY <1>2, <1>3, <1>4

\* Induction, as a fact about sets of numbers.
LEMMA Induction ==
  ASSUME NEW S, 0 \in S, \A n \in Nat : n \in S => n + 1 \in S
  PROVE  Nat \subseteq S
<1>1. SUFFICES ASSUME NEW m \in Nat, m \notin S PROVE FALSE
  OBVIOUS
<1> DEFINE T == {0 .. k : k \in {i \in 0 .. m : i \notin S}}
           R == StrictSubsetOrdering(0 .. m)
<1>2. IsWellFoundedOn(R, SUBSET (0 .. m))
  <2>1. IsFiniteSet(0 .. m)
    BY FS_Interval
  <2> QED BY <2>1, FS_FiniteSubsetsOfFinite, FS_StrictSubsetOrderingWellFounded
<1>3. T \subseteq SUBSET (0 .. m)
  <2>1. ASSUME NEW k \in 0 .. m PROVE 0 .. k \in SUBSET (0 .. m)
    OBVIOUS
  <2> QED BY <2>1
<1>4. T # {}
  <2>1. m \in {i \in 0 .. m : i \notin S}
    BY <1>1
  <2> QED BY <2>1
<1>5. PICK x \in T : \A y \in T : <<y, x>> \notin R
  <2> HIDE DEF T, R
  <2> QED BY <1>2, <1>3, <1>4, WFMin
<1>6. PICK k \in 0 .. m : k \notin S /\ x = 0 .. k
  BY <1>5
<1>7. k # 0 /\ k - 1 \in Nat /\ k - 1 \in 0 .. m
  BY <1>6
<1>8. k - 1 \notin S
  <2>1. (k - 1) + 1 = k
    BY <1>7
  <2> QED BY <1>6, <1>7, <2>1
<1>9. 0 .. (k - 1) \in T
  BY <1>7, <1>8
<1>10. <<0 .. (k - 1), x>> \in R
  <2>1. k \in 0 .. k /\ k \notin 0 .. (k - 1)
    BY <1>6, <1>7
  <2>2. 0 .. (k - 1) \subseteq 0 .. k /\ 0 .. k \subseteq 0 .. m
    BY <1>6, <1>7
  <2> QED BY <1>6, <2>1, <2>2 DEF StrictSubsetOrdering
<1> QED BY <1>5, <1>9, <1>10

\* A set in some order is all of it.
LEMMA InOrder ==
  ASSUME NEW T, IsFiniteSet(T)
  PROVE  /\ SetToSeq(T) \in Seq(T) /\ Len(SetToSeq(T)) \in Nat
         /\ \A x \in T : \E i \in 1 .. Len(SetToSeq(T)) : SetToSeq(T)[i] = x
<1> DEFINE n == Cardinality(T)
           f == SetToSeq(T)
<1>1. n \in Nat /\ ExistsBijection(1 .. n, T)
  BY FS_CardinalityType
<1>2. \E g \in [1 .. n -> T] : IsInjective(g)
  BY <1>1 DEF ExistsBijection, Bijection, Injection, IsInjective
<1>3. f \in [1 .. n -> T] /\ IsInjective(f)
  BY <1>2 DEF SetToSeq
<1> HIDE DEF f
<1>4. f \in Injection(1 .. n, T)
  BY <1>3 DEF Injection
<1>5. IsFiniteSet(1 .. n) /\ Cardinality(1 .. n) = n
  BY <1>1, FS_Interval
<1>6. f \in Surjection(1 .. n, T)
  BY <1>4, <1>5, FS_Injection
<1>7. \A x \in T : \E i \in 1 .. n : f[i] = x
  BY <1>6 DEF Surjection
<1>8. f \in Seq(T) /\ Len(f) = n
  BY <1>1, <1>3
<1> QED BY <1>1, <1>7, <1>8 DEF f

\* f is the states in which the first n of the Spaces ws are deleted.
Deleting(f, c, ws, n) ==
  f = [i \in 0 .. n |-> IF i = 0 THEN c ELSE DeleteTemporarySpace(f[i - 1], ws[i])]

\* The Spaces deleted one after another are what the definition of
\* DeleteTemporarySpaces says they are.
LEMMA DeletingExists ==
  ASSUME NEW c, NEW ws, NEW m \in Nat
  PROVE  \E f : Deleting(f, c, ws, m)
<1> DEFINE Good(f, n) == Deleting(f, c, ws, n)
           S == {n \in Nat : \E f : Good(f, n)}
<1>1. 0 \in S
  <2> DEFINE f == [i \in 0 .. 0 |-> c]
  <2>1. Good(f, 0)
    BY DEF Deleting
  <2> QED BY <2>1
<1>2. ASSUME NEW n \in Nat, n \in S
      PROVE  n + 1 \in S
  <2>1. PICK f : Good(f, n)
    BY <1>2
  <2> DEFINE g == [i \in 0 .. n + 1 |-> IF i <= n THEN f[i] ELSE DeleteTemporarySpace(f[n], ws[n + 1])]
  <2>2. \A i \in 0 .. n + 1 : g[i] = IF i = 0 THEN c ELSE DeleteTemporarySpace(g[i - 1], ws[i])
    <3> TAKE i \in 0 .. n + 1
    <3>1. CASE i = 0
      BY <2>1, <3>1 DEF Deleting
    <3>2. CASE i \in 1 .. n
      BY <2>1, <3>2 DEF Deleting
    <3>3. CASE i = n + 1
      BY <2>1, <3>3 DEF Deleting
    <3> QED BY <3>1, <3>2, <3>3
  <2>3. Good(g, n + 1)
    <3> DEFINE h == [i \in 0 .. n + 1 |-> IF i = 0 THEN c ELSE DeleteTemporarySpace(g[i - 1], ws[i])]
    <3>1. \A i \in 0 .. n + 1 : g[i] = h[i]
      BY <2>2
    <3>2. g = h
      BY <3>1
    <3> QED BY <3>2 DEF Deleting
  <2> HIDE DEF g, Good
  <2> QED BY <2>3
<1>3. Nat \subseteq S
  <2> HIDE DEF S
  <2> QED BY <1>1, <1>2, Induction
<1> QED BY <1>3

\* Deleting temporary Spaces keeps the invariant, and takes them all and no
\* other.
LEMMA DeleteTemporarySpacesSound ==
  ASSUME NEW c, NEW S, Sound(c, S), NEW T \in SUBSET Spaces
  PROVE  Sound(DeleteTemporarySpaces(c, T), S) /\ GoneFrom(c, DeleteTemporarySpaces(c, T), T)
<1> DEFINE ws == SetToSeq(T)
           m == Len(ws)
           left == CHOOSE f : f = [i \in 0 .. m |-> IF i = 0 THEN c
                                                    ELSE DeleteTemporarySpace(f[i - 1], ws[i])]
<1>1. /\ ws \in Seq(T) /\ m \in Nat /\ \A x \in T : \E i \in 1 .. m : ws[i] = x
  <2>1. IsFiniteSet(T)
    BY AgentAssumption, FS_Subset
  <2> QED BY <2>1, InOrder
<1>2. \A i \in 1 .. m : ws[i] \in T
  BY <1>1
<1>3. DeleteTemporarySpaces(c, T) = left[m]
  BY DEF DeleteTemporarySpaces
<1> HIDE DEF ws
<1> HIDE DEF m
<1>4. left = [i \in 0 .. m |-> IF i = 0 THEN c ELSE DeleteTemporarySpace(left[i - 1], ws[i])]
  <2>1. PICK f : Deleting(f, c, ws, m)
    BY <1>1, DeletingExists
  <2>2. f = [i \in 0 .. m |-> IF i = 0 THEN c ELSE DeleteTemporarySpace(f[i - 1], ws[i])]
    BY <2>1 DEF Deleting
  <2> QED BY <2>2
<1> HIDE DEF left
<1> DEFINE U(n) == {ws[i] : i \in 1 .. n}
           Q == {n \in Nat : n <= m => Sound(left[n], S) /\ GoneFrom(c, left[n], U(n))}
<1>5. 0 \in Q
  <2>1. left[0] = c /\ U(0) = {}
    BY <1>1, <1>4
  <2>2. GoneFrom(c, c, {})
    BY DEF GoneFrom, Same
  <2> QED BY <2>1, <2>2
<1>6. ASSUME NEW n \in Nat, n \in Q
      PROVE  n + 1 \in Q
  <2> SUFFICES ASSUME n + 1 <= m
               PROVE  Sound(left[n + 1], S) /\ GoneFrom(c, left[n + 1], U(n + 1))
    OBVIOUS
  <2> DEFINE d == left[n]
             e == left[n + 1]
  <2>1. e = DeleteTemporarySpace(d, ws[n + 1]) /\ ws[n + 1] \in Spaces
    BY <1>1, <1>2, <1>4
  <2>2. Sound(d, S) /\ GoneFrom(c, d, U(n))
    BY <1>1, <1>6
  <2>3. U(n + 1) = U(n) \cup {ws[n + 1]}
    OBVIOUS
  <2> HIDE DEF d, e, U
  <2>4. Sound(e, S) /\ GoneFrom(d, e, {ws[n + 1]})
    BY <2>1, <2>2, DeleteTemporarySpaceSound
  <2>5. GoneFrom(c, e, U(n + 1))
    BY <2>2, <2>3, <2>4 DEF GoneFrom, Same
  <2> QED BY <2>4, <2>5 DEF e
<1>7. m \in Q
  <2> HIDE DEF Q
  <2> QED BY <1>1, <1>5, <1>6, Induction
<1>8. U(m) = T
  BY <1>1, <1>2
<1> HIDE DEF U
<1> QED BY <1>1, <1>3, <1>7, <1>8


-----------------------------------------------------------------------------
(* Requests                                                                *)

\* From c to d the request q of socket s is carried on: what the other sockets S
\* ask stays, nobody is stopped, and only its name and s get anything from it.
Onward(c, d, S, q, s) ==
  /\ \A m \in Names : d.conn[m].stops = c.conn[m].stops
  /\ d.stopped \subseteq c.stopped
  /\ \A r \in S : r # s => d.asked[r] = c.asked[r] /\ (r \in c.stopped => r \in d.stopped)
  /\ DOMAIN d.pages \subseteq DOMAIN c.pages \cup {s}
  /\ \A t \in DOMAIN d.attached :
       d.attached[t] = q.name \/ (t \in DOMAIN c.attached /\ d.attached[t] = c.attached[t])
  /\ d.allowed = c.allowed /\ (~c.allowed /\ c.grants = <<>> => d.grants = <<>>)
  /\ d.socket = c.socket /\ \A r \in Sockets : c.made[r] \subseteq d.made[r]
  /\ \A x \in d.temporary : x \in c.temporary \/ (q.verb = "space new --temporary" /\ x \in d.made[s])
  /\ c.spaces \ DOMAIN c.agentSpaces \subseteq d.spaces \ DOMAIN d.agentSpaces

\* Carried on twice is carried on.
LEMMA OnwardTwice ==
  ASSUME NEW c, NEW d, NEW e, NEW S, NEW q, NEW s \in Sockets,
         Onward(c, d, S, q, s), Onward(d, e, S, q, s)
  PROVE  Onward(c, e, S, q, s)
BY DEF Onward

\* Letting go carries on.
LEMMA LetsGoOnward ==
  ASSUME NEW c, NEW d, NEW S, NEW q, NEW s, LetsGo(c, d)
  PROVE  Onward(c, d, S, q, s)
<1>1. /\ d.allowed = c.allowed /\ d.spaces = c.spaces /\ d.agentSpaces = c.agentSpaces
      /\ d.temporary = c.temporary /\ d.grants = c.grants /\ d.pages = c.pages
      /\ d.made = c.made /\ d.socket = c.socket /\ d.asked = c.asked /\ d.stopped = c.stopped
  BY LetsGoFields
<1> QED BY <1>1 DEF Onward, LetsGo

\* So does an answer.
LEMMA ReplyOnward ==
  ASSUME NEW c, NEW S, Sound(c, S), NEW q, NEW s \in S
  PROVE  Onward(c, Reply(c, s), S, q, s)
<1> DEFINE d == Reply(c, s)
<1>1. Rec(d) /\ Same(c, d, {"asked", "stopped"}) /\ d.asked = [c.asked EXCEPT ![s] = NoRequest]
      /\ d.stopped = c.stopped \ {s}
  BY ReplyFields DEF Sound, Typed
<1> HIDE DEF d
<1>2. /\ d.allowed = c.allowed /\ d.spaces = c.spaces /\ d.agentSpaces = c.agentSpaces
      /\ d.temporary = c.temporary /\ d.attached = c.attached /\ d.conn = c.conn
      /\ d.grants = c.grants /\ d.pages = c.pages /\ d.made = c.made /\ d.socket = c.socket
  BY <1>1 DEF Same, Fields
<1>3. \A r \in S : r # s => d.asked[r] = c.asked[r]
  BY <1>1 DEF Sound, Typed, Pending
<1>4. Onward(c, d, S, q, s)
  BY <1>1, <1>2, <1>3 DEF Onward
<1> QED BY <1>4 DEF d

\* A request carried on so far and then answered.
LEMMA ThenReply ==
  ASSUME NEW c, NEW e, NEW S, NEW q, NEW s \in S, Sound(e, S), Onward(c, e, S, q, s)
  PROVE  Sound(Reply(e, s), S \ {s}) /\ Onward(c, Reply(e, s), S, q, s)
<1>1. Onward(e, Reply(e, s), S, q, s) /\ s \in Sockets
  BY ReplyOnward DEF Sound, Pending
<1> QED BY <1>1, ReplySound, OnwardTwice

\* What names a socket carried, what it made, what was opened and how its
\* sockets stand do not touch the invariant.
LEMMA AsideSound ==
  ASSUME NEW c, NEW S, Sound(c, S), NEW d, Rec(d), Same(c, d, {"names", "made", "opened", "socket"}),
         d.opened \subseteq c.used \cap Tabs,
         d.made \in [Sockets -> SUBSET Spaces], d.names \in [Sockets -> SUBSET Names],
         d.socket \in [Sockets -> {"open", "closing", "closed"}]
  PROVE  Sound(d, S)
<1>1. /\ d.allowed = c.allowed /\ d.spaces = c.spaces /\ d.agentSpaces = c.agentSpaces
      /\ d.temporary = c.temporary /\ d.granted = c.granted /\ d.tabs = c.tabs
      /\ d.used = c.used /\ d.attached = c.attached /\ d.windows = c.windows
      /\ d.conn = c.conn /\ d.grants = c.grants /\ d.pages = c.pages /\ d.asked = c.asked
      /\ d.carried = c.carried /\ d.stopped = c.stopped
  BY DEF Same, Fields
<1>2. Typed(d)
  BY <1>1 DEF Sound, Typed
<1>3. Reaches(d)
  BY <1>1 DEF Sound, Reaches, OpenerOf, Usable
<1>4. Prompting(d) /\ Stops(d) /\ Spare(d)
  BY <1>1 DEF Sound, Prompting, Stops, Remembers, Spare, Unused
<1>5. Waiting(d)
  BY <1>1, WaitingOf DEF Sound
<1>6. (\A r : WaitsOn(d, r) = WaitsOn(c, r)) /\ Pending(c, S)
  BY <1>1 DEF WaitsOn, Sound
<1>7. Pending(d, S)
  BY <1>1, <1>6 DEF Pending
<1> QED BY <1>2, <1>3, <1>4, <1>5, <1>7 DEF Sound

\* Tabs may come, go, and be moved, as long as what is in use and moved is
\* carried away.
LEMMA TabsSound ==
  ASSUME NEW c, NEW S, Sound(c, S), NEW d, Rec(d), Same(c, d, {"tabs", "opened", "used", "carried"}),
         c.used \subseteq d.used, d.used \cap Spaces = c.used \cap Spaces,
         d.tabs \in [DOMAIN d.tabs -> c.spaces], DOMAIN d.tabs \subseteq d.used \cap Tabs,
         d.opened \subseteq d.used \cap Tabs,
         d.carried \subseteq Tabs, c.carried \subseteq d.carried,
         \A t \in DOMAIN d.tabs \ d.carried :
           t \in c.used => t \in DOMAIN c.tabs /\ d.tabs[t] = c.tabs[t]
  PROVE  Sound(d, S)
<1>1. /\ d.allowed = c.allowed /\ d.spaces = c.spaces /\ d.agentSpaces = c.agentSpaces
      /\ d.temporary = c.temporary /\ d.granted = c.granted
      /\ d.attached = c.attached /\ d.windows = c.windows
      /\ d.conn = c.conn /\ d.grants = c.grants /\ d.pages = c.pages /\ d.asked = c.asked
      /\ d.made = c.made /\ d.names = c.names /\ d.socket = c.socket /\ d.stopped = c.stopped
  BY DEF Same, Fields
<1>2. Typed(d)
  <2>1. d.pages \in [DOMAIN d.pages -> d.used \cap (Tabs \cup Windows)]
    BY <1>1 DEF Sound, Typed
  <2>2. /\ DOMAIN d.attached \subseteq d.used \cap Tabs /\ d.spaces \subseteq d.used \cap Spaces
        /\ DOMAIN d.windows \subseteq d.used \cap Windows
    BY <1>1 DEF Sound, Typed
  <2> QED BY <1>1, <2>1, <2>2 DEF Sound, Typed
<1>3. Reaches(d)
  <2>1. \A u : OpenerOf(d, u) = OpenerOf(c, u)
    BY <1>1 DEF OpenerOf
  <2>2. ASSUME NEW s \in DOMAIN c.pages, NEW t, t = OpenerOf(c, c.pages[s]), t \in DOMAIN d.tabs \ d.carried
        PROVE  t \in DOMAIN c.tabs \ c.carried /\ d.tabs[t] = c.tabs[t]
    <3>1. t \in Tabs /\ None \notin Tabs /\ c.pages[s] \in c.used
      BY <2>2, AgentAssumption DEF Sound, Typed
    <3>2. t \in c.used
      BY <2>2, <3>1 DEF OpenerOf, Sound, Typed, Reaches
    <3> QED BY <2>2, <3>2
  <2>3. \A t \in DOMAIN c.attached : t \in c.used
    BY DEF Sound, Typed
  <2>4. \A s \in DOMAIN d.pages :
          LET t == OpenerOf(d, d.pages[s])
          IN t \in DOMAIN d.tabs \ d.carried => Usable(d, d.tabs[t])
    BY <1>1, <2>1, <2>2 DEF Sound, Reaches, Usable
  <2>5. \A t \in DOMAIN d.attached : t \in DOMAIN d.tabs \ d.carried => Usable(d, d.tabs[t])
    BY <1>1, <2>3 DEF Sound, Reaches, Usable
  <2> QED BY <1>1, <2>4, <2>5 DEF Sound, Reaches
<1>4. Prompting(d) /\ Stops(d)
  BY <1>1 DEF Sound, Prompting, Stops, Remembers
<1>5. Spare(d)
  BY <1>1 DEF Sound, Spare, Unused
<1>6. Waiting(d)
  BY <1>1, WaitingOf DEF Sound
<1>7. (\A r : WaitsOn(d, r) = WaitsOn(c, r)) /\ Pending(c, S)
  BY <1>1 DEF WaitsOn, Sound
<1>8. Pending(d, S)
  BY <1>1, <1>7 DEF Pending
<1> QED BY <1>2, <1>3, <1>4, <1>5, <1>6, <1>8 DEF Sound

\* A tab an Agent may use becomes its tab.
LEMMA AttachSound ==
  ASSUME NEW c, NEW S, Sound(c, S), NEW t \in DOMAIN c.tabs, Usable(c, c.tabs[t]), NEW q,
         q.name \in Names, NEW s
  PROVE  Sound(Attach(c, t, q.name), S) /\ Onward(c, Attach(c, t, q.name), S, q, s)
<1> DEFINE n == q.name
           d == Attach(c, t, n)
<1>1. /\ Rec(d) /\ Same(c, d, {"attached", "carried"}) /\ d.carried = c.carried \ {t}
      /\ d.attached = With(c.attached, t, n)
  BY DEF Attach, Rec, Same, Fields, Sound, Typed
<1> HIDE DEF d
<1>2. /\ d.allowed = c.allowed /\ d.spaces = c.spaces /\ d.agentSpaces = c.agentSpaces
      /\ d.temporary = c.temporary /\ d.granted = c.granted /\ d.tabs = c.tabs
      /\ d.used = c.used /\ d.opened = c.opened /\ d.windows = c.windows
      /\ d.conn = c.conn /\ d.grants = c.grants /\ d.pages = c.pages /\ d.asked = c.asked
      /\ d.made = c.made /\ d.names = c.names /\ d.socket = c.socket /\ d.stopped = c.stopped
  BY <1>1 DEF Same, Fields
<1>3. /\ DOMAIN d.attached = DOMAIN c.attached \cup {t}
      /\ \A u \in DOMAIN d.attached : d.attached[u] = IF u = t THEN n ELSE c.attached[u]
      /\ d.attached \in [DOMAIN d.attached -> Names]
  <2>1. d.attached = [z \in DOMAIN c.attached \cup {t} |-> IF z = t THEN n ELSE c.attached[z]]
    BY <1>1 DEF With
  <2>2. \A u \in DOMAIN c.attached : c.attached[u] \in Names
    BY DEF Sound, Typed
  <2> QED BY <2>1, <2>2
<1>4. t \in c.used \cap Tabs
  BY DEF Sound, Typed
<1>5. Typed(d)
  BY <1>1, <1>2, <1>3, <1>4 DEF Sound, Typed
<1>6. Reaches(d)
  <2>1. \A u : OpenerOf(d, u) = OpenerOf(c, u)
    BY <1>2 DEF OpenerOf
  <2>2. \A u \in DOMAIN d.tabs : Usable(d, d.tabs[u]) <=> Usable(c, c.tabs[u])
    BY <1>2 DEF Usable
  <2> QED BY <1>1, <1>2, <1>3, <2>1, <2>2 DEF Sound, Reaches
<1>7. Prompting(d) /\ Stops(d) /\ Spare(d)
  BY <1>2 DEF Sound, Prompting, Stops, Remembers, Spare, Unused
<1>8. Waiting(d)
  BY <1>2, WaitingOf DEF Sound
<1>9. (\A r : WaitsOn(d, r) = WaitsOn(c, r)) /\ Pending(c, S)
  BY <1>2 DEF WaitsOn, Sound
<1>10. Pending(d, S)
  BY <1>2, <1>9 DEF Pending
<1>11. Sound(d, S) /\ Onward(c, d, S, q, s)
  BY <1>2, <1>3, <1>5, <1>6, <1>7, <1>8, <1>10 DEF Sound, Onward
<1> QED BY <1>11 DEF d

\* The request q of socket s is handled, and leaves d.
Ends(c, d, S, q, s) == Sound(d, S \ {s}) /\ Onward(c, d, S, q, s)

\* A request that is only answered ends.
LEMMA ReplyEnds ==
  ASSUME NEW c, NEW S, Sound(c, S), NEW q, NEW s \in S
  PROVE  Ends(c, Reply(c, s), S, q, s)
BY ReplySound, ReplyOnward DEF Ends

\* So does one that is answered after something was done.
LEMMA ReplyAfter ==
  ASSUME NEW c, NEW e, NEW S, NEW q, NEW s \in S, Sound(e, S), Onward(c, e, S, q, s)
  PROVE  Ends(c, Reply(e, s), S, q, s)
BY ThenReply DEF Ends

\* The connection goes to a tab's page and the tab becomes its own.
LEMMA WorkSound ==
  ASSUME NEW c, NEW S, Sound(c, S), NEW q, q.name \in Names,
         NEW target \in Tabs \cup Windows, NEW t, MayRead(c, t), NEW s \in S
  PROVE  LET e == Attach(GoTo(c, q.name, target, t), t, q.name)
         IN Sound(e, S) /\ Onward(c, e, S, q, s)
<1> DEFINE n == q.name
           f == GoTo(c, n, target, t)
           e == Attach(f, t, n)
<1>1. t \in DOMAIN c.tabs /\ Usable(c, c.tabs[t])
  BY DEF MayRead
<1>2. LetsGo(c, f)
  BY <1>1, GoToLetsGo
<1>3. Sound(f, S) /\ Onward(c, f, S, q, s)
  BY <1>2, LetsGoSound, LetsGoOnward
<1>4. t \in DOMAIN f.tabs /\ Usable(f, f.tabs[t])
  BY <1>1, <1>2, LetsGoFields DEF Usable
<1> HIDE DEF f
<1>5. Sound(e, S) /\ Onward(f, e, S, q, s)
  BY <1>3, <1>4, AttachSound
<1>6. s \in Sockets
  BY DEF Sound, Pending
<1> HIDE DEF e
<1>7. Onward(c, e, S, q, s)
  BY <1>3, <1>5, <1>6, OnwardTwice
<1>8. Sound(e, S) /\ Onward(c, e, S, q, s)
  BY <1>5, <1>7
<1> QED BY <1>8 DEF e, f

\* What the request is about, when its page may be read, is a page.
LEMMA TargetIsPage ==
  ASSUME NEW c, NEW S, Sound(c, S), NEW target, MayRead(c, OpenerOf(c, target))
  PROVE  target \in c.used \cap (Tabs \cup Windows)
<1>1. OpenerOf(c, target) \in Tabs \cap c.used /\ None \notin Tabs
  BY AgentAssumption DEF MayRead, Sound, Typed
<1> QED BY <1>1 DEF OpenerOf, Sound, Typed

\* A page is asked, and the request waits for it.
LEMMA AskPageEnds ==
  ASSUME NEW c, NEW S, Sound(c, S), NEW s \in S, NEW q, q.name \in Names
  PROVE  Ends(c, AskPage(c, s, q), S, q, s)
<1> DEFINE n == q.name
           target == TargetId(c, q)
           t == OpenerOf(c, target)
           e == Attach(GoTo(c, n, target, t), t, n)
           d == AskPage(c, s, q)
<1>1. CASE ~MayRead(c, t)
  <2>1. d = Reply(c, s)
    BY <1>1 DEF AskPage
  <2> QED BY <2>1, ReplyEnds
<1>2. CASE MayRead(c, t)
  <2>1. target \in c.used \cap (Tabs \cup Windows)
    BY <1>2, TargetIsPage
  <2> HIDE DEF target
  <2>2. Sound(e, S) /\ Onward(c, e, S, q, s)
    BY <1>2, <2>1, WorkSound
  <2>3. d = [e EXCEPT !.pages = With(@, s, target)]
    BY <1>2 DEF AskPage, target
  <2>4. LetsGo(c, GoTo(c, n, target, t))
    BY <1>2, <2>1, GoToLetsGo DEF MayRead
  <2>5. e.tabs = c.tabs /\ e.used = c.used /\ e.windows = c.windows /\ e.agentSpaces = c.agentSpaces
        /\ e.granted = c.granted /\ e.allowed = c.allowed
    <3> DEFINE f == GoTo(c, n, target, t)
    <3>1. /\ f.tabs = c.tabs /\ f.used = c.used /\ f.agentSpaces = c.agentSpaces
          /\ f.granted = c.granted /\ f.allowed = c.allowed
      BY <2>4, LetsGoFields
    <3>2. f.windows = c.windows /\ Rec(f)
      BY <2>4 DEF GoTo, Sound, Typed, Rec, Fields, LetsGo
    <3> HIDE DEF f
    <3>3. e = [f EXCEPT !.attached = With(@, t, n), !.carried = @ \ {t}]
      BY DEF Attach, f
    <3> HIDE DEF e
    <3> QED BY <3>1, <3>2, <3>3 DEF Rec, Fields
  <2> HIDE DEF e
  <2>6. /\ Rec(d) /\ Same(e, d, {"pages"}) /\ d.pages = With(e.pages, s, target)
    <3>1. Rec(e)
      BY <2>2 DEF Sound, Typed
    <3> HIDE DEF d
    <3> QED BY <2>3, <3>1 DEF Rec, Same, Fields
  <2> HIDE DEF d
  <2>7. /\ d.allowed = e.allowed /\ d.spaces = e.spaces /\ d.agentSpaces = e.agentSpaces
        /\ d.temporary = e.temporary /\ d.granted = e.granted /\ d.tabs = e.tabs
        /\ d.used = e.used /\ d.opened = e.opened /\ d.attached = e.attached
        /\ d.windows = e.windows /\ d.conn = e.conn /\ d.grants = e.grants /\ d.asked = e.asked
        /\ d.made = e.made /\ d.names = e.names /\ d.socket = e.socket /\ d.stopped = e.stopped
        /\ d.carried = e.carried
    BY <2>6 DEF Same, Fields
  <2>8. /\ DOMAIN d.pages = DOMAIN e.pages \cup {s}
        /\ \A r \in DOMAIN d.pages : d.pages[r] = IF r = s THEN target ELSE e.pages[r]
        /\ d.pages \in [DOMAIN d.pages -> e.used \cap (Tabs \cup Windows)]
    <3>1. d.pages = [z \in DOMAIN e.pages \cup {s} |-> IF z = s THEN target ELSE e.pages[z]]
      BY <2>6 DEF With
    <3>2. \A r \in DOMAIN e.pages : e.pages[r] \in e.used \cap (Tabs \cup Windows)
      BY <2>2 DEF Sound, Typed
    <3> QED BY <2>1, <2>5, <3>1, <3>2
  <2>9. s \in Sockets /\ s \notin DOMAIN e.pages /\ WaitsOn(e, s) = {} /\ e.asked[s] # NoRequest
    BY <2>2 DEF Sound, Pending
  <2>10. Typed(d)
    BY <2>2, <2>6, <2>7, <2>8, <2>9 DEF Sound, Typed
  <2>11. Reaches(d)
    <3>1. \A u : OpenerOf(d, u) = OpenerOf(e, u)
      BY <2>7 DEF OpenerOf
    <3>2. OpenerOf(d, target) = t
      BY <2>5, <2>7 DEF OpenerOf
    <3>3. t \in DOMAIN d.tabs /\ Usable(d, d.tabs[t])
      BY <1>2, <2>5, <2>7 DEF MayRead, Usable
    <3>4. \A r \in DOMAIN d.pages :
            LET u == OpenerOf(d, d.pages[r])
            IN u \in DOMAIN d.tabs \ d.carried => Usable(d, d.tabs[u])
      <4> TAKE r \in DOMAIN d.pages
      <4>1. CASE r = s
        <5>1. OpenerOf(d, d.pages[r]) = t
          BY <2>8, <3>2, <4>1
        <5> QED BY <3>3, <5>1
      <4>2. CASE r # s
        <5>1. r \in DOMAIN e.pages /\ d.pages[r] = e.pages[r]
          BY <2>8, <4>2
        <5> QED BY <2>2, <2>7, <3>1, <5>1 DEF Sound, Reaches, Usable
      <4> QED BY <4>1, <4>2
    <3> QED BY <2>2, <2>7, <3>4 DEF Sound, Reaches, Usable
  <2>12. Prompting(d) /\ Stops(d) /\ Spare(d)
    BY <2>2, <2>7 DEF Sound, Prompting, Stops, Remembers, Spare, Unused
  <2>13. \A r : WaitsOn(d, r) = WaitsOn(e, r)
    BY <2>7 DEF WaitsOn
  <2>14. Waiting(d)
    <3>1. ASSUME NEW i \in DOMAIN e.grants, NEW k \in DOMAIN e.grants[i].waiters
          PROVE  WaitsWell(d, i, k)
      <4>1. WaitsWell(e, i, k) /\ i \in WaitsOn(e, e.grants[i].waiters[k].socket)
        BY <2>2 DEF Sound, Waiting, WaitsOn
      <4>2. e.grants[i].waiters[k].socket # s
        BY <2>9, <4>1
      <4> QED BY <2>7, <2>8, <2>13, <4>1, <4>2 DEF WaitsWell
    <3> QED BY <2>7, <3>1 DEF Waiting
  <2>15. Pending(d, S \ {s})
    BY <2>2, <2>7, <2>8, <2>9, <2>13 DEF Sound, Pending
  <2>16. Sound(d, S \ {s})
    BY <2>10, <2>11, <2>12, <2>14, <2>15 DEF Sound
  <2>17. Onward(c, d, S, q, s)
    BY <2>2, <2>7, <2>8 DEF Onward
  <2> QED BY <2>16, <2>17 DEF Ends, d
<1> QED BY <1>1, <1>2

\* What a console said is answered at once.
LEMMA ReadConsoleEnds ==
  ASSUME NEW c, NEW S, Sound(c, S), NEW s \in S, NEW q, q.name \in Names
  PROVE  Ends(c, ReadConsole(c, s, q), S, q, s)
<1> DEFINE n == q.name
           target == TargetId(c, q)
           t == OpenerOf(c, target)
           e == Attach(GoTo(c, n, target, t), t, n)
           d == ReadConsole(c, s, q)
<1>1. CASE ~MayRead(c, t)
  <2>1. d = Reply(c, s)
    BY <1>1 DEF ReadConsole
  <2> QED BY <2>1, ReplyEnds
<1>2. CASE MayRead(c, t)
  <2>1. target \in c.used \cap (Tabs \cup Windows)
    BY <1>2, TargetIsPage
  <2> HIDE DEF target
  <2>2. Sound(e, S) /\ Onward(c, e, S, q, s)
    BY <1>2, <2>1, WorkSound
  <2>3. d = Reply(e, s)
    BY <1>2 DEF ReadConsole, target
  <2> HIDE DEF e, d
  <2>4. Ends(c, d, S, q, s)
    BY <2>2, <2>3, ReplyAfter
  <2> QED BY <2>4 DEF d
<1> QED BY <1>1, <1>2

\* A tab is loaded, and answered at once.
LEMMA LoadEnds ==
  ASSUME NEW c, NEW S, Sound(c, S), NEW s \in S, NEW q, q.name \in Names, NEW t
  PROVE  Ends(c, Load(c, s, q, t), S, q, s)
<1> DEFINE n == q.name
           there == GoTo(c, n, t, t)
           d == Load(c, s, q, t)
<1>1. CASE ~MayLoad(c, t)
  <2>1. d = Reply(c, s)
    BY <1>1 DEF Load
  <2> QED BY <2>1, ReplyEnds
<1>2. CASE MayLoad(c, t) /\ MayRead(c, t)
  <2> DEFINE e == Attach(there, t, n)
  <2>1. t \in Tabs
    BY <1>2 DEF MayLoad, Sound, Typed
  <2>2. Sound(e, S) /\ Onward(c, e, S, q, s)
    BY <1>2, <2>1, WorkSound
  <2>3. d = Reply(e, s)
    BY <1>2 DEF Load
  <2> HIDE DEF e, d
  <2>4. Ends(c, d, S, q, s)
    BY <2>2, <2>3, ReplyAfter
  <2> QED BY <2>4 DEF d
<1>3. CASE MayLoad(c, t) /\ ~MayRead(c, t)
  <2>1. t \in Tabs /\ t \in DOMAIN c.tabs
    BY <1>3 DEF MayLoad, Sound, Typed
  <2>2. LetsGo(c, there)
    BY <2>1, GoToLetsGo
  <2>3. Sound(there, S) /\ Onward(c, there, S, q, s)
    BY <2>2, LetsGoSound, LetsGoOnward
  <2>4. d = Reply(there, s)
    BY <1>3 DEF Load
  <2> HIDE DEF there, d
  <2>5. Ends(c, d, S, q, s)
    BY <2>3, <2>4, ReplyAfter
  <2> QED BY <2>5 DEF d
<1> QED BY <1>1, <1>2, <1>3

\* A new tab is opened, and answered at once.
LEMMA OpenNewEnds ==
  ASSUME NEW c, NEW S, Sound(c, S), NEW s \in S, NEW q, q.name \in Names
  PROVE  Ends(c, OpenNew(c, s, q), S, q, s)
<1> DEFINE n == q.name
           x == IF q.verb = "open" \/ q.about = None THEN DefaultSpace(c, n) ELSE q.about
           t == NewId(c, Tabs)
           e == [c EXCEPT !.tabs = With(@, t, x), !.used = @ \cup {t}, !.opened = @ \cup {t}]
           there == GoTo(e, n, t, t)
           d == OpenNew(c, s, q)
<1> HIDE DEF x
<1>1. CASE x \notin c.spaces \/ Unused(c, Tabs) = {}
  <2>1. d = Reply(c, s)
    BY <1>1 DEF OpenNew, x
  <2> QED BY <2>1, ReplyEnds
<1>2. CASE x \in c.spaces /\ Unused(c, Tabs) # {}
  <2>1. t \in Tabs \ c.used
    BY <1>2 DEF NewId, Unused
  <2> HIDE DEF t
  <2>2. /\ Rec(e) /\ Same(c, e, {"tabs", "opened", "used", "carried"})
        /\ e.tabs = With(c.tabs, t, x) /\ e.used = c.used \cup {t} /\ e.opened = c.opened \cup {t}
        /\ e.carried = c.carried
    BY DEF Rec, Same, Fields, Sound, Typed
  <2>3. d = Reply(IF Usable(c, x) THEN Attach(there, t, n) ELSE there, s)
    BY <1>2 DEF OpenNew, t, x
  <2> HIDE DEF e, d
  <2>4. /\ DOMAIN e.tabs = DOMAIN c.tabs \cup {t} /\ t \notin DOMAIN c.tabs /\ e.tabs[t] = x
        /\ \A u \in DOMAIN c.tabs : e.tabs[u] = c.tabs[u]
        /\ e.tabs \in [DOMAIN e.tabs -> c.spaces]
    <3>1. e.tabs = [z \in DOMAIN c.tabs \cup {t} |-> IF z = t THEN x ELSE c.tabs[z]]
      BY <2>2 DEF With
    <3>2. t \notin DOMAIN c.tabs /\ \A u \in DOMAIN c.tabs : c.tabs[u] \in c.spaces
      BY <2>1 DEF Sound, Typed
    <3> QED BY <1>2, <3>1, <3>2
  <2>5. /\ c.used \subseteq e.used /\ e.used \cap Spaces = c.used \cap Spaces
        /\ DOMAIN e.tabs \subseteq e.used \cap Tabs /\ e.opened \subseteq e.used \cap Tabs
        /\ e.carried \subseteq Tabs /\ c.carried \subseteq e.carried
        /\ \A u \in DOMAIN e.tabs \ e.carried :
             u \in c.used => u \in DOMAIN c.tabs /\ e.tabs[u] = c.tabs[u]
    BY <2>1, <2>2, <2>4, AgentAssumption DEF Sound, Typed
  <2>6. Sound(e, S)
    BY <2>2, <2>4, <2>5, TabsSound
  <2>7. /\ e.allowed = c.allowed /\ e.spaces = c.spaces /\ e.agentSpaces = c.agentSpaces
        /\ e.temporary = c.temporary /\ e.granted = c.granted
        /\ e.attached = c.attached /\ e.windows = c.windows
        /\ e.conn = c.conn /\ e.grants = c.grants /\ e.pages = c.pages /\ e.asked = c.asked
        /\ e.made = c.made /\ e.names = c.names /\ e.socket = c.socket /\ e.stopped = c.stopped
    BY <2>2 DEF Same, Fields
  <2>8. Onward(c, e, S, q, s) /\ s \in Sockets
    BY <2>7 DEF Onward, Sound, Pending
  <2>9. LetsGo(e, there)
    BY <2>1, <2>4, <2>6, GoToLetsGo
  <2>10. Sound(there, S) /\ Onward(e, there, S, q, s)
    BY <2>6, <2>9, LetsGoSound, LetsGoOnward
  <2>11. there.tabs = e.tabs /\ there.allowed = c.allowed /\ there.agentSpaces = c.agentSpaces
         /\ there.granted = c.granted
    BY <2>7, <2>9, LetsGoFields
  <2> HIDE DEF there
  <2>12. Onward(c, there, S, q, s)
    BY <2>8, <2>10, OnwardTwice
  <2>13. CASE Usable(c, x)
    <3> DEFINE f == Attach(there, t, n)
    <3>1. t \in DOMAIN there.tabs /\ Usable(there, there.tabs[t])
      BY <2>4, <2>11, <2>13 DEF Usable
    <3>2. Sound(f, S) /\ Onward(there, f, S, q, s)
      BY <2>10, <3>1, AttachSound
    <3> HIDE DEF f
    <3>3. Onward(c, f, S, q, s)
      BY <2>8, <2>12, <3>2, OnwardTwice
    <3>4. d = Reply(f, s)
      BY <2>3, <2>13 DEF f
    <3>5. Ends(c, d, S, q, s)
      BY <3>2, <3>3, <3>4, ReplyAfter
    <3> QED BY <3>5 DEF d
  <2>14. CASE ~Usable(c, x)
    <3>1. d = Reply(there, s)
      BY <2>3, <2>14
    <3>2. Ends(c, d, S, q, s)
      BY <2>10, <2>12, <3>1, ReplyAfter
    <3> QED BY <3>2 DEF d
  <2> QED BY <2>13, <2>14
<1> QED BY <1>1, <1>2

\* A window or a tab is closed.
LEMMA CloseEnds ==
  ASSUME NEW c, NEW S, Sound(c, S), NEW s \in S, NEW q, q.name \in Names
  PROVE  Ends(c, Close(c, s, q), S, q, s)
<1> DEFINE n == q.name
           t == TargetId(c, q)
           d == Close(c, s, q)
<1> HIDE DEF t
<1>1. CASE t \in DOMAIN c.windows
  <2> DEFINE e == ForgetWindows(c, {t})
  <2>1. LetsGo(c, e)
    BY ForgetWindowsLetsGo
  <2>2. Sound(e, S) /\ Onward(c, e, S, q, s)
    BY <2>1, LetsGoSound, LetsGoOnward
  <2>3. d = Reply(e, s)
    BY <1>1 DEF Close, t
  <2> HIDE DEF e, d
  <2>4. Ends(c, d, S, q, s)
    BY <2>2, <2>3, ReplyAfter
  <2> QED BY <2>4 DEF d
<1>2. CASE t \notin DOMAIN c.windows /\ ~MayClose(c, t)
  <2>1. d = Reply(c, s)
    BY <1>2 DEF Close, t
  <2> QED BY <2>1, ReplyEnds
<1>3. CASE t \notin DOMAIN c.windows /\ MayClose(c, t)
  <2> DEFINE e == [c EXCEPT !.tabs = Without(@, {t}), !.opened = @ \ {t}]
             f == Detach(e, {t})
             g == LeaveTabs(f, NamesAt(c, {t}))
  <2>1. /\ Rec(e) /\ Same(c, e, {"tabs", "opened", "used", "carried"})
        /\ e.tabs = Without(c.tabs, {t}) /\ e.used = c.used /\ e.opened = c.opened \ {t}
        /\ e.carried = c.carried
    BY DEF Rec, Same, Fields, Sound, Typed
  <2>2. d = Reply(g, s)
    BY <1>3 DEF Close, t
  <2> HIDE DEF e, d
  <2>3. /\ DOMAIN e.tabs = DOMAIN c.tabs \ {t}
        /\ \A u \in DOMAIN e.tabs : e.tabs[u] = c.tabs[u]
        /\ e.tabs \in [DOMAIN e.tabs -> c.spaces]
    <3>1. e.tabs = [u \in DOMAIN c.tabs \ {t} |-> c.tabs[u]]
      BY <2>1 DEF Without, Restrict
    <3>2. \A u \in DOMAIN c.tabs : c.tabs[u] \in c.spaces
      BY DEF Sound, Typed
    <3> QED BY <3>1, <3>2
  <2>4. /\ c.used \subseteq e.used /\ e.used \cap Spaces = c.used \cap Spaces
        /\ DOMAIN e.tabs \subseteq e.used \cap Tabs /\ e.opened \subseteq e.used \cap Tabs
        /\ e.carried \subseteq Tabs /\ c.carried \subseteq e.carried
        /\ \A u \in DOMAIN e.tabs \ e.carried :
             u \in c.used => u \in DOMAIN c.tabs /\ e.tabs[u] = c.tabs[u]
    BY <2>1, <2>3 DEF Sound, Typed
  <2>5. Sound(e, S)
    BY <2>1, <2>3, <2>4, TabsSound
  <2>6. /\ e.allowed = c.allowed /\ e.spaces = c.spaces /\ e.agentSpaces = c.agentSpaces
        /\ e.temporary = c.temporary /\ e.granted = c.granted
        /\ e.attached = c.attached /\ e.windows = c.windows
        /\ e.conn = c.conn /\ e.grants = c.grants /\ e.pages = c.pages /\ e.asked = c.asked
        /\ e.made = c.made /\ e.names = c.names /\ e.socket = c.socket /\ e.stopped = c.stopped
    BY <2>1 DEF Same, Fields
  <2>7. Onward(c, e, S, q, s) /\ s \in Sockets
    BY <2>6 DEF Onward, Sound, Pending
  <2>8. LetsGo(e, f)
    BY <2>5, DetachLetsGo
  <2>9. Sound(f, S)
    BY <2>5, <2>8, LetsGoSound
  <2> HIDE DEF f
  <2>10. LetsGo(f, g)
    BY <2>9, LeaveTabsLetsGo
  <2> HIDE DEF g
  <2>11. Sound(g, S) /\ Onward(e, g, S, q, s)
    <3>1. LetsGo(e, g)
      BY <2>8, <2>10, LetsGoTwice
    <3> QED BY <2>5, <3>1, LetsGoSound, LetsGoOnward
  <2>12. Onward(c, g, S, q, s)
    BY <2>7, <2>11, OnwardTwice
  <2>13. Ends(c, d, S, q, s)
    BY <2>2, <2>11, <2>12, ReplyAfter
  <2> QED BY <2>13 DEF d
<1> QED BY <1>1, <1>2, <1>3

\* Of two unused ids one is left.
LEMMA OneLeft ==
  ASSUME NEW c, ~(Cardinality(Unused(c, Spaces)) < 2), NEW x
  PROVE  Unused(c, Spaces) \ {x} # {}
<1> DEFINE U == Unused(c, Spaces)
<1>1. SUFFICES ASSUME U \ {x} = {} PROVE FALSE
  OBVIOUS
<1>2. U = {} \/ U = {x}
  BY <1>1
<1>3. Cardinality(U) = 0 \/ Cardinality(U) = 1
  BY <1>2, FS_EmptySet, FS_Singleton
<1> QED BY <1>3

\* A Space is made for an Agent.
LEMMA CreateSpaceEnds ==
  ASSUME NEW c, NEW S, Sound(c, S), NEW s \in S, NEW q, q.name \in Names
  PROVE  Ends(c, CreateSpace(c, s, q), S, q, s)
<1> DEFINE n == q.name
           x == NewId(c, Spaces)
           brief == q.verb = "space new --temporary"
           p == [c.conn[n] EXCEPT !.space = x]
           o == [p EXCEPT !.tab = None]
           f == [c EXCEPT !.conn[n].space = x, !.conn[n].tab = None]
           e == [c EXCEPT !.spaces = @ \cup {x}, !.used = @ \cup {x},
                          !.agentSpaces = With(@, x, n),
                          !.temporary = IF brief THEN @ \cup {x} ELSE @,
                          !.made[s] = IF brief THEN @ \cup {x} ELSE @,
                          !.conn[n].space = x, !.conn[n].tab = None]
           d == CreateSpace(c, s, q)
<1>1. CASE Cardinality(Unused(c, Spaces)) < 2
  <2>1. d = Reply(c, s)
    BY <1>1 DEF CreateSpace
  <2> QED BY <2>1, ReplyEnds
<1>2. CASE ~(Cardinality(Unused(c, Spaces)) < 2)
  <2>1. Unused(c, Spaces) # {} /\ Unused(c, Spaces) \ {x} # {}
    BY <1>2, OneLeft
  <2>2. x \in Spaces \ c.used
    BY <2>1 DEF NewId, Unused
  <2>3. d = Reply(e, s)
    BY <1>2 DEF CreateSpace
  <2>4. s \in Sockets /\ Rec(c) /\ c.conn \in [Names -> Connections] /\ c.conn[n] \in Connections
        /\ c.made \in [Sockets -> SUBSET Spaces] /\ None \in {None}
    BY DEF Sound, Pending, Typed
  <2> HIDE DEF x, brief, d
  <2>5. o \in Connections /\ o.denied = c.conn[n].denied /\ o.stops = c.conn[n].stops
    <3>1. p \in Connections /\ p.denied = c.conn[n].denied /\ p.stops = c.conn[n].stops
      BY <2>2, <2>4, ConnectionKeeps
    <3> HIDE DEF p
    <3> QED BY <3>1, ConnectionKeeps
  <2>6. Rec(f) /\ Same(c, f, {"conn"}) /\ f.conn = [c.conn EXCEPT ![n] = o]
    BY <2>4 DEF Rec, Same, Fields
  <2> HIDE DEF f
  <2>7. Sound(f, S) /\ Onward(c, f, S, q, s)
    <3> HIDE DEF o
    <3>1. LetsGo(c, f)
      BY <2>5, <2>6, OneLetsGo
    <3> QED BY <3>1, LetsGoSound, LetsGoOnward
  <2>8. /\ Rec(e) /\ Same(f, e, {"spaces", "used", "agentSpaces", "temporary", "made"})
        /\ e.spaces = c.spaces \cup {x} /\ e.used = c.used \cup {x}
        /\ e.agentSpaces = With(c.agentSpaces, x, n)
        /\ e.temporary = (IF brief THEN c.temporary \cup {x} ELSE c.temporary)
        /\ e.made = [c.made EXCEPT ![s] = IF brief THEN @ \cup {x} ELSE @]
    <3>1. /\ Rec(e) /\ e.conn = [c.conn EXCEPT ![n] = o]
          /\ Same(c, e, {"spaces", "used", "agentSpaces", "temporary", "made", "conn"})
          /\ e.spaces = c.spaces \cup {x} /\ e.used = c.used \cup {x}
          /\ e.agentSpaces = With(c.agentSpaces, x, n)
          /\ e.temporary = (IF brief THEN c.temporary \cup {x} ELSE c.temporary)
          /\ e.made = [c.made EXCEPT ![s] = IF brief THEN @ \cup {x} ELSE @]
      <4> DEFINE g == [c EXCEPT !.spaces = @ \cup {x}, !.used = @ \cup {x},
                                !.agentSpaces = With(@, x, n),
                                !.temporary = IF brief THEN @ \cup {x} ELSE @,
                                !.made[s] = IF brief THEN @ \cup {x} ELSE @]
      <4>1. e = [g EXCEPT !.conn[n].space = x, !.conn[n].tab = None]
        OBVIOUS
      <4>2. /\ Rec(g) /\ g.conn = c.conn
            /\ Same(c, g, {"spaces", "used", "agentSpaces", "temporary", "made"})
            /\ g.spaces = c.spaces \cup {x} /\ g.used = c.used \cup {x}
            /\ g.agentSpaces = With(c.agentSpaces, x, n)
            /\ g.temporary = (IF brief THEN c.temporary \cup {x} ELSE c.temporary)
            /\ g.made = [c.made EXCEPT ![s] = IF brief THEN @ \cup {x} ELSE @]
        BY <2>4 DEF Rec, Same, Fields
      <4> HIDE DEF g, e
      <4>3. Rec(e) /\ Same(g, e, {"conn"}) /\ e.conn = [g.conn EXCEPT ![n] = o]
        BY <2>4, <4>1, <4>2 DEF Rec, Same, Fields
      <4> QED BY <4>2, <4>3 DEF Same, Fields
    <3> HIDE DEF e
    <3> QED BY <2>6, <3>1 DEF Same, Fields
  <2> HIDE DEF e, o, p
  <2>9. /\ e.allowed = f.allowed /\ e.granted = f.granted /\ e.tabs = f.tabs
        /\ e.opened = f.opened /\ e.attached = f.attached /\ e.windows = f.windows
        /\ e.conn = f.conn /\ e.grants = f.grants /\ e.pages = f.pages /\ e.asked = f.asked
        /\ e.names = f.names /\ e.socket = f.socket /\ e.stopped = f.stopped
        /\ e.carried = f.carried
    BY <2>8 DEF Same, Fields
  <2>10. /\ f.spaces = c.spaces /\ f.used = c.used /\ f.agentSpaces = c.agentSpaces
         /\ f.temporary = c.temporary /\ f.made = c.made
    BY <2>6 DEF Same, Fields
  <2>11. /\ DOMAIN e.agentSpaces = DOMAIN f.agentSpaces \cup {x}
         /\ e.agentSpaces \in [DOMAIN e.agentSpaces -> Names]
    <3>1. e.agentSpaces = [z \in DOMAIN c.agentSpaces \cup {x} |-> IF z = x THEN n ELSE c.agentSpaces[z]]
      BY <2>8 DEF With
    <3>2. \A z \in DOMAIN c.agentSpaces : c.agentSpaces[z] \in Names
      BY DEF Sound, Typed
    <3> QED BY <2>10, <3>1, <3>2
  <2>12. /\ e.made \in [Sockets -> SUBSET Spaces] /\ \A r \in Sockets : f.made[r] \subseteq e.made[r]
         /\ \A y \in e.temporary : y \in f.temporary \/ (brief /\ y \in e.made[s])
    BY <2>2, <2>4, <2>8, <2>10
  <2>13. e.spaces = f.spaces \cup {x} /\ e.used = f.used \cup {x} /\ x \in Spaces \ f.used
         /\ f.temporary \subseteq e.temporary /\ e.temporary \subseteq f.temporary \cup {x}
    BY <2>2, <2>8, <2>10
  <2>14. Typed(e)
    <3>1. /\ e.spaces \subseteq e.used \cap Spaces /\ e.spaces # {}
          /\ DOMAIN e.agentSpaces \subseteq e.spaces /\ e.temporary \subseteq DOMAIN e.agentSpaces
          /\ e.granted \subseteq e.spaces \ DOMAIN e.agentSpaces
          /\ DOMAIN e.tabs \subseteq e.used \cap Tabs
      <4>1. brief => x \in DOMAIN e.agentSpaces
        BY <2>11
      <4>2. /\ f.spaces \subseteq f.used \cap Spaces /\ DOMAIN f.agentSpaces \subseteq f.spaces
            /\ f.temporary \subseteq DOMAIN f.agentSpaces
            /\ f.granted \subseteq f.spaces \ DOMAIN f.agentSpaces
            /\ DOMAIN f.tabs \subseteq f.used \cap Tabs
        BY <2>7 DEF Sound, Typed
      <4> QED BY <2>9, <2>11, <2>13, <4>2
    <3>2. e.tabs \in [DOMAIN e.tabs -> e.spaces]
      BY <2>7, <2>9, <2>13 DEF Sound, Typed
    <3>3. e.pages \in [DOMAIN e.pages -> e.used \cap (Tabs \cup Windows)]
      BY <2>7, <2>9, <2>13 DEF Sound, Typed
    <3>4. /\ e.opened \subseteq e.used \cap Tabs /\ DOMAIN e.attached \subseteq e.used \cap Tabs
          /\ DOMAIN e.windows \subseteq e.used \cap Windows
      BY <2>7, <2>9, <2>13 DEF Sound, Typed
    <3> QED BY <2>7, <2>8, <2>9, <2>11, <2>12, <3>1, <3>2, <3>3, <3>4 DEF Sound, Typed
  <2>15. Reaches(e)
    BY <2>7, <2>9, <2>11 DEF Sound, Reaches, OpenerOf, Usable
  <2>16. Prompting(e)
    BY <2>7, <2>9, <2>11, <2>13 DEF Sound, Typed, Prompting
  <2>17. Waiting(e)
    BY <2>7, <2>9, WaitingOf DEF Sound
  <2>18. Stops(e)
    BY <2>7, <2>9 DEF Sound, Stops, Remembers
  <2>19. Spare(e)
    BY <2>1, <2>8 DEF Spare, Unused
  <2>20. (\A r : WaitsOn(e, r) = WaitsOn(f, r)) /\ Pending(f, S)
    BY <2>7, <2>9 DEF WaitsOn, Sound
  <2>21. Pending(e, S)
    BY <2>9, <2>20 DEF Pending
  <2>22. Sound(e, S)
    BY <2>14, <2>15, <2>16, <2>17, <2>18, <2>19, <2>21 DEF Sound
  <2>23. Onward(f, e, S, q, s)
    BY <2>7, <2>9, <2>11, <2>12, <2>13 DEF Onward, Sound, Typed, brief
  <2>24. Onward(c, e, S, q, s)
    BY <2>4, <2>7, <2>23, OnwardTwice
  <2>25. Ends(c, d, S, q, s)
    BY <2>3, <2>22, <2>24, ReplyAfter
  <2> QED BY <2>25 DEF d
<1> QED BY <1>1, <1>2

\* An Agent deletes a Space it made.
LEMMA DeleteAgentSpaceEnds ==
  ASSUME NEW c, NEW S, Sound(c, S), NEW s \in S, NEW q, q.name \in Names
  PROVE  Ends(c, DeleteAgentSpace(c, s, q), S, q, s)
<1> DEFINE n == q.name
           x == q.about
           g == DeleteSpace(c, x)
           e == [g EXCEPT !.conn[n].space = IF @ = x THEN None ELSE @]
           d == DeleteAgentSpace(c, s, q)
<1>1. CASE x \notin DOMAIN c.agentSpaces
  <2>1. d = Reply(c, s)
    BY <1>1 DEF DeleteAgentSpace
  <2> QED BY <2>1, ReplyEnds
<1>2. CASE x \in DOMAIN c.agentSpaces /\ (c.agentSpaces[x] # n \/ c.spaces = {x})
  <2>1. d = Reply(c, s)
    BY <1>2 DEF DeleteAgentSpace
  <2> QED BY <2>1, ReplyEnds
<1>3. CASE x \in DOMAIN c.agentSpaces /\ ~(c.agentSpaces[x] # n \/ c.spaces = {x})
  <2>1. x \in c.spaces /\ Grown(c, c, {}, x)
    BY <1>3 DEF Grown, Same, Sound, Typed
  <2>2. Sound(g, S) /\ Deleted(c, g, {}, x)
    BY <2>1, DeletedSound
  <2>3. d = Reply(e, s)
    BY <1>3 DEF DeleteAgentSpace
  <2> HIDE DEF g, d
  <2>4. Rec(g) /\ g.conn \in [Names -> Connections] /\ g.conn[n] \in Connections
    BY <2>2 DEF Sound, Typed
  <2> DEFINE y == IF g.conn[n].space = x THEN None ELSE g.conn[n].space
             o == [g.conn[n] EXCEPT !.space = y]
  <2>5. y \in Spaces \cup {None}
    BY <2>4 DEF Connections
  <2>6. o \in Connections /\ o.denied = g.conn[n].denied /\ o.stops = g.conn[n].stops
    <3> HIDE DEF y
    <3> QED BY <2>4, <2>5, ConnectionKeeps
  <2>7. e = [g EXCEPT !.conn[n].space = y]
    OBVIOUS
  <2> HIDE DEF e, y
  <2>8. Rec(e) /\ Same(g, e, {"conn"}) /\ e.conn = [g.conn EXCEPT ![n] = o]
    BY <2>4, <2>7 DEF Rec, Same, Fields
  <2> HIDE DEF o
  <2>9. LetsGo(g, e)
    BY <2>2, <2>6, <2>8, OneLetsGo
  <2>10. Sound(e, S) /\ Onward(g, e, S, q, s)
    BY <2>2, <2>9, LetsGoSound, LetsGoOnward
  <2>11. Onward(c, g, S, q, s) /\ s \in Sockets
    <3>1. Same(c, g, {"spaces", "used", "temporary", "granted", "agentSpaces", "tabs",
                      "grants", "asked", "stopped"})
      BY <2>2 DEF Deleted
    <3>2. /\ g.allowed = c.allowed /\ g.attached = c.attached /\ g.conn = c.conn
          /\ g.pages = c.pages /\ g.made = c.made /\ g.socket = c.socket
      BY <3>1 DEF Same, Fields
    <3>3. /\ g.spaces = (c.spaces \cup {}) \ {x} /\ g.temporary = c.temporary \ {x}
          /\ DOMAIN g.agentSpaces = DOMAIN c.agentSpaces \ {x}
          /\ \A r \in Sockets : g.asked[r] = IF r \in Asking(c, x) THEN NoRequest ELSE c.asked[r]
          /\ g.stopped = c.stopped \ Asking(c, x) /\ g.grants = Unprompted(c.grants, x)
      BY <2>2 DEF Deleted
    <3>4. \A r \in S : r \in Sockets /\ r \notin Asking(c, x)
      BY DEF Sound, Pending, Asking
    <3>5. \A r \in S : g.asked[r] = c.asked[r]
      BY <3>3, <3>4
    <3> QED BY <1>3, <3>2, <3>3, <3>4, <3>5, NoPrompts DEF Onward
  <2>12. Onward(c, e, S, q, s)
    BY <2>10, <2>11, OnwardTwice
  <2>13. Ends(c, d, S, q, s)
    BY <2>3, <2>10, <2>12, ReplyAfter
  <2> QED BY <2>13 DEF d
<1> QED BY <1>1, <1>2, <1>3

\* Every verb answers its request or leaves it with a page.
LEMMA AnswerEnds ==
  ASSUME NEW c, NEW S, Sound(c, S), NEW s \in S, NEW q, q.name \in Names
  PROVE  Ends(c, Answer(c, s, q), S, q, s)
<1> DEFINE d == Answer(c, s, q)
<1>1. Ends(c, AskPage(c, s, q), S, q, s)
  BY AskPageEnds
<1>2. Ends(c, ReadConsole(c, s, q), S, q, s)
  BY ReadConsoleEnds
<1>3. Ends(c, Open(c, s, q), S, q, s)
  <2>1. Ends(c, OpenNew(c, s, q), S, q, s)
    BY OpenNewEnds
  <2>2. Ends(c, Load(c, s, q, TabToLoad(c, q)), S, q, s)
    BY LoadEnds
  <2> QED BY <2>1, <2>2 DEF Open
<1>4. Ends(c, Close(c, s, q), S, q, s)
  BY CloseEnds
<1>5. Ends(c, CreateSpace(c, s, q), S, q, s)
  BY CreateSpaceEnds
<1>6. Ends(c, DeleteAgentSpace(c, s, q), S, q, s)
  BY DeleteAgentSpaceEnds
<1>7. Ends(c, Reply(c, s), S, q, s)
  BY ReplyEnds
<1>8. \/ d = AskPage(c, s, q) \/ d = ReadConsole(c, s, q) \/ d = Open(c, s, q)
      \/ d = Close(c, s, q) \/ d = CreateSpace(c, s, q) \/ d = DeleteAgentSpace(c, s, q)
      \/ d = Reply(c, s)
  BY DEF Answer
<1> HIDE DEF d
<1>9. Ends(c, d, S, q, s)
  BY <1>1, <1>2, <1>3, <1>4, <1>5, <1>6, <1>7, <1>8
<1> QED BY <1>9 DEF d

\* One more waiter w for Space x: waiter k0 of prompt i0.
Joined(before, after, x, w, i0, k0) ==
  /\ after \in Seq(Prompts) /\ i0 \in DOMAIN after /\ k0 \in DOMAIN after[i0].waiters
  /\ after[i0].space = x /\ after[i0].waiters[k0] = w
  /\ \A i \in DOMAIN before :
       /\ i \in DOMAIN after /\ after[i].space = before[i].space
       /\ \A k \in DOMAIN before[i].waiters :
            k \in DOMAIN after[i].waiters /\ after[i].waiters[k] = before[i].waiters[k]
  /\ \A i \in DOMAIN after :
       /\ i = i0 \/ i \in DOMAIN before
       /\ after[i].waiters # <<>>
       /\ \A k \in DOMAIN after[i].waiters :
            (i = i0 /\ k = k0) \/ (i \in DOMAIN before /\ k \in DOMAIN before[i].waiters)
  /\ \A i \in DOMAIN before : before[i].space = x <=> i = i0
  /\ i0 \in DOMAIN before => k0 \notin DOMAIN before[i0].waiters

\* A request joins the prompt for its Space, or puts one up.
LEMMA AskGrantJoins ==
  ASSUME NEW c, Typed(c), Prompting(c), NEW s \in Sockets, NEW x \in Spaces,
         NEW w, w = [socket |-> s, stops |-> c.conn[c.asked[s].name].stops], w.stops \in Nat
  PROVE  \E i0, k0 : Joined(c.grants, AskGrant(c, s, x).grants, x, w, i0, k0)
<1> DEFINE G == c.grants
           H == AskGrant(c, s, x).grants
           here == Prompted(G, x)
           W == [socket : Sockets, stops : Nat]
<1>1. G \in Seq(Prompts) /\ w \in W /\ Rec(c)
  BY DEF Typed
<1>2. \A i \in DOMAIN G : /\ G[i].space \in Spaces /\ G[i].waiters \in Seq(W) /\ G[i].waiters # <<>>
                          /\ G[i] = [space |-> G[i].space, waiters |-> G[i].waiters]
  <2> TAKE i \in DOMAIN G
  <2>1. G[i] \in Prompts
    BY <1>1
  <2>2. G[i].waiters # <<>>
    BY DEF Prompting
  <2> QED BY <2>1, <2>2 DEF Prompts
<1>3. CASE here # {}
  <2>1. PICK i0 \in DOMAIN G : G[i0].space = x
    BY <1>3 DEF Prompted
  <2>2. \A i \in DOMAIN G : G[i].space = x <=> i = i0
    BY <2>1 DEF Prompting
  <2>3. H = [i \in DOMAIN G |-> IF i \in here THEN [G[i] EXCEPT !.waiters = Append(@, w)] ELSE G[i]]
    BY <1>1, <1>3 DEF AskGrant, Rec, Fields
  <2> DEFINE v == G[i0].waiters
             k0 == Len(v) + 1
  <2>4. /\ v \in Seq(W) /\ Append(v, w) \in Seq(W) /\ DOMAIN Append(v, w) = DOMAIN v \cup {k0}
        /\ Append(v, w)[k0] = w /\ k0 \notin DOMAIN v
        /\ \A k \in DOMAIN v : Append(v, w)[k] = v[k]
    <3>1. v \in Seq(W)
      BY <1>2
    <3> HIDE DEF v, W
    <3>2. Len(Append(v, w)) = Len(v) + 1 /\ Len(v) \in Nat /\ Append(v, w) \in Seq(W)
      BY <1>1, <3>1
    <3>3. DOMAIN v = 1 .. Len(v) /\ DOMAIN Append(v, w) = 1 .. Len(v) + 1
      BY <3>1, <3>2
    <3> QED BY <1>1, <3>1, <3>2, <3>3
  <2>5. \A i \in DOMAIN G : H[i] = IF i = i0 THEN [G[i] EXCEPT !.waiters = Append(v, w)] ELSE G[i]
    <3> TAKE i \in DOMAIN G
    <3>1. i \in here <=> i = i0
      BY <2>2 DEF Prompted
    <3> QED BY <2>3, <3>1
  <2>6. DOMAIN H = DOMAIN G
    BY <2>3
  <2> HIDE DEF v, H, G, k0, W
  <2>7. \A i \in DOMAIN G : /\ H[i] \in Prompts /\ H[i].space = G[i].space
                            /\ H[i].waiters = IF i = i0 THEN Append(v, w) ELSE G[i].waiters
    <3> TAKE i \in DOMAIN G
    <3>1. G[i] \in Prompts /\ Append(v, w) \in Seq([socket : Sockets, stops : Nat])
      BY <1>1, <2>4 DEF W
    <3>2. CASE i = i0
      <4>1. H[i] = [G[i] EXCEPT !.waiters = Append(v, w)]
        BY <2>5, <3>2
      <4> DEFINE y == Append(v, w)
      <4>2. y \in Seq([socket : Sockets, stops : Nat]) /\ H[i] = [G[i] EXCEPT !.waiters = y]
        BY <3>1, <4>1
      <4> HIDE DEF y
      <4>3. H[i] \in Prompts /\ H[i].space = G[i].space /\ H[i].waiters = y
        BY <3>1, <4>2 DEF Prompts
      <4> QED BY <3>2, <4>3 DEF y
    <3>3. CASE i # i0
      BY <2>5, <3>1, <3>3
    <3> QED BY <3>2, <3>3
  <2>8. H \in Seq(Prompts)
    <3>1. DOMAIN G = 1 .. Len(G) /\ Len(G) \in Nat
      BY <1>1
    <3>2. H = [i \in 1 .. Len(G) |-> H[i]]
      BY <2>3, <3>1 DEF G
    <3> QED BY <2>7, <3>1, <3>2
  <2>11. \A i \in DOMAIN G : H[i].waiters # <<>>
    <3>1. Append(v, w) # <<>>
      BY <2>4
    <3> QED BY <1>2, <2>7, <3>1
  <2>12. Joined(G, H, x, w, i0, k0)
    BY <2>1, <2>2, <2>4, <2>6, <2>7, <2>8, <2>11 DEF Joined, v
  <2> QED BY <2>12 DEF G, H
<1>4. CASE here = {}
  <2> DEFINE p == [space |-> x, waiters |-> <<w>>]
             i0 == Len(G) + 1
  <2>1. H = Append(G, p)
    BY <1>1, <1>4 DEF AskGrant, Rec, Fields
  <2>2. p \in Prompts
    BY <1>1 DEF Prompts
  <2>3. \A i \in DOMAIN G : G[i].space # x
    BY <1>4 DEF Prompted
  <2>4. p.space = x /\ p.waiters = <<w>> /\ DOMAIN <<w>> = {1} /\ <<w>>[1] = w
    OBVIOUS
  <2> HIDE DEF p, H, G
  <2>5. /\ H \in Seq(Prompts) /\ DOMAIN H = DOMAIN G \cup {i0} /\ i0 \notin DOMAIN G
        /\ H[i0] = p /\ \A i \in DOMAIN G : H[i] = G[i]
    <3>1. DOMAIN G = 1 .. Len(G) /\ Len(G) \in Nat
      BY <1>1
    <3>2. H \in Seq(Prompts) /\ Len(H) = Len(G) + 1
      BY <1>1, <2>1, <2>2
    <3>3. DOMAIN H = 1 .. Len(G) + 1
      BY <3>1, <3>2
    <3> QED BY <1>1, <2>1, <2>2, <3>1, <3>2, <3>3
  <2> HIDE DEF i0
  <2>6. Joined(G, H, x, w, i0, 1)
    BY <1>2, <2>3, <2>4, <2>5 DEF Joined
  <2> QED BY <2>6 DEF G, H
<1> QED BY <1>3, <1>4

\* A request waits for the reader to be asked about a Space.
LEMMA AskGrantEnds ==
  ASSUME NEW c, NEW S, Sound(c, S), NEW s \in S, s \notin c.stopped, NEW x \in c.spaces,
         c.allowed, ~Usable(c, x), c.asked[s].verb \in PageVerbs \cup {"open"},
         x \notin c.conn[c.asked[s].name].denied, c.asked[s].name \in Names
  PROVE  Ends(c, AskGrant(c, s, x), S, c.asked[s], s)
<1> DEFINE q == c.asked[s]
           n == q.name
           w == [socket |-> s, stops |-> c.conn[n].stops]
           d == AskGrant(c, s, x)
<1>1. s \in Sockets \ DOMAIN c.pages /\ WaitsOn(c, s) = {} /\ c.asked[s] # NoRequest /\ x \in Spaces
  BY DEF Sound, Pending, Typed
<1>2. w.stops = c.conn[n].stops /\ w.stops \in Nat /\ w.socket = s
  BY DEF Sound, Typed, Connections
<1>3. PICK i0, k0 : Joined(c.grants, d.grants, x, w, i0, k0)
  BY <1>1, <1>2, AskGrantJoins DEF Sound
<1>4. Rec(d) /\ Same(c, d, {"grants"})
  <2>1. Rec(c)
    BY DEF Sound, Typed
  <2>2. \E g : d = [c EXCEPT !.grants = g]
    BY DEF AskGrant
  <2> QED BY <2>1, <2>2 DEF Rec, Same, Fields
<1> HIDE DEF d, w
<1>5. /\ d.allowed = c.allowed /\ d.spaces = c.spaces /\ d.agentSpaces = c.agentSpaces
      /\ d.temporary = c.temporary /\ d.granted = c.granted /\ d.tabs = c.tabs
      /\ d.used = c.used /\ d.opened = c.opened /\ d.attached = c.attached
      /\ d.windows = c.windows /\ d.conn = c.conn /\ d.pages = c.pages /\ d.asked = c.asked
      /\ d.made = c.made /\ d.names = c.names /\ d.socket = c.socket /\ d.stopped = c.stopped
      /\ d.carried = c.carried
  BY <1>4 DEF Same, Fields
<1>6. Typed(d)
  BY <1>3, <1>4, <1>5 DEF Sound, Typed, Joined
<1>7. Reaches(d) /\ Spare(d)
  BY <1>5 DEF Sound, Reaches, OpenerOf, Usable, Spare, Unused
<1>8. Prompting(d)
  <2>1. x \in c.spaces \ (c.granted \cup DOMAIN c.agentSpaces)
    BY DEF Usable
  <2>2. ASSUME NEW i \in DOMAIN d.grants
        PROVE  /\ d.grants[i].space \in d.spaces \ (d.granted \cup DOMAIN d.agentSpaces)
               /\ d.grants[i].waiters # <<>>
               /\ \A j \in DOMAIN d.grants : d.grants[j].space = d.grants[i].space => i = j
    <3>1. d.grants[i].waiters # <<>> /\ (i = i0 \/ i \in DOMAIN c.grants)
      BY <1>3 DEF Joined
    <3>2. d.grants[i].space \in c.spaces \ (c.granted \cup DOMAIN c.agentSpaces)
      BY <1>3, <2>1, <3>1 DEF Joined, Sound, Prompting
    <3>3. ASSUME NEW j \in DOMAIN d.grants, d.grants[j].space = d.grants[i].space
          PROVE  i = j
      <4>1. (i = i0 \/ i \in DOMAIN c.grants) /\ (j = i0 \/ j \in DOMAIN c.grants)
        BY <1>3 DEF Joined
      <4>2. CASE i \in DOMAIN c.grants /\ j \in DOMAIN c.grants
        BY <1>3, <3>3, <4>2 DEF Joined, Sound, Prompting
      <4>3. CASE i = i0 /\ j \in DOMAIN c.grants
        BY <1>3, <3>3, <4>3 DEF Joined
      <4>4. CASE j = i0 /\ i \in DOMAIN c.grants
        BY <1>3, <3>3, <4>4 DEF Joined
      <4> QED BY <4>1, <4>2, <4>3, <4>4
    <3> QED BY <1>5, <3>1, <3>2, <3>3
  <2> QED BY <2>2 DEF Prompting
<1>9. \A i \in DOMAIN c.grants : \A k \in DOMAIN c.grants[i].waiters : c.grants[i].waiters[k].socket # s
  BY <1>1 DEF WaitsOn
<1>10. \A r : r # s => WaitsOn(d, r) = WaitsOn(c, r)
  <2> SUFFICES ASSUME NEW r, r # s
               PROVE  WaitsOn(d, r) = WaitsOn(c, r)
    OBVIOUS
  <2>1. ASSUME NEW i \in WaitsOn(c, r)
        PROVE  i \in WaitsOn(d, r)
    BY <1>3 DEF WaitsOn, Joined
  <2>2. ASSUME NEW i \in WaitsOn(d, r)
        PROVE  i \in WaitsOn(c, r)
    <3>1. PICK k \in DOMAIN d.grants[i].waiters : d.grants[i].waiters[k].socket = r
      BY DEF WaitsOn
    <3>2. i \in DOMAIN c.grants /\ k \in DOMAIN c.grants[i].waiters
      <4>1. i \in DOMAIN d.grants
        BY DEF WaitsOn
      <4>2. ~(i = i0 /\ k = k0)
        BY <1>2, <1>3, <3>1 DEF Joined
      <4> QED BY <1>3, <3>1, <4>1, <4>2 DEF Joined
    <3>3. c.grants[i].waiters[k].socket = r
      BY <1>3, <3>1, <3>2 DEF Joined
    <3> QED BY <3>2, <3>3 DEF WaitsOn
  <2> QED BY <2>1, <2>2
<1>11. WaitsOn(d, s) = {i0}
  <2>1. i0 \in WaitsOn(d, s)
    BY <1>2, <1>3 DEF WaitsOn, Joined
  <2>2. ASSUME NEW i \in WaitsOn(d, s)
        PROVE  i = i0
    <3>1. PICK k \in DOMAIN d.grants[i].waiters : d.grants[i].waiters[k].socket = s
      BY DEF WaitsOn
    <3>2. i \in DOMAIN d.grants
      BY DEF WaitsOn
    <3>3. CASE i \in DOMAIN c.grants /\ k \in DOMAIN c.grants[i].waiters
      BY <1>3, <1>9, <3>1, <3>3 DEF Joined
    <3> QED BY <1>3, <3>1, <3>2, <3>3 DEF Joined
  <2> QED BY <2>1, <2>2
<1>12. ASSUME NEW i \in DOMAIN d.grants, NEW k \in DOMAIN d.grants[i].waiters
       PROVE  WaitsWell(d, i, k) /\ Remembers(d, i, k)
  <2>1. CASE i = i0 /\ k = k0
    <3>1. d.grants[i].waiters[k] = w /\ d.grants[i].space = x
      BY <1>3, <2>1 DEF Joined
    <3>2. ASSUME NEW l \in DOMAIN d.grants[i].waiters, d.grants[i].waiters[l].socket = s
          PROVE  k = l
      <4>1. CASE i \in DOMAIN c.grants /\ l \in DOMAIN c.grants[i].waiters
        BY <1>3, <1>9, <3>2, <4>1 DEF Joined
      <4> QED BY <1>3, <2>1, <3>2, <4>1 DEF Joined
    <3>3. WaitsWell(d, i, k)
      BY <1>1, <1>2, <1>5, <1>11, <2>1, <3>1, <3>2 DEF WaitsWell
    <3>4. Remembers(d, i, k)
      BY <1>2, <1>5, <3>1 DEF Remembers
    <3> QED BY <3>3, <3>4
  <2>2. CASE i \in DOMAIN c.grants /\ k \in DOMAIN c.grants[i].waiters
    <3> DEFINE v == c.grants[i].waiters[k]
    <3>1. d.grants[i].waiters[k] = v /\ d.grants[i].space = c.grants[i].space
      BY <1>3, <2>2 DEF Joined
    <3>2. WaitsWell(c, i, k) /\ Remembers(c, i, k) /\ v.socket # s
      BY <1>9, <2>2 DEF Sound, Waiting, Stops
    <3>3. ASSUME NEW l \in DOMAIN d.grants[i].waiters, d.grants[i].waiters[l].socket = v.socket
          PROVE  k = l
      <4>1. l \in DOMAIN c.grants[i].waiters
        BY <1>2, <1>3, <3>2, <3>3 DEF Joined
      <4>2. d.grants[i].waiters[l] = c.grants[i].waiters[l]
        BY <1>3, <2>2, <4>1 DEF Joined
      <4> QED BY <2>2, <3>2, <3>3, <4>1, <4>2 DEF WaitsWell
    <3>4. WaitsOn(d, v.socket) = WaitsOn(c, v.socket)
      BY <1>10, <3>2
    <3>5. WaitsWell(d, i, k)
      BY <1>5, <3>1, <3>2, <3>3, <3>4 DEF WaitsWell
    <3>6. Remembers(d, i, k)
      BY <1>5, <3>1, <3>2 DEF Remembers
    <3> QED BY <3>5, <3>6
  <2> QED BY <1>3, <2>1, <2>2 DEF Joined
<1>13. Waiting(d) /\ Stops(d)
  BY <1>5, <1>12 DEF Waiting, Stops, Sound
<1>14. Pending(d, S \ {s})
  <2>1. ASSUME NEW r \in Sockets, d.asked[r] # NoRequest
        PROVE  r \in (S \ {s}) \cup DOMAIN d.pages \/ WaitsOn(d, r) # {}
    BY <1>5, <1>10, <1>11, <2>1 DEF Sound, Pending
  <2>2. ASSUME NEW r \in S \ {s}
        PROVE  r \in Sockets \ DOMAIN d.pages /\ WaitsOn(d, r) = {}
    BY <1>5, <1>10 DEF Sound, Pending
  <2> QED BY <1>5, <2>1, <2>2 DEF Sound, Pending
<1>15. Sound(d, S \ {s})
  BY <1>6, <1>7, <1>8, <1>13, <1>14 DEF Sound
<1>16. Onward(c, d, S, q, s)
  BY <1>5 DEF Onward
<1> QED BY <1>15, <1>16 DEF Ends, d

\* A request from the start ends, whatever it asks.
LEMMA HandleEnds ==
  ASSUME NEW c, NEW S, Sound(c, S), NEW s \in S, s \notin c.stopped
  PROVE  Ends(c, Handle(c, s), S, c.asked[s], s)
<1> DEFINE q == c.asked[s]
           n == q.name
           known == [c EXCEPT !.names[s] = @ \cup {n}]
           here == ResolveCurrentTab(known, n)
           x == SpaceNeedingGrant(here, q)
           d == Handle(c, s)
<1>1. s \in Sockets /\ q \in Requests /\ q # NoRequest
  BY DEF Sound, Pending, Typed
<1> HIDE DEF q
<1>2. n \in Names
  BY <1>1 DEF Requests
<1>3. /\ Rec(known) /\ Same(c, known, {"names", "made", "opened", "socket"})
      /\ known.names = [c.names EXCEPT ![s] = @ \cup {n}]
      /\ known.made = c.made /\ known.opened = c.opened /\ known.socket = c.socket
  <2>1. Rec(c)
    BY DEF Sound, Typed
  <2> HIDE DEF d, here, x
  <2> QED BY <2>1 DEF Rec, Same, Fields
<1> HIDE DEF known
<1>4. known.names \in [Sockets -> SUBSET Names]
  BY <1>1, <1>2, <1>3 DEF Sound, Typed
<1>5. Sound(known, S)
  <2>1. /\ known.opened \subseteq c.used \cap Tabs /\ known.made \in [Sockets -> SUBSET Spaces]
        /\ known.socket \in [Sockets -> {"open", "closing", "closed"}]
    BY <1>3 DEF Sound, Typed
  <2> QED BY <1>3, <1>4, <2>1, AsideSound
<1>6. /\ known.allowed = c.allowed /\ known.spaces = c.spaces /\ known.agentSpaces = c.agentSpaces
      /\ known.temporary = c.temporary /\ known.attached = c.attached /\ known.conn = c.conn
      /\ known.grants = c.grants /\ known.pages = c.pages /\ known.asked = c.asked
      /\ known.stopped = c.stopped
  BY <1>3 DEF Same, Fields
<1>7. Onward(c, known, S, q, s)
  BY <1>3, <1>6 DEF Onward
<1>8. LetsGo(known, here)
  BY <1>2, <1>5, ResolveLetsGo
<1>9. Sound(here, S) /\ Onward(known, here, S, q, s)
  BY <1>5, <1>8, LetsGoSound, LetsGoOnward
<1>10. Onward(c, here, S, q, s)
  BY <1>1, <1>7, <1>9, OnwardTwice
<1>11. here.asked = c.asked /\ here.stopped = c.stopped
  BY <1>6, <1>8, LetsGoFields
<1> HIDE DEF here, x
<1>12. CASE q.verb \in Gated /\ ~c.allowed
  <2>1. d = Reply(c, s)
    BY <1>12 DEF Handle, q
  <2> QED BY <2>1, ReplyEnds DEF q
<1>13. CASE ~(q.verb \in Gated /\ ~c.allowed) /\ c.conn[n].revoked
  <2> DEFINE e == [known EXCEPT !.conn[n].revoked = FALSE]
             o == [known.conn[n] EXCEPT !.revoked = FALSE]
  <2>1. d = Reply(e, s)
    BY <1>13 DEF Handle, q, known
  <2>2. known.conn[n] \in Connections /\ Rec(known) /\ known.conn \in [Names -> Connections]
    BY <1>2, <1>5 DEF Sound, Typed
  <2>3. o \in Connections /\ o.denied = known.conn[n].denied /\ o.stops = known.conn[n].stops
    BY <2>2, ConnectionKeeps
  <2>4. Rec(e) /\ Same(known, e, {"conn"}) /\ e.conn = [known.conn EXCEPT ![n] = o]
    BY <2>2 DEF Rec, Same, Fields
  <2> HIDE DEF e, o, d
  <2>5. LetsGo(known, e)
    BY <1>2, <1>5, <2>3, <2>4, OneLetsGo
  <2>6. Sound(e, S) /\ Onward(known, e, S, q, s)
    BY <1>5, <2>5, LetsGoSound, LetsGoOnward
  <2>7. Onward(c, e, S, q, s)
    BY <1>1, <1>7, <2>6, OnwardTwice
  <2>8. Ends(c, d, S, q, s)
    BY <2>1, <2>6, <2>7, ReplyAfter
  <2> QED BY <2>8 DEF d, q
<1>14. ASSUME NEW e, d = e, Ends(here, e, S, q, s)
       PROVE  Ends(c, d, S, q, s)
  BY <1>1, <1>10, <1>14, OnwardTwice DEF Ends
<1>15. CASE ~(q.verb \in Gated /\ ~c.allowed) /\ ~c.conn[n].revoked /\ x = None
  <2>1. d = Answer(here, s, q)
    BY <1>15 DEF Handle, q, known, here, x
  <2>2. Ends(here, Answer(here, s, q), S, q, s)
    BY <1>2, <1>9, AnswerEnds
  <2> QED BY <1>14, <2>1, <2>2 DEF q
<1>16. CASE ~(q.verb \in Gated /\ ~c.allowed) /\ ~c.conn[n].revoked /\ x # None
            /\ x \in here.conn[n].denied
  <2>1. d = Reply(here, s)
    BY <1>16 DEF Handle, q, known, here, x
  <2>2. Ends(here, Reply(here, s), S, q, s)
    BY <1>9, ReplyEnds
  <2> QED BY <1>14, <2>1, <2>2 DEF q
<1>17. CASE ~(q.verb \in Gated /\ ~c.allowed) /\ ~c.conn[n].revoked /\ x # None
            /\ x \notin here.conn[n].denied
  <2>1. d = AskGrant(here, s, x)
    BY <1>17 DEF Handle, q, known, here, x
  <2>2. PICK t \in DOMAIN here.tabs :
          x = here.tabs[t] /\ here.allowed /\ ~Usable(here, x) /\ q.verb \in PageVerbs \cup {"open"}
    <3>1. None \notin Tabs /\ DOMAIN here.tabs \subseteq Tabs
      BY <1>9, AgentAssumption DEF Sound, Typed
    <3> QED BY <1>17, <3>1 DEF SpaceNeedingGrant, x
  <2>3. x \in here.spaces /\ here.asked[s] = q
    BY <1>9, <1>11, <2>2 DEF Sound, Typed, q
  <2>4. Ends(here, AskGrant(here, s, x), S, q, s)
    BY <1>2, <1>9, <1>11, <1>17, <2>2, <2>3, AskGrantEnds
  <2> QED BY <1>14, <2>1, <2>4 DEF q
<1>18. Ends(c, d, S, c.asked[s], s)
  BY <1>12, <1>13, <1>15, <1>16, <1>17 DEF q
<1> QED BY <1>18

-----------------------------------------------------------------------------
(* The reader's answers                                                    *)

\* From c to d the requests of the sockets R, among those of S, are handled, and
\* nothing is started for one that the reader stopped.
Through(c, d, S, R) ==
  /\ \A m \in Names : d.conn[m].stops = c.conn[m].stops
  /\ d.stopped \subseteq c.stopped
  /\ \A r \in S \ R : d.asked[r] = c.asked[r] /\ (r \in c.stopped => r \in d.stopped)
  /\ \A r \in DOMAIN d.pages : r \in DOMAIN c.pages \/ r \in R \ c.stopped
  /\ \A t \in DOMAIN d.attached :
       \/ t \in DOMAIN c.attached /\ d.attached[t] = c.attached[t]
       \/ \E r \in R \ c.stopped : d.attached[t] = c.asked[r].name
  /\ d.allowed = c.allowed /\ (~c.allowed /\ c.grants = <<>> => d.grants = <<>>)
  /\ d.socket = c.socket /\ \A r \in Sockets : c.made[r] \subseteq d.made[r]
  /\ \A x \in d.temporary :
       x \in c.temporary
       \/ \E r \in R : c.asked[r].verb = "space new --temporary" /\ x \in d.made[r]
  /\ c.spaces \ DOMAIN c.agentSpaces \subseteq d.spaces \ DOMAIN d.agentSpaces

\* Nothing is handled.
LEMMA ThroughNone ==
  ASSUME NEW c, NEW S
  PROVE  Through(c, c, S, {})
BY DEF Through

\* One that is handled.
LEMMA ThroughOne ==
  ASSUME NEW c, NEW d, NEW S, NEW s \in S, Onward(c, d, S, c.asked[s], s), s \notin c.stopped
  PROVE  Through(c, d, S, {s})
BY DEF Through, Onward

\* Some, and one more.
LEMMA ThroughMore ==
  ASSUME NEW c, NEW d, NEW e, NEW S \in SUBSET Sockets, NEW R \in SUBSET S, NEW s \in S \ R,
         Through(c, d, S, R), Through(d, e, S \ R, {s})
  PROVE  Through(c, e, S, R \cup {s})
<1>1. d.asked[s] = c.asked[s]
  BY DEF Through
<1>2. \A r \in DOMAIN e.pages : r \in DOMAIN c.pages \/ r \in (R \cup {s}) \ c.stopped
  <2>1. \A r \in DOMAIN e.pages : r \in DOMAIN d.pages \/ r \in {s} \ d.stopped
    BY DEF Through
  <2>2. \A r \in DOMAIN d.pages : r \in DOMAIN c.pages \/ r \in R \ c.stopped
    BY DEF Through
  <2>3. s \in c.stopped => s \in d.stopped
    BY DEF Through
  <2> QED BY <2>1, <2>2, <2>3
<1>3. ASSUME NEW t \in DOMAIN e.attached
      PROVE  \/ t \in DOMAIN c.attached /\ e.attached[t] = c.attached[t]
             \/ \E r \in (R \cup {s}) \ c.stopped : e.attached[t] = c.asked[r].name
  <2>1. \/ t \in DOMAIN d.attached /\ e.attached[t] = d.attached[t]
        \/ s \notin d.stopped /\ e.attached[t] = d.asked[s].name
    BY DEF Through
  <2>2. t \in DOMAIN d.attached =>
          \/ t \in DOMAIN c.attached /\ d.attached[t] = c.attached[t]
          \/ \E r \in R \ c.stopped : d.attached[t] = c.asked[r].name
    BY DEF Through
  <2>3. s \in c.stopped => s \in d.stopped
    BY DEF Through
  <2> QED BY <1>1, <2>1, <2>2, <2>3
<1>4. ASSUME NEW x \in e.temporary
      PROVE  \/ x \in c.temporary
             \/ \E r \in R \cup {s} : c.asked[r].verb = "space new --temporary" /\ x \in e.made[r]
  <2>1. x \in d.temporary \/ (d.asked[s].verb = "space new --temporary" /\ x \in e.made[s])
    BY DEF Through
  <2>2. x \in d.temporary =>
          x \in c.temporary
          \/ \E r \in R : c.asked[r].verb = "space new --temporary" /\ x \in d.made[r]
    BY DEF Through
  <2>3. \A r \in R : d.made[r] \subseteq e.made[r]
    BY DEF Through
  <2> QED BY <1>1, <2>1, <2>2, <2>3
<1>5. \A r \in S \ (R \cup {s}) : e.asked[r] = c.asked[r] /\ (r \in c.stopped => r \in e.stopped)
  BY DEF Through
<1>6. /\ \A m \in Names : e.conn[m].stops = c.conn[m].stops
      /\ e.stopped \subseteq c.stopped
      /\ e.allowed = c.allowed /\ (~c.allowed /\ c.grants = <<>> => e.grants = <<>>)
      /\ e.socket = c.socket /\ \A r \in Sockets : c.made[r] \subseteq e.made[r]
      /\ c.spaces \ DOMAIN c.agentSpaces \subseteq e.spaces \ DOMAIN e.agentSpaces
  BY DEF Through
<1> QED BY <1>2, <1>3, <1>4, <1>5, <1>6 DEF Through

\* A request that waited runs again, or is told that it was stopped.
LEMMA ResumeThrough ==
  ASSUME NEW c, NEW S, Sound(c, S), NEW w, w.socket \in S,
         w.socket \in c.stopped => w.stops # c.conn[c.asked[w.socket].name].stops
  PROVE  Sound(Resume(c, w), S \ {w.socket}) /\ Through(c, Resume(c, w), S, {w.socket})
<1> DEFINE s == w.socket
           d == Resume(c, w)
<1>1. CASE c.conn[c.asked[s].name].stops # w.stops
  <2>1. d = Reply(c, s)
    BY <1>1 DEF Resume
  <2>2. Sound(d, S \ {s})
    BY <2>1, ReplySound
  <2>3. Rec(d) /\ Same(c, d, {"asked", "stopped"}) /\ d.asked = [c.asked EXCEPT ![s] = NoRequest]
        /\ d.stopped = c.stopped \ {s}
    <3>1. Rec(c)
      BY DEF Sound, Typed
    <3> HIDE DEF d, s
    <3> QED BY <2>1, <3>1, ReplyFields
  <2> HIDE DEF d
  <2>4. /\ d.allowed = c.allowed /\ d.spaces = c.spaces /\ d.agentSpaces = c.agentSpaces
        /\ d.temporary = c.temporary /\ d.attached = c.attached /\ d.conn = c.conn
        /\ d.grants = c.grants /\ d.pages = c.pages /\ d.made = c.made /\ d.socket = c.socket
    BY <2>3 DEF Same, Fields
  <2>5. \A r \in S \ {s} : d.asked[r] = c.asked[r] /\ (r \in c.stopped => r \in d.stopped)
    BY <2>3 DEF Sound, Typed, Pending
  <2>6. Through(c, d, S, {s})
    BY <2>3, <2>4, <2>5 DEF Through
  <2> QED BY <2>2, <2>6 DEF d
<1>2. CASE ~(c.conn[c.asked[s].name].stops # w.stops)
  <2>1. d = Handle(c, s) /\ s \notin c.stopped
    BY <1>2 DEF Resume
  <2>2. Ends(c, Handle(c, s), S, c.asked[s], s)
    BY <2>1, HandleEnds
  <2> HIDE DEF d, s
  <2>3. Sound(d, S \ {s}) /\ Through(c, d, S, {s})
    BY <2>1, <2>2, ThroughOne DEF Ends, s
  <2> QED BY <2>3 DEF d, s
<1> QED BY <1>1, <1>2

\* The prompt comes down and the Space is granted; everyone who waited on it is
\* about to be handled.
LEMMA AllowBegins ==
  ASSUME NEW c, Sound(c, {}), NEW p \in DOMAIN c.grants, NEW x, x = c.grants[p].space,
         NEW d, Rec(d), Same(c, d, {"granted", "grants"}), d.granted = c.granted \cup {x},
         d.grants = Unprompted(c.grants, x)
  PROVE  Sound(d, Asking(c, x))
<1> DEFINE P == Asking(c, x)
<1>1. /\ d.allowed = c.allowed /\ d.spaces = c.spaces /\ d.agentSpaces = c.agentSpaces
      /\ d.temporary = c.temporary /\ d.tabs = c.tabs
      /\ d.used = c.used /\ d.opened = c.opened /\ d.attached = c.attached
      /\ d.windows = c.windows /\ d.conn = c.conn /\ d.pages = c.pages /\ d.asked = c.asked
      /\ d.made = c.made /\ d.names = c.names /\ d.socket = c.socket /\ d.stopped = c.stopped
      /\ d.carried = c.carried
  BY DEF Same, Fields
<1>2. x \in c.spaces \ (c.granted \cup DOMAIN c.agentSpaces) /\ d.granted = c.granted \cup {x}
  BY DEF Sound, Prompting
<1>3. c.grants \in Seq(Prompts) /\ OneEach(c.grants)
  BY DEF Sound, Typed, Prompting, OneEach
<1>13. d.grants = Unprompted(c.grants, x)
  OBVIOUS
<1>14. ASSUME NEW i \in DOMAIN c.grants, NEW k \in DOMAIN c.grants[i].waiters
       PROVE  c.asked[c.grants[i].waiters[k].socket] # NoRequest
  <2>1. c.asked[c.grants[i].waiters[k].socket].verb # "none"
    BY DEF Sound, Waiting, WaitsWell, PageVerbs
  <2> QED BY <2>1 DEF NoRequest
<1>4. /\ d.grants \in Seq(Prompts) /\ OneEach(d.grants)
      /\ \A j \in DOMAIN d.grants :
           \E i \in DOMAIN c.grants : d.grants[j] = c.grants[i] /\ c.grants[i].space # x
      /\ \A i \in DOMAIN c.grants :
           c.grants[i].space # x => \E j \in DOMAIN d.grants : d.grants[j] = c.grants[i]
  BY <1>3, <1>13, UnpromptedKeeps
<1>5. Typed(d)
  BY <1>1, <1>2, <1>4 DEF Sound, Typed
<1>6. Reaches(d)
  BY <1>1, <1>2 DEF Sound, Reaches, OpenerOf, Usable
<1>7. Prompting(d)
  BY <1>1, <1>2, <1>4 DEF Sound, Prompting, OneEach
<1>8. ASSUME NEW j \in DOMAIN d.grants, NEW k \in DOMAIN d.grants[j].waiters
      PROVE  WaitsWell(d, j, k) /\ Remembers(d, j, k) /\ d.grants[j].waiters[k].socket \notin P
  <2> DEFINE s == d.grants[j].waiters[k].socket
  <2>1. PICK i \in DOMAIN c.grants : d.grants[j] = c.grants[i] /\ c.grants[i].space # x
    BY <1>4
  <2>2. k \in DOMAIN c.grants[i].waiters /\ c.grants[i].waiters[k] = d.grants[j].waiters[k]
    BY <2>1
  <2>3. WaitsWell(c, i, k) /\ Remembers(c, i, k)
    BY <2>2 DEF Waiting, Stops, Sound
  <2>4. s \notin P
    BY <2>1, <2>2, <2>3 DEF Asking, WaitsWell, Prompted
  <2>5. \A h \in WaitsOn(d, s) : j = h
    <3> SUFFICES ASSUME NEW h \in WaitsOn(d, s)
                 PROVE  j = h
      OBVIOUS
    <3>1. h \in DOMAIN d.grants /\ \E l \in DOMAIN d.grants[h].waiters : d.grants[h].waiters[l].socket = s
      BY DEF WaitsOn
    <3>2. PICK i2 \in DOMAIN c.grants : d.grants[h] = c.grants[i2]
      BY <1>4, <3>1
    <3>3. i2 \in WaitsOn(c, s)
      BY <3>1, <3>2 DEF WaitsOn
    <3>4. i = i2
      BY <2>2, <2>3, <3>3 DEF WaitsWell
    <3> QED BY <1>4, <2>1, <3>1, <3>2, <3>4 DEF OneEach
  <2>6. WaitsWell(d, j, k)
    BY <1>1, <2>1, <2>2, <2>3, <2>5 DEF WaitsWell
  <2>7. Remembers(d, j, k)
    BY <1>1, <2>2, <2>3 DEF Remembers
  <2> QED BY <2>4, <2>6, <2>7
<1>9. Waiting(d) /\ Stops(d)
  BY <1>1, <1>8 DEF Waiting, Stops, Sound
<1>10. Pending(d, P)
  <2>1. ASSUME NEW s \in Sockets, d.asked[s] # NoRequest, s \notin P, s \notin DOMAIN d.pages
        PROVE  WaitsOn(d, s) # {}
    <3>1. WaitsOn(c, s) # {}
      BY <1>1, <2>1 DEF Sound, Pending
    <3>2. PICK i \in WaitsOn(c, s) : TRUE
      BY <3>1
    <3>3. i \in DOMAIN c.grants /\ c.grants[i].space # x
      BY <2>1, <3>2 DEF Asking, Prompted, WaitsOn
    <3>4. PICK j \in DOMAIN d.grants : d.grants[j] = c.grants[i]
      BY <1>4, <3>3
    <3>5. j \in WaitsOn(d, s)
      BY <3>2, <3>4 DEF WaitsOn
    <3> QED BY <3>5
  <2>2. ASSUME NEW s \in P
        PROVE  s \in Sockets \ DOMAIN d.pages /\ WaitsOn(d, s) = {} /\ d.asked[s] # NoRequest
    <3>1. PICK i \in WaitsOn(c, s) : i \in Prompted(c.grants, x)
      BY DEF Asking
    <3>2. PICK k \in DOMAIN c.grants[i].waiters : c.grants[i].waiters[k].socket = s
      BY DEF WaitsOn
    <3>3. i \in DOMAIN c.grants /\ s \in Sockets
      BY DEF WaitsOn, Asking
    <3>4. WaitsWell(c, i, k) /\ c.asked[s] # NoRequest
      BY <1>14, <3>2, <3>3 DEF Sound, Waiting
    <3>5. s \notin DOMAIN c.pages
      BY <3>2, <3>4 DEF WaitsWell
    <3>6. \A j \in WaitsOn(d, s) : FALSE
      BY <1>8, <2>2 DEF WaitsOn
    <3> QED BY <1>1, <3>3, <3>4, <3>5, <3>6
  <2>3. ASSUME NEW s \in DOMAIN d.pages
        PROVE  d.asked[s] # NoRequest
    BY <1>1 DEF Sound, Pending
  <2> QED BY <2>1, <2>2, <2>3 DEF Pending
<1>11. Spare(d)
  BY <1>1 DEF Sound, Spare, Unused
<1>12. Sound(d, P)
  BY <1>5, <1>6, <1>7, <1>9, <1>10, <1>11 DEF Sound
<1> QED BY <1>12

\* f is the states in which the first n of those who wait on prompt g ran again.
Running(f, c, g, n) ==
  f = [i \in 0 .. n |-> IF i = 0 THEN [c EXCEPT !.grants = Unprompted(@, g.space)]
                        ELSE Resume(f[i - 1], g.waiters[i])]

\* Those who run again one after another are what the definition of Allow says
\* they are.
LEMMA RunningExists ==
  ASSUME NEW c, NEW g, NEW m \in Nat
  PROVE  \E f : Running(f, c, g, m)
<1> DEFINE begin == [c EXCEPT !.grants = Unprompted(@, g.space)]
           S == {n \in Nat : \E f : Running(f, c, g, n)}
<1>0. \A f, n : Running(f, c, g, n) <=>
        f = [i \in 0 .. n |-> IF i = 0 THEN begin ELSE Resume(f[i - 1], g.waiters[i])]
  BY DEF Running
<1> HIDE DEF begin
<1>1. 0 \in S
  <2> DEFINE f == [i \in 0 .. 0 |-> begin]
  <2>1. f = [i \in 0 .. 0 |-> IF i = 0 THEN begin ELSE Resume(f[i - 1], g.waiters[i])]
    OBVIOUS
  <2> HIDE DEF f
  <2>2. Running(f, c, g, 0)
    BY <1>0, <2>1
  <2> QED BY <2>2
<1>2. ASSUME NEW n \in Nat, n \in S
      PROVE  n + 1 \in S
  <2>1. PICK f : Running(f, c, g, n)
    BY <1>2
  <2>2. f = [i \in 0 .. n |-> IF i = 0 THEN begin ELSE Resume(f[i - 1], g.waiters[i])]
    BY <1>0, <2>1
  <2> DEFINE h == [i \in 0 .. n + 1 |-> IF i <= n THEN f[i] ELSE Resume(f[n], g.waiters[n + 1])]
  <2>3. \A i \in 0 .. n + 1 : h[i] = IF i = 0 THEN begin ELSE Resume(h[i - 1], g.waiters[i])
    <3> TAKE i \in 0 .. n + 1
    <3>1. CASE i = 0
      BY <2>2, <3>1
    <3>2. CASE i \in 1 .. n
      BY <2>2, <3>2
    <3>3. CASE i = n + 1
      BY <2>2, <3>3
    <3> QED BY <3>1, <3>2, <3>3
  <2>4. h = [i \in 0 .. n + 1 |-> IF i = 0 THEN begin ELSE Resume(h[i - 1], g.waiters[i])]
    <3> DEFINE k == [i \in 0 .. n + 1 |-> IF i = 0 THEN begin ELSE Resume(h[i - 1], g.waiters[i])]
    <3>1. \A i \in 0 .. n + 1 : h[i] = k[i]
      BY <2>3
    <3>2. h = k
      BY <3>1
    <3> QED BY <3>2
  <2> HIDE DEF h
  <2>5. Running(h, c, g, n + 1)
    BY <1>0, <2>4
  <2> QED BY <2>5
<1>3. Nat \subseteq S
  <2> HIDE DEF S
  <2> QED BY <1>1, <1>2, Induction
<1> QED BY <1>3

\* What starts from d, which is c as far as it matters, starts from c.
LEMMA ThroughFrom ==
  ASSUME NEW c, NEW d, NEW e, NEW S, Through(d, e, S, S),
         d.allowed = c.allowed, d.spaces = c.spaces, d.agentSpaces = c.agentSpaces,
         d.temporary = c.temporary, d.attached = c.attached, d.conn = c.conn,
         d.pages = c.pages, d.asked = c.asked, d.made = c.made, d.socket = c.socket,
         d.stopped = c.stopped, c.grants # <<>>
  PROVE  Through(c, e, S, S)
<1>1. /\ \A t \in DOMAIN e.attached :
           \/ t \in DOMAIN d.attached /\ e.attached[t] = d.attached[t]
           \/ \E r \in S \ d.stopped : e.attached[t] = d.asked[r].name
      /\ \A y \in e.temporary :
           y \in d.temporary
           \/ \E r \in S : d.asked[r].verb = "space new --temporary" /\ y \in e.made[r]
  BY DEF Through
<1>2. /\ \A n \in Names : e.conn[n].stops = d.conn[n].stops
      /\ e.stopped \subseteq d.stopped
      /\ \A r \in DOMAIN e.pages : r \in DOMAIN d.pages \/ r \in S \ d.stopped
  BY DEF Through
<1>3. /\ e.allowed = d.allowed /\ e.socket = d.socket
      /\ \A r \in Sockets : d.made[r] \subseteq e.made[r]
      /\ d.spaces \ DOMAIN d.agentSpaces \subseteq e.spaces \ DOMAIN e.agentSpaces
  BY DEF Through
<1>4. /\ \A t \in DOMAIN e.attached :
           \/ t \in DOMAIN c.attached /\ e.attached[t] = c.attached[t]
           \/ \E r \in S \ c.stopped : e.attached[t] = c.asked[r].name
      /\ \A y \in e.temporary :
           y \in c.temporary
           \/ \E r \in S : c.asked[r].verb = "space new --temporary" /\ y \in e.made[r]
  BY <1>1
<1>5. /\ \A n \in Names : e.conn[n].stops = c.conn[n].stops
      /\ e.stopped \subseteq c.stopped
      /\ \A r \in DOMAIN e.pages : r \in DOMAIN c.pages \/ r \in S \ c.stopped
  BY <1>2
<1>6. /\ e.allowed = c.allowed /\ e.socket = c.socket
      /\ \A r \in Sockets : c.made[r] \subseteq e.made[r]
      /\ c.spaces \ DOMAIN c.agentSpaces \subseteq e.spaces \ DOMAIN e.agentSpaces
  BY <1>3
<1>7. \A r \in S \ S : e.asked[r] = c.asked[r] /\ (r \in c.stopped => r \in e.stopped)
  OBVIOUS
<1>8. ~c.allowed /\ c.grants = <<>> => e.grants = <<>>
  OBVIOUS
<1> QED BY <1>4, <1>5, <1>6, <1>7, <1>8 DEF Through

\* What the reader allows ends with everyone who waited for it handled.
LEMMA AllowSound ==
  ASSUME NEW c, Sound(c, {}), NEW p \in DOMAIN c.grants, NEW g, g = c.grants[p], NEW b, Rec(b),
         Same(c, b, {"granted"}), b.granted = c.granted \cup {g.space}
  PROVE  /\ Sound(Allow(b, g), {})
         /\ Through(c, Allow(b, g), Asking(c, g.space), Asking(c, g.space))
<1> DEFINE m == Len(g.waiters)
           x == g.space
           W == [socket : Sockets, stops : Nat]
           d0 == [b EXCEPT !.grants = Unprompted(@, x)]
           run == CHOOSE f : f = [i \in 0 .. m |-> IF i = 0 THEN [b EXCEPT !.grants = Unprompted(@, g.space)]
                                                  ELSE Resume(f[i - 1], g.waiters[i])]
<1>1. Allow(b, g) = run[m]
  BY DEF Allow
<1>2. g \in Prompts /\ g.waiters \in Seq(W) /\ x \in Spaces
  <2>1. c.grants \in Seq(Prompts)
    BY DEF Sound, Typed
  <2>2. g \in Prompts
    BY <2>1
  <2> QED BY <2>2 DEF Prompts
<1>3. m \in Nat /\ DOMAIN g.waiters = 1 .. m
  BY <1>2
<1>4. run = [i \in 0 .. m |-> IF i = 0 THEN d0 ELSE Resume(run[i - 1], g.waiters[i])]
  <2> HIDE DEF m
  <2>1. PICK f : Running(f, b, g, m)
    BY <1>3, RunningExists
  <2>2. f = [i \in 0 .. m |-> IF i = 0 THEN [b EXCEPT !.grants = Unprompted(@, g.space)]
                              ELSE Resume(f[i - 1], g.waiters[i])]
    BY <2>1 DEF Running
  <2> QED BY <2>2
<1> HIDE DEF run, m, W
<1>5. /\ Rec(d0) /\ Same(c, d0, {"granted", "grants"}) /\ d0.granted = c.granted \cup {x}
      /\ d0.grants = Unprompted(c.grants, x)
  <2>1. b.grants = c.grants
    BY DEF Same, Fields
  <2> QED BY <2>1 DEF Rec, Same, Fields
<1> HIDE DEF d0
<1>6. /\ d0.allowed = c.allowed /\ d0.spaces = c.spaces /\ d0.agentSpaces = c.agentSpaces
      /\ d0.temporary = c.temporary /\ d0.attached = c.attached /\ d0.conn = c.conn
      /\ d0.pages = c.pages /\ d0.asked = c.asked /\ d0.made = c.made /\ d0.socket = c.socket
      /\ d0.stopped = c.stopped
  BY <1>5 DEF Same, Fields
<1> DEFINE P == Asking(c, x)
           R(n) == {g.waiters[i].socket : i \in 1 .. n}
<1>7. Sound(d0, P)
  BY <1>5, AllowBegins
<1>8. P = R(m) /\ P \subseteq Sockets
  <2>1. Prompted(c.grants, x) = {p}
    BY DEF Sound, Prompting, Prompted
  <2>2. P = {s \in Sockets : \E k \in DOMAIN g.waiters : g.waiters[k].socket = s}
    BY <2>1 DEF Asking, WaitsOn
  <2>3. \A k \in 1 .. m : g.waiters[k].socket \in Sockets
    <3> TAKE k \in 1 .. m
    <3>1. g.waiters[k] \in W
      BY <1>2, <1>3
    <3> QED BY <3>1 DEF W
  <2> QED BY <1>3, <2>2, <2>3
<1>9. \A i, j \in 1 .. m : g.waiters[i].socket = g.waiters[j].socket => i = j
  <2> TAKE i, j \in 1 .. m
  <2>1. WaitsWell(c, p, i)
    BY <1>3 DEF Sound, Waiting
  <2> QED BY <1>3, <2>1 DEF WaitsWell
<1>10. \A i \in 1 .. m : LET w == g.waiters[i]
                         IN w.socket \in c.stopped => w.stops # c.conn[c.asked[w.socket].name].stops
  <2> TAKE i \in 1 .. m
  <2>1. Remembers(c, p, i)
    BY <1>3 DEF Sound, Stops
  <2>2. c.conn[c.asked[g.waiters[i].socket].name].stops \in Nat /\ g.waiters[i].stops \in Nat
    <3>1. LET w == c.grants[p].waiters[i]
          IN w.stops \in Nat /\ c.conn[c.asked[w.socket].name] \in Connections
      BY <1>3, Waiters DEF Sound
    <3> QED BY <3>1 DEF Connections
  <2>3. g.waiters[i].socket \in c.stopped =>
          g.waiters[i].stops < c.conn[c.asked[g.waiters[i].socket].name].stops
    BY <2>1 DEF Remembers
  <2> DEFINE u == g.waiters[i].stops
             v == c.conn[c.asked[g.waiters[i].socket].name].stops
  <2>4. (g.waiters[i].socket \in c.stopped => u < v) /\ u \in Nat /\ v \in Nat
    BY <2>2, <2>3
  <2> HIDE DEF u, v
  <2>5. g.waiters[i].socket \in c.stopped => u # v
    BY <2>4
  <2> QED BY <2>5 DEF u, v
<1>11. ASSUME NEW i \in 1 .. m
       PROVE  c.asked[g.waiters[i].socket].name \in Names
  <2>1. LET w == c.grants[p].waiters[i] IN c.asked[w.socket].name \in Names
    BY <1>3, Waiters DEF Sound
  <2> QED BY <2>1
<1> DEFINE Q == {n \in Nat : n <= m => Sound(run[n], P \ R(n)) /\ Through(d0, run[n], P, R(n))}
<1>12. 0 \in Q
  <2>1. run[0] = d0 /\ R(0) = {}
    BY <1>3, <1>4
  <2> HIDE DEF P
  <2> QED BY <1>7, <2>1, ThroughNone
<1>13. ASSUME NEW n \in Nat, n \in Q
       PROVE  n + 1 \in Q
  <2> SUFFICES ASSUME n + 1 <= m
               PROVE  Sound(run[n + 1], P \ R(n + 1)) /\ Through(d0, run[n + 1], P, R(n + 1))
    OBVIOUS
  <2> DEFINE d == run[n]
             e == run[n + 1]
             w == g.waiters[n + 1]
             s == w.socket
  <2>1. e = Resume(d, w) /\ n + 1 \in 1 .. m /\ n \in 0 .. m
    BY <1>3, <1>4
  <2>2. Sound(d, P \ R(n)) /\ Through(d0, d, P, R(n))
    BY <1>3, <1>13, <2>1
  <2>3. R(n + 1) = R(n) \cup {s} /\ s \notin R(n) /\ R(n) \subseteq P /\ s \in P
    BY <1>3, <1>8, <1>9, <2>1
  <2>4. s \in c.stopped => w.stops # c.conn[c.asked[s].name].stops
    BY <1>10, <2>1
  <2>5. c.asked[s].name \in Names
    BY <1>11, <2>1
  <2> HIDE DEF d, e, w, R, P
  <2>6. s \in P \ R(n)
    BY <2>3
  <2>7. d.asked[s] = d0.asked[s] /\ d.stopped \subseteq d0.stopped
        /\ \A x2 \in Names : d.conn[x2].stops = d0.conn[x2].stops
    BY <2>2, <2>6 DEF Through
  <2>8. w.socket \in d.stopped => w.stops # d.conn[d.asked[w.socket].name].stops
    BY <1>6, <2>4, <2>5, <2>7
  <2>9. Sound(e, (P \ R(n)) \ {w.socket}) /\ Through(d, e, P \ R(n), {w.socket})
    BY <2>1, <2>2, <2>6, <2>8, ResumeThrough
  <2> HIDE DEF s
  <2>10. Through(d0, e, P, R(n) \cup {s})
    BY <1>8, <2>2, <2>3, <2>6, <2>9, ThroughMore DEF s
  <2>11. (P \ R(n)) \ {w.socket} = P \ R(n + 1)
    BY <2>3 DEF s
  <2> QED BY <2>3, <2>9, <2>10, <2>11 DEF e
<1>14. m \in Q
  <2> HIDE DEF Q
  <2> QED BY <1>3, <1>12, <1>13, Induction
<1>15. Sound(run[m], {}) /\ Through(d0, run[m], P, P)
  <2>1. P \ R(m) = {}
    BY <1>8
  <2>2. Sound(run[m], P \ R(m)) /\ Through(d0, run[m], P, R(m))
    BY <1>3, <1>14
  <2> HIDE DEF P, R
  <2> QED BY <1>8, <2>1, <2>2
<1>16. c.grants # <<>> /\ Unprompted(<<>>, x) = <<>>
  BY NoPrompts DEF Sound, Typed
<1> HIDE DEF P
<1>17. Through(c, run[m], P, P)
  <2> HIDE DEF run, m, Q, R
  <2> QED BY <1>6, <1>15, <1>16, ThroughFrom
<1> QED BY <1>1, <1>15, <1>17 DEF P

-----------------------------------------------------------------------------
(* The switch                                                              *)

\* The prompt on show is withdrawn.
Withdraw(c) == Refuse(c, Head(c.grants).space, "withdrawn")

\* f is the states in which the first n prompts are withdrawn from c.
Withdrawing(f, c, n) == f = [i \in 0 .. n |-> IF i = 0 THEN c ELSE Withdraw(f[i - 1])]

\* Prompts withdrawn one after another are what the definition of TurnOff says
\* they are.
LEMMA WithdrawingExists ==
  ASSUME NEW c, NEW m \in Nat
  PROVE  \E f : Withdrawing(f, c, m)
<1> DEFINE S == {n \in Nat : \E f : Withdrawing(f, c, n)}
<1>0. \A f, n : Withdrawing(f, c, n) <=> f = [i \in 0 .. n |-> IF i = 0 THEN c ELSE Withdraw(f[i - 1])]
  BY DEF Withdrawing
<1>1. 0 \in S
  <2> DEFINE f == [i \in 0 .. 0 |-> c]
  <2>1. f = [i \in 0 .. 0 |-> IF i = 0 THEN c ELSE Withdraw(f[i - 1])]
    OBVIOUS
  <2> HIDE DEF f
  <2>2. Withdrawing(f, c, 0)
    BY <1>0, <2>1
  <2> QED BY <2>2
<1>2. ASSUME NEW n \in Nat, n \in S
      PROVE  n + 1 \in S
  <2>1. PICK f : Withdrawing(f, c, n)
    BY <1>2
  <2>2. f = [i \in 0 .. n |-> IF i = 0 THEN c ELSE Withdraw(f[i - 1])]
    BY <1>0, <2>1
  <2> DEFINE h == [i \in 0 .. n + 1 |-> IF i <= n THEN f[i] ELSE Withdraw(f[n])]
  <2>3. \A i \in 0 .. n + 1 : h[i] = IF i = 0 THEN c ELSE Withdraw(h[i - 1])
    <3> TAKE i \in 0 .. n + 1
    <3>1. CASE i = 0
      BY <2>2, <3>1
    <3>2. CASE i \in 1 .. n
      BY <2>2, <3>2
    <3>3. CASE i = n + 1
      BY <2>2, <3>3
    <3> QED BY <3>1, <3>2, <3>3
  <2>4. h = [i \in 0 .. n + 1 |-> IF i = 0 THEN c ELSE Withdraw(h[i - 1])]
    <3> DEFINE k == [i \in 0 .. n + 1 |-> IF i = 0 THEN c ELSE Withdraw(h[i - 1])]
    <3>1. \A i \in 0 .. n + 1 : h[i] = k[i]
      BY <2>3
    <3>2. h = k
      BY <3>1
    <3> QED BY <3>2
  <2> HIDE DEF h
  <2>5. Withdrawing(h, c, n + 1)
    BY <1>0, <2>4
  <2> QED BY <2>5
<1>3. Nat \subseteq S
  <2> HIDE DEF S
  <2> QED BY <1>1, <1>2, Induction
<1> QED BY <1>3

\* What a prompt that is withdrawn keeps.
Holding(c) == Typed(c) /\ Prompting(c) /\ Waiting(c) /\ Pending(c, {}) /\ Stops(c)

\* The first prompt is withdrawn, and one less is left.
LEMMA WithdrawOne ==
  ASSUME NEW c, Holding(c), c.grants # <<>>, NEW d,
         d = Refuse(c, Head(c.grants).space, "withdrawn")
  PROVE  /\ Holding(d) /\ Same(c, d, {"grants", "asked", "stopped"})
         /\ Len(d.grants) = Len(c.grants) - 1 /\ d.stopped \subseteq c.stopped
<1> DEFINE x == Head(c.grants).space
<1>1. c.grants \in Seq(Prompts) /\ OneEach(c.grants)
  BY DEF Holding, Typed, Prompting, OneEach
<1>2. 1 \in DOMAIN c.grants /\ Head(c.grants) = c.grants[1] /\ c.grants[1] \in Prompts
  BY <1>1
<1>3. x \in Spaces /\ Prompted(c.grants, x) # {}
  BY <1>2 DEF Prompts, Prompted
<1> HIDE DEF x
<1>4. Holding(d)
  <2>1. LET e == Refuse(c, x, "withdrawn")
        IN Typed(e) /\ Prompting(e) /\ Waiting(e) /\ Pending(e, {}) /\ Stops(e)
    BY <1>3, RefuseKeeps DEF Holding
  <2> QED BY <2>1 DEF Holding, x
<1>5. /\ Same(c, d, {"grants", "conn", "asked", "stopped"}) /\ d.grants = Unprompted(c.grants, x)
      /\ d.conn = c.conn /\ d.stopped = c.stopped \ Asking(c, x)
  <2>1. LET e == Refuse(c, x, "withdrawn")
        IN /\ Same(c, e, {"grants", "conn", "asked", "stopped"})
           /\ e.grants = Unprompted(c.grants, x)
           /\ e.conn = c.conn /\ e.stopped = c.stopped \ Asking(c, x)
    BY <1>3, RefuseFields DEF Holding
  <2>2. d = Refuse(c, x, "withdrawn")
    BY DEF x
  <2> QED BY <2>1, <2>2
<1>6. Len(d.grants) = Len(c.grants) - 1
  BY <1>1, <1>3, <1>5, UnpromptedKeeps
<1>7. Same(c, d, {"grants", "asked", "stopped"})
  BY <1>5 DEF Same, Fields
<1> QED BY <1>4, <1>5, <1>6, <1>7

\* When Agents are turned off nothing of theirs is left but their Spaces.
LEMMA TurnOffSound ==
  ASSUME NEW c, Sound(c, {})
  PROVE  LET d == TurnOff(c)
         IN /\ Sound(d, {}) /\ d.grants = <<>> /\ DOMAIN d.pages = {} /\ DOMAIN d.attached = {}
            /\ Same(c, d, {"allowed", "grants", "conn", "windows", "attached", "pages", "asked",
                           "stopped"})
<1> DEFINE m == Len(c.grants)
           off == [c EXCEPT !.allowed = FALSE]
           told == CHOOSE f : f = [i \in 0 .. m |->
                     IF i = 0 THEN off ELSE Refuse(f[i - 1], Head(f[i - 1].grants).space, "withdrawn")]
           P == DOMAIN c.pages
           e == LeaveTabs(told[m], Names)
           f0 == [e EXCEPT !.windows = <<>>, !.attached = <<>>, !.pages = <<>>]
           d == TurnOff(c)
<1>1. d = ReplyAll(f0, P)
  BY DEF TurnOff
<1>2. m \in Nat /\ Rec(c)
  BY DEF Sound, Typed
<1>3. /\ Rec(off) /\ Same(c, off, {"allowed"}) /\ off.allowed = FALSE
  <2> HIDE DEF d, f0, e, told
  <2> QED BY <1>2 DEF Rec, Same, Fields
<1> HIDE DEF off, m, d, f0
<1>4. told = [i \in 0 .. m |->
                IF i = 0 THEN off ELSE Refuse(told[i - 1], Head(told[i - 1].grants).space, "withdrawn")]
  <2>1. PICK f : Withdrawing(f, off, m)
    BY <1>2, WithdrawingExists
  <2>2. f = [i \in 0 .. m |->
               IF i = 0 THEN off ELSE Refuse(f[i - 1], Head(f[i - 1].grants).space, "withdrawn")]
    BY <2>1 DEF Withdrawing, Withdraw
  <2> QED BY <2>2
<1> HIDE DEF told, e
<1>5. /\ off.spaces = c.spaces /\ off.agentSpaces = c.agentSpaces
      /\ off.temporary = c.temporary /\ off.granted = c.granted /\ off.tabs = c.tabs
      /\ off.used = c.used /\ off.opened = c.opened /\ off.attached = c.attached
      /\ off.windows = c.windows /\ off.conn = c.conn /\ off.grants = c.grants
      /\ off.pages = c.pages /\ off.asked = c.asked
      /\ off.made = c.made /\ off.names = c.names /\ off.socket = c.socket
      /\ off.stopped = c.stopped /\ off.carried = c.carried
  BY <1>3 DEF Same, Fields
<1>6. Holding(off)
  <2>1. Typed(off)
    BY <1>3, <1>5 DEF Sound, Typed
  <2>2. Prompting(off) /\ Stops(off)
    BY <1>5 DEF Sound, Prompting, Stops, Remembers
  <2>3. Waiting(off)
    BY <1>5, WaitingOf DEF Sound
  <2>4. (\A r : WaitsOn(off, r) = WaitsOn(c, r)) /\ Pending(c, {})
    BY <1>5 DEF WaitsOn, Sound
  <2>5. Pending(off, {})
    BY <1>5, <2>4 DEF Pending
  <2> QED BY <2>1, <2>2, <2>3, <2>5 DEF Holding
<1> DEFINE Q == {n \in Nat : n <= m => /\ Holding(told[n]) /\ Len(told[n].grants) = m - n
                                       /\ Same(off, told[n], {"grants", "asked", "stopped"})}
<1>7. 0 \in Q
  <2>1. told[0] = off
    BY <1>2, <1>4
  <2>2. Len(off.grants) = m - 0 /\ Same(off, off, {"grants", "asked", "stopped"})
    BY <1>2, <1>5 DEF m, Same
  <2> QED BY <1>6, <2>1, <2>2
<1>8. ASSUME NEW n \in Nat, n \in Q
      PROVE  n + 1 \in Q
  <2> SUFFICES ASSUME n + 1 <= m
               PROVE  /\ Holding(told[n + 1]) /\ Len(told[n + 1].grants) = m - (n + 1)
                      /\ Same(off, told[n + 1], {"grants", "asked", "stopped"})
    OBVIOUS
  <2>1. Holding(told[n]) /\ Len(told[n].grants) = m - n
        /\ Same(off, told[n], {"grants", "asked", "stopped"})
    BY <1>2, <1>8
  <2>2. told[n + 1] = Refuse(told[n], Head(told[n].grants).space, "withdrawn")
    BY <1>2, <1>4
  <2>3. told[n].grants # <<>>
    BY <1>2, <2>1
  <2>4. /\ Holding(told[n + 1]) /\ Same(told[n], told[n + 1], {"grants", "asked", "stopped"})
        /\ Len(told[n + 1].grants) = Len(told[n].grants) - 1
    BY <2>1, <2>2, <2>3, WithdrawOne
  <2>5. Same(off, told[n + 1], {"grants", "asked", "stopped"})
    BY <2>1, <2>4 DEF Same
  <2> QED BY <1>2, <2>1, <2>4, <2>5
<1>9. m \in Q
  <2> HIDE DEF Q
  <2> QED BY <1>2, <1>7, <1>8, Induction
<1> DEFINE g == told[m]
<1>10. /\ Holding(g) /\ Len(g.grants) = 0
       /\ Same(off, g, {"grants", "asked", "stopped"})
  <2>1. Holding(g) /\ Len(g.grants) = m - m /\ Same(off, g, {"grants", "asked", "stopped"})
    BY <1>2, <1>9
  <2> QED BY <1>2, <2>1
<1> HIDE DEF g, Q
<1>11. g.grants = <<>>
  BY <1>10 DEF Holding, Typed
<1>12. Rec(e) /\ Same(g, e, {"conn"}) /\ e.conn = OutOf(g.conn, Names)
  BY <1>10, LeaveTabsFields DEF Holding, Typed, e, g
<1>13. /\ e.conn \in [Names -> Connections]
       /\ \A n \in Names : e.conn[n].denied = g.conn[n].denied /\ e.conn[n].stops = g.conn[n].stops
  BY <1>10, <1>12, OutOfKeeps DEF Holding, Typed
<1>14. /\ Rec(f0) /\ Same(e, f0, {"windows", "attached", "pages"})
       /\ f0.windows = <<>> /\ f0.attached = <<>> /\ f0.pages = <<>>
  BY <1>12 DEF f0, Rec, Same, Fields
<1>15. /\ Rec(d) /\ Same(f0, d, {"asked", "stopped"})
       /\ d.asked = [s \in Sockets |-> IF s \in P THEN NoRequest ELSE f0.asked[s]]
       /\ d.stopped = f0.stopped \ P
  BY <1>1, <1>14, ReplyAllFields
<1>16. f0.asked = g.asked /\ f0.stopped = g.stopped /\ f0.grants = <<>> /\ f0.conn = e.conn
  BY <1>11, <1>12, <1>14 DEF Same, Fields
<1>17. g.pages = c.pages
  BY <1>5, <1>10 DEF Same, Fields
<1>18. \A s \in Sockets : g.asked[s] # NoRequest => s \in P
  <2>1. \A s : WaitsOn(g, s) = {}
    BY <1>11 DEF WaitsOn
  <2> QED BY <1>10, <1>17, <2>1 DEF Holding, Pending
<1>19. /\ d.asked \in [Sockets -> Requests] /\ \A s \in Sockets : d.asked[s] = NoRequest
       /\ d.stopped = {}
  <2>1. \A s \in Sockets : d.asked[s] = NoRequest
    BY <1>15, <1>16, <1>18
  <2>2. d.asked = [s \in Sockets |-> NoRequest]
    BY <1>15, <1>16, <1>18
  <2>3. d.stopped = {}
    BY <1>10, <1>15, <1>16, <1>18 DEF Holding, Stops, Typed
  <2> QED BY <2>1, <2>2, <2>3 DEF Requests
<1>20. /\ d.allowed = FALSE /\ d.spaces = c.spaces /\ d.agentSpaces = c.agentSpaces
       /\ d.temporary = c.temporary /\ d.granted = c.granted /\ d.tabs = c.tabs
       /\ d.used = c.used /\ d.opened = c.opened /\ d.made = c.made /\ d.names = c.names
       /\ d.socket = c.socket /\ d.carried = c.carried
       /\ d.grants = <<>> /\ d.conn = e.conn /\ d.windows = <<>> /\ d.attached = <<>>
       /\ d.pages = <<>>
  BY <1>3, <1>5, <1>10, <1>12, <1>14, <1>15, <1>16 DEF Same, Fields
<1>21. Typed(d)
  <2>1. /\ <<>> \in [DOMAIN <<>> -> Names] /\ <<>> \in [DOMAIN <<>> -> Tabs] /\ <<>> \in Seq(Prompts)
        /\ <<>> \in [DOMAIN <<>> -> c.used \cap (Tabs \cup Windows)] /\ DOMAIN <<>> = {}
    OBVIOUS
  <2> QED BY <1>13, <1>15, <1>19, <1>20, <2>1 DEF Sound, Typed
<1>22. DOMAIN d.pages = {} /\ DOMAIN d.attached = {} /\ DOMAIN d.windows = {} /\ DOMAIN d.grants = {}
  BY <1>20
<1>23. Reaches(d) /\ Prompting(d) /\ Waiting(d)
  BY <1>22 DEF Reaches, Prompting, Waiting
<1>24. Pending(d, {}) /\ Stops(d)
  BY <1>19, <1>22 DEF Pending, Stops
<1>25. Spare(d)
  BY <1>20 DEF Sound, Spare, Unused
<1>26. Same(c, d, {"allowed", "grants", "conn", "windows", "attached", "pages", "asked", "stopped"})
  BY <1>20 DEF Same, Fields
<1>27. Sound(d, {})
  BY <1>21, <1>23, <1>24, <1>25 DEF Sound
<1> QED BY <1>20, <1>22, <1>26, <1>27 DEF d
=============================================================================
