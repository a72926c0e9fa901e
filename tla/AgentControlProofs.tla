------------------------- MODULE AgentControlProofs -------------------------
(***************************************************************************)
(* What holds of every run of Agent control, for any names, sockets,       *)
(* Spaces, tabs and bounds: each step keeps the invariant, which the first *)
(* state has, and from which the properties follow.                        *)
(***************************************************************************)
EXTENDS AgentControlLemmas

-----------------------------------------------------------------------------
(* What the reader, the pages and the timers do                            *)

\* The whole invariant: besides, there is no prompt while Agents are turned off,
\* and temporary Spaces have a connection.
Whole(c) == Sound(c, {}) /\ (c.allowed \/ c.grants = <<>>) /\ Lasting(c)

\* From c to d the invariant is kept, no page request and no Agent tab is new,
\* and the reader's own Spaces stay.
Calm(c, d) ==
  /\ Whole(d)
  /\ DOMAIN d.pages \subseteq DOMAIN c.pages
  /\ \A t \in DOMAIN d.attached : t \in DOMAIN c.attached /\ d.attached[t] = c.attached[t]
  /\ c.spaces \ DOMAIN c.agentSpaces \subseteq d.spaces

\* What keeps the parts that are not in Sound.
LEMMA WholeFrom ==
  ASSUME NEW c, Whole(c), NEW d, Sound(d, {}), d.allowed = c.allowed,
         c.grants = <<>> => d.grants = <<>>, d.temporary \subseteq c.temporary,
         \A s \in Sockets : /\ c.made[s] \subseteq d.made[s]
                            /\ c.socket[s] # "closed" => d.socket[s] # "closed"
  PROVE  Whole(d)
<1>1. Lasting(d)
  BY DEF Whole, Lasting
<1> QED BY <1>1 DEF Whole

\* Letting go is calm.
LEMMA LetsGoCalm ==
  ASSUME NEW c, Whole(c), NEW d, LetsGo(c, d)
  PROVE  Calm(c, d)
<1>1. Sound(d, {})
  BY LetsGoSound DEF Whole
<1>2. /\ d.allowed = c.allowed /\ d.spaces = c.spaces /\ d.temporary = c.temporary
      /\ d.grants = c.grants /\ d.pages = c.pages /\ d.made = c.made /\ d.socket = c.socket
  BY LetsGoFields
<1>3. Whole(d)
  BY <1>1, <1>2, WholeFrom
<1> QED BY <1>2, <1>3 DEF Calm, LetsGo

\* Calm twice is calm.
LEMMA CalmTwice ==
  ASSUME NEW c, NEW d, NEW e, Calm(c, d), Calm(d, e),
         d.spaces = c.spaces, d.agentSpaces = c.agentSpaces
  PROVE  Calm(c, e)
<1>1. \A t \in DOMAIN e.attached : t \in DOMAIN c.attached /\ e.attached[t] = c.attached[t]
  BY DEF Calm
<1> QED BY <1>1 DEF Calm

\* Requests for pages are dropped, and everyone told.
Dropped(c, d, P) ==
  /\ Rec(d) /\ Same(c, d, {"asked", "stopped", "pages"})
  /\ d.asked \in [Sockets -> Requests]
  /\ \A s \in Sockets : d.asked[s] = IF s \in P THEN NoRequest ELSE c.asked[s]
  /\ d.stopped = c.stopped \ P
  /\ d.pages = Without(c.pages, P)

\* That is calm.
LEMMA DroppedCalm ==
  ASSUME NEW c, Whole(c), NEW P \in SUBSET DOMAIN c.pages, NEW d, Dropped(c, d, P)
  PROVE  Calm(c, d)
<1>1. Sound(d, {})
  BY PagesSound DEF Whole, Dropped
<1>2. /\ d.allowed = c.allowed /\ d.spaces = c.spaces /\ d.temporary = c.temporary
      /\ d.grants = c.grants /\ d.made = c.made /\ d.socket = c.socket
      /\ d.attached = c.attached
  BY DEF Dropped, Same, Fields
<1>3. Whole(d)
  BY <1>1, <1>2, WholeFrom
<1>4. DOMAIN d.pages \subseteq DOMAIN c.pages
  BY DEF Dropped, Without, Restrict
<1> QED BY <1>2, <1>3, <1>4 DEF Calm

\* The page of socket s answers, or goes away, or its time is up.
LEMMA AnswerPageCalm ==
  ASSUME NEW c, Whole(c), NEW s \in DOMAIN c.pages
  PROVE  LET d == Reply([c EXCEPT !.pages = Without(@, {s})], s)
         IN Rec(d) /\ Calm(c, d)
<1> DEFINE e == [c EXCEPT !.pages = Without(@, {s})]
           d == Reply(e, s)
<1>1. Rec(c) /\ s \in Sockets /\ c.asked \in [Sockets -> Requests] /\ NoRequest \in Requests
  BY DEF Whole, Sound, Typed, Requests
<1>2. Rec(e) /\ Same(c, e, {"pages"}) /\ e.pages = Without(c.pages, {s})
  BY <1>1 DEF Rec, Same, Fields
<1> HIDE DEF e
<1>3. Rec(d) /\ Same(e, d, {"asked", "stopped"}) /\ d.asked = [e.asked EXCEPT ![s] = NoRequest]
      /\ d.stopped = e.stopped \ {s}
  BY <1>2, ReplyFields
<1> HIDE DEF d
<1>4. /\ Same(c, d, {"asked", "stopped", "pages"}) /\ d.asked = [c.asked EXCEPT ![s] = NoRequest]
      /\ d.stopped = c.stopped \ {s} /\ d.pages = Without(c.pages, {s})
  BY <1>2, <1>3 DEF Same, Fields
<1>5. Dropped(c, d, {s})
  BY <1>1, <1>3, <1>4 DEF Dropped
<1>6. Calm(c, d)
  BY <1>5, DroppedCalm
<1> QED BY <1>3, <1>6 DEF d, e

\* The requests out for tabs T are refused; none is left.
LEMMA CancelCalm ==
  ASSUME NEW c, Whole(c), NEW T, NEW d, d = Cancel(c, T)
  PROVE  /\ Calm(c, d) /\ Rec(d) /\ Same(c, d, {"asked", "stopped", "pages"})
         /\ \A s \in DOMAIN d.pages : OpenerOf(d, d.pages[s]) \notin T
<1> DEFINE P == {s \in DOMAIN c.pages : OpenerOf(c, c.pages[s]) \in T}
           e == [c EXCEPT !.pages = Without(@, P)]
<1>1. d = ReplyAll(e, P)
  BY DEF Cancel
<1>2. Rec(c) /\ c.asked \in [Sockets -> Requests] /\ NoRequest \in Requests
  BY DEF Whole, Sound, Typed, Requests
<1> HIDE DEF P
<1>3. Rec(e) /\ Same(c, e, {"pages"}) /\ e.pages = Without(c.pages, P)
  BY <1>2 DEF Rec, Same, Fields
<1> HIDE DEF e
<1>4. /\ Rec(d) /\ Same(e, d, {"asked", "stopped"})
      /\ d.asked = [s \in Sockets |-> IF s \in P THEN NoRequest ELSE e.asked[s]]
      /\ d.stopped = e.stopped \ P
  BY <1>1, <1>3, ReplyAllFields
<1>5. /\ Same(c, d, {"asked", "stopped", "pages"})
      /\ d.asked = [s \in Sockets |-> IF s \in P THEN NoRequest ELSE c.asked[s]]
      /\ d.stopped = c.stopped \ P /\ d.pages = Without(c.pages, P) /\ d.windows = c.windows
  BY <1>3, <1>4 DEF Same, Fields
<1>6. d.pages = [s \in DOMAIN c.pages \ P |-> c.pages[s]]
  BY <1>5 DEF Without, Restrict
<1>7. Dropped(c, d, P)
  BY <1>2, <1>4, <1>5 DEF Dropped
<1>8. P \in SUBSET DOMAIN c.pages
  BY DEF P
<1>9. Calm(c, d)
  BY <1>7, <1>8, DroppedCalm
<1>10. \A u : OpenerOf(d, u) = OpenerOf(c, u)
  BY <1>5 DEF OpenerOf
<1>11. \A s \in DOMAIN d.pages : OpenerOf(d, d.pages[s]) \notin T
  BY <1>6, <1>10 DEF P
<1> QED BY <1>4, <1>5, <1>9, <1>11

\* A connection is stopped: it is nowhere, what it asked is stopped, and those
\* who wait under its name remember an earlier stop.
LEMMA CountCalm ==
  ASSUME NEW c, Whole(c), NEW n \in Names, NEW d, Rec(d), Same(c, d, {"conn", "stopped"}),
         NEW o \in Connections, o.denied = c.conn[n].denied, o.stops = c.conn[n].stops + 1,
         d.conn = [c.conn EXCEPT ![n] = o],
         d.stopped = c.stopped \cup {s \in Sockets : c.asked[s].name = n}
  PROVE  Calm(c, d)
<1>1. /\ d.allowed = c.allowed /\ d.spaces = c.spaces /\ d.agentSpaces = c.agentSpaces
      /\ d.temporary = c.temporary /\ d.granted = c.granted /\ d.tabs = c.tabs
      /\ d.used = c.used /\ d.opened = c.opened /\ d.attached = c.attached
      /\ d.windows = c.windows /\ d.grants = c.grants /\ d.pages = c.pages /\ d.asked = c.asked
      /\ d.made = c.made /\ d.names = c.names /\ d.socket = c.socket /\ d.carried = c.carried
  BY DEF Same, Fields
<1>2. /\ c.conn \in [Names -> Connections] /\ c.stopped \subseteq Sockets
      /\ \A m \in Names : c.conn[m] \in Connections /\ c.conn[m].stops \in Nat
  BY ConnectionKeeps DEF Whole, Sound, Typed
<1>3. /\ d.conn \in [Names -> Connections]
      /\ \A m \in Names : /\ d.conn[m].denied = c.conn[m].denied
                          /\ d.conn[m].stops = IF m = n THEN c.conn[m].stops + 1 ELSE c.conn[m].stops
  BY <1>2
<1>4. Typed(d)
  <2>1. d.stopped \subseteq Sockets
    BY <1>2
  <2>2. Typed(c)
    BY DEF Whole, Sound
  <2> QED BY <1>1, <1>3, <2>1, <2>2 DEF Typed
<1>5. Reaches(d) /\ Prompting(d)
  BY <1>1 DEF Whole, Sound, Reaches, Prompting, Usable, OpenerOf
<1>6. \A r : WaitsOn(d, r) = WaitsOn(c, r)
  BY <1>1 DEF WaitsOn
<1>7. ASSUME NEW i \in DOMAIN c.grants, NEW k \in DOMAIN c.grants[i].waiters
      PROVE  WaitsWell(d, i, k) /\ Remembers(d, i, k)
  <2> DEFINE r == c.grants[i].waiters[k].socket
             m == c.asked[r].name
             u == c.grants[i].waiters[k].stops
             v == c.conn[m].stops
  <2>1. m \in Names /\ r \in Sockets /\ u \in Nat
    BY Waiters DEF Whole, Sound
  <2>2. WaitsWell(c, i, k) /\ Remembers(c, i, k)
    BY DEF Whole, Sound, Waiting, Stops
  <2>3. d.conn[m].denied = c.conn[m].denied
    BY <1>3, <2>1
  <2>4. WaitsWell(d, i, k)
    BY <1>1, <1>6, <2>2, <2>3 DEF WaitsWell
  <2>5. u <= v /\ (r \in c.stopped => u < v)
    BY <2>2 DEF Remembers
  <2>6. d.conn[m].stops = (IF m = n THEN v + 1 ELSE v) /\ v \in Nat
    BY <1>2, <1>3, <2>1
  <2>7. r \in d.stopped => r \in c.stopped \/ m = n
    OBVIOUS
  <2> HIDE DEF u, v, m, r
  <2>8. u <= d.conn[m].stops /\ (r \in d.stopped => u < d.conn[m].stops)
    BY <2>1, <2>5, <2>6, <2>7
  <2>9. Remembers(d, i, k)
    BY <1>1, <2>8 DEF Remembers, u, m, r
  <2> QED BY <2>4, <2>9
<1>8. Waiting(d)
  BY <1>1, <1>7 DEF Waiting
<1>9. ASSUME NEW s \in d.stopped
      PROVE  c.asked[s] # NoRequest
  <2>1. CASE s \in c.stopped
    BY <2>1 DEF Whole, Sound, Stops
  <2>2. CASE c.asked[s].name = n
    BY <2>2, AgentAssumption DEF NoRequest
  <2> QED BY <2>1, <2>2
<1>10. Stops(d)
  BY <1>1, <1>7, <1>9 DEF Stops
<1>11. Pending(d, {}) /\ Spare(d)
  BY <1>1, <1>6 DEF Whole, Sound, Pending, Spare, Unused
<1>12. Sound(d, {})
  BY <1>4, <1>5, <1>8, <1>10, <1>11 DEF Sound
<1>13. Whole(d)
  BY <1>1, <1>12, WholeFrom
<1> QED BY <1>1, <1>13 DEF Calm

\* The reader stops an Agent.
LEMMA StopCalm ==
  ASSUME NEW c, Whole(c), NEW n \in Names, NEW d, d = Stop(c, n)
  PROVE  Rec(d) /\ Calm(c, d)
<1> DEFINE T == {t \in DOMAIN c.attached : c.attached[t] = n}
           K == {s \in Sockets : c.asked[s].name = n}
           o1 == [c.conn[n] EXCEPT !.tab = None]
           o == [o1 EXCEPT !.stops = @ + 1]
           count == [c EXCEPT !.conn[n].tab = None, !.conn[n].stops = @ + 1, !.stopped = @ \cup K]
           e == Cancel(count, T)
           f == Detach(e, T)
           k == [s \in Sockets |-> IF f.socket[s] = "open" /\ n \in c.names[s] THEN "closing"
                                   ELSE f.socket[s]]
<1>1. d = [f EXCEPT !.socket = k]
  BY DEF Stop
<1>2. Rec(c) /\ c.conn[n] \in Connections /\ c.conn \in [Names -> Connections]
  BY DEF Whole, Sound, Typed
<1>3. o1 \in Connections /\ o1.denied = c.conn[n].denied /\ o1.stops = c.conn[n].stops
  BY <1>2, ConnectionKeeps
<1>4. o \in Connections /\ o.denied = c.conn[n].denied /\ o.stops = c.conn[n].stops + 1
  <2> HIDE DEF o1
  <2> QED BY <1>3 DEF Connections
<1> HIDE DEF T, K, k, f, e
<1>5. /\ Rec(count) /\ Same(c, count, {"conn", "stopped"}) /\ count.conn = [c.conn EXCEPT ![n] = o]
      /\ count.stopped = c.stopped \cup K
  <2>1. Rec(count) /\ Same(c, count, {"conn", "stopped"})
    BY <1>2 DEF Rec, Same, Fields
  <2>2. count.conn = [c.conn EXCEPT ![n] = o]
    <3>1. count.conn = [c.conn EXCEPT ![n].tab = None, ![n].stops = c.conn[n].stops + 1]
      BY <1>2 DEF Rec, Fields
    <3>2. o = [c.conn[n] EXCEPT !.tab = None, !.stops = c.conn[n].stops + 1]
      BY <1>3
    <3> QED BY <1>2, <3>1, <3>2
  <2>3. count.stopped = c.stopped \cup K
    BY <1>2 DEF Rec, Fields
  <2> QED BY <2>1, <2>2, <2>3
<1> HIDE DEF count, o, o1
<1>6. Calm(c, count)
  BY <1>4, <1>5, CountCalm DEF K
<1>7. count.spaces = c.spaces /\ count.agentSpaces = c.agentSpaces
  BY <1>5 DEF Same, Fields
<1>8. Calm(count, e) /\ Rec(e) /\ Same(count, e, {"asked", "stopped", "pages"})
  BY <1>6, CancelCalm DEF Calm, e
<1>9. e.spaces = c.spaces /\ e.agentSpaces = c.agentSpaces
  BY <1>7, <1>8 DEF Same, Fields
<1>10. Calm(c, e)
  BY <1>6, <1>7, <1>8, CalmTwice
<1>11. LetsGo(e, f)
  BY <1>10, DetachLetsGo DEF Calm, Whole, f
<1>12. f.spaces = c.spaces /\ f.agentSpaces = c.agentSpaces
  BY <1>9, <1>11, LetsGoFields
<1>13. Calm(e, f)
  BY <1>10, <1>11, LetsGoCalm DEF Calm
<1>14. Calm(c, f)
  BY <1>9, <1>10, <1>13, CalmTwice
<1>15. Sound(f, {}) /\ Typed(f) /\ Rec(f) /\ f.socket \in [Sockets -> {"open", "closing", "closed"}]
  BY <1>14 DEF Calm, Whole, Sound, Typed
<1>16. /\ k \in [Sockets -> {"open", "closing", "closed"}]
       /\ \A s \in Sockets : f.socket[s] # "closed" => k[s] # "closed"
  BY <1>15 DEF k
<1>17. Rec(d) /\ Same(f, d, {"socket"}) /\ d.socket = k
  BY <1>1, <1>15 DEF Rec, Same, Fields
<1>18. /\ d.names = f.names /\ d.made = f.made /\ d.opened = f.opened
       /\ d.allowed = f.allowed /\ d.grants = f.grants /\ d.temporary = f.temporary
       /\ d.pages = f.pages /\ d.attached = f.attached /\ d.spaces = f.spaces
       /\ Same(f, d, {"names", "made", "opened", "socket"})
  BY <1>17 DEF Same, Fields
<1>19. /\ d.opened \subseteq f.used \cap Tabs
       /\ d.made \in [Sockets -> SUBSET Spaces] /\ d.names \in [Sockets -> SUBSET Names]
  BY <1>15, <1>18 DEF Typed
<1>20. Sound(d, {})
  BY <1>15, <1>16, <1>17, <1>18, <1>19, AsideSound
<1>21. Whole(f)
  BY <1>14 DEF Calm
<1>22. Whole(d)
  BY <1>16, <1>17, <1>18, <1>20, <1>21, WholeFrom
<1>23. Calm(c, d)
  BY <1>14, <1>18, <1>22 DEF Calm
<1> QED BY <1>17, <1>23

\* The sockets whose page requests are out for tabs T, or for their windows.
Reached(c, T) == {s \in DOMAIN c.pages : OpenerOf(c, c.pages[s]) \in T}

\* What refusing requests for pages changes.
LEMMA CancelFields ==
  ASSUME NEW c, Rec(c), NEW T, NEW d, d = Cancel(c, T)
  PROVE  /\ Rec(d) /\ Same(c, d, {"asked", "stopped", "pages"})
         /\ d.asked = [s \in Sockets |-> IF s \in Reached(c, T) THEN NoRequest ELSE c.asked[s]]
         /\ d.stopped = c.stopped \ Reached(c, T) /\ d.pages = Without(c.pages, Reached(c, T))
<1> DEFINE P == Reached(c, T)
           e == [c EXCEPT !.pages = Without(@, P)]
<1>1. d = ReplyAll(e, P)
  BY DEF Cancel, Reached
<1> HIDE DEF P
<1>2. Rec(e) /\ Same(c, e, {"pages"}) /\ e.pages = Without(c.pages, P)
  BY DEF Rec, Same, Fields
<1> HIDE DEF e
<1>3. /\ Rec(d) /\ Same(e, d, {"asked", "stopped"})
      /\ d.asked = [s \in Sockets |-> IF s \in P THEN NoRequest ELSE e.asked[s]]
      /\ d.stopped = e.stopped \ P
  BY <1>1, <1>2, ReplyAllFields
<1>4. /\ Same(c, d, {"asked", "stopped", "pages"})
      /\ e.asked = c.asked /\ e.stopped = c.stopped /\ d.pages = e.pages
  BY <1>2, <1>3 DEF Same, Fields
<1>5. d.asked = [s \in Sockets |-> IF s \in P THEN NoRequest ELSE c.asked[s]]
  BY <1>3, <1>4
<1> QED BY <1>2, <1>3, <1>4, <1>5 DEF P

\* Two states alike in what a refusal reads and writes are alike after it.
LEMMA CancelAlike ==
  ASSUME NEW c, Rec(c), NEW e, Rec(e), c.pages = e.pages, c.windows = e.windows,
         c.asked = e.asked, c.stopped = e.stopped, NEW T
  PROVE  /\ Cancel(c, T).pages = Cancel(e, T).pages /\ Cancel(c, T).asked = Cancel(e, T).asked
         /\ Cancel(c, T).stopped = Cancel(e, T).stopped
<1>1. Reached(c, T) = Reached(e, T)
  BY DEF Reached, OpenerOf
<1>2. /\ Cancel(c, T).asked = [s \in Sockets |-> IF s \in Reached(c, T) THEN NoRequest ELSE c.asked[s]]
      /\ Cancel(c, T).stopped = c.stopped \ Reached(c, T)
      /\ Cancel(c, T).pages = Without(c.pages, Reached(c, T))
  BY CancelFields
<1>3. /\ Cancel(e, T).asked = [s \in Sockets |-> IF s \in Reached(e, T) THEN NoRequest ELSE e.asked[s]]
      /\ Cancel(e, T).stopped = e.stopped \ Reached(e, T)
      /\ Cancel(e, T).pages = Without(e.pages, Reached(e, T))
  BY CancelFields
<1> QED BY <1>1, <1>2, <1>3

\* So are two states in which tabs are detached.
LEMMA DetachAlike ==
  ASSUME NEW c, Rec(c), NEW e, Rec(e), c.conn = e.conn, c.windows = e.windows,
         c.attached = e.attached, NEW T
  PROVE  /\ Detach(c, T).conn = Detach(e, T).conn /\ Detach(c, T).windows = Detach(e, T).windows
         /\ Detach(c, T).attached = Detach(e, T).attached
<1> DEFINE W == {w \in DOMAIN c.windows : c.windows[w] \in T}
<1>1. W = {w \in DOMAIN e.windows : e.windows[w] \in T} /\ NamesAt(c, W) = NamesAt(e, W)
  BY DEF NamesAt
<1>2. /\ Detach(c, T).conn = OutOf(c.conn, NamesAt(c, W)) /\ Detach(c, T).windows = Without(c.windows, W)
      /\ Detach(c, T).attached = Without(c.attached, T)
  BY DetachFields
<1>3. /\ Detach(e, T).conn = OutOf(e.conn, NamesAt(e, W)) /\ Detach(e, T).windows = Without(e.windows, W)
      /\ Detach(e, T).attached = Without(e.attached, T)
  BY <1>1, DetachFields
<1> HIDE DEF W
<1> QED BY <1>1, <1>2, <1>3

\* A Space in which nothing is in use may be closed to Agents again.
LEMMA UngrantedSound ==
  ASSUME NEW c, NEW S, Sound(c, S), NEW x, NEW d, Rec(d), Same(c, d, {"granted"}),
         d.granted = c.granted \ {x},
         \A t \in DOMAIN c.attached : t \in DOMAIN c.tabs => c.tabs[t] # x,
         \A s \in DOMAIN c.pages :
           OpenerOf(c, c.pages[s]) \in DOMAIN c.tabs => c.tabs[OpenerOf(c, c.pages[s])] # x
  PROVE  Sound(d, S)
<1>1. /\ d.allowed = c.allowed /\ d.spaces = c.spaces /\ d.agentSpaces = c.agentSpaces
      /\ d.temporary = c.temporary /\ d.tabs = c.tabs
      /\ d.used = c.used /\ d.opened = c.opened /\ d.attached = c.attached
      /\ d.windows = c.windows /\ d.conn = c.conn /\ d.grants = c.grants
      /\ d.pages = c.pages /\ d.asked = c.asked
      /\ d.made = c.made /\ d.names = c.names /\ d.socket = c.socket
      /\ d.stopped = c.stopped /\ d.carried = c.carried
  BY DEF Same, Fields
<1>2. Typed(d)
  BY <1>1 DEF Sound, Typed
<1>3. \A u : OpenerOf(d, u) = OpenerOf(c, u)
  BY <1>1 DEF OpenerOf
<1>4. \A y : y # x /\ Usable(c, y) => Usable(d, y)
  BY <1>1 DEF Usable
<1>5. Reaches(d)
  BY <1>1, <1>3, <1>4 DEF Sound, Reaches
<1>6. Prompting(d) /\ Stops(d)
  BY <1>1 DEF Sound, Prompting, Stops, Remembers
<1>7. Waiting(d)
  BY <1>1, WaitingOf DEF Sound
<1>8. (\A r : WaitsOn(d, r) = WaitsOn(c, r)) /\ Pending(c, S) /\ Spare(c)
  BY <1>1 DEF WaitsOn, Sound
<1>9. Pending(d, S) /\ Spare(d)
  BY <1>1, <1>8 DEF Pending, Spare, Unused
<1> QED BY <1>2, <1>5, <1>6, <1>7, <1>9 DEF Sound

\* The reader takes a Space back.
LEMMA RevokeCalm ==
  ASSUME NEW c, Whole(c), NEW x \in Spaces, NEW d, d = Revoke(c, x)
  PROVE  Rec(d) /\ Calm(c, d)
<1> DEFINE T == {t \in DOMAIN c.tabs : c.tabs[t] = x}
           out == {n \in Names : \/ \E t \in T \cap DOMAIN c.attached : c.attached[t] = n
                                 \/ OpenerOf(c, c.conn[n].tab) \in T}
           sent == [n \in Names |-> IF n \in out
                      THEN [c.conn[n] EXCEPT !.tab = None, !.revoked = TRUE] ELSE c.conn[n]]
           told == [c EXCEPT !.granted = @ \ {x}, !.conn = sent]
           c1 == Cancel(c, T)
           c2 == [c1 EXCEPT !.conn = sent]
           c3 == Detach(c2, T)
           e == Cancel(told, T)
<1>1. d = Detach(e, T)
  BY DEF Revoke
<1>2. Rec(c) /\ c.conn \in [Names -> Connections]
  BY DEF Whole, Sound, Typed
<1> HIDE DEF out, c1, c2, c3, e
<1>3. /\ sent \in [Names -> Connections]
      /\ \A n \in Names : sent[n].denied = c.conn[n].denied /\ sent[n].stops = c.conn[n].stops
  <2>1. ASSUME NEW n \in Names
        PROVE  sent[n] \in Connections /\ sent[n].denied = c.conn[n].denied /\ sent[n].stops = c.conn[n].stops
    <3>1. c.conn[n] \in Connections
      BY <1>2
    <3> DEFINE o1 == [c.conn[n] EXCEPT !.tab = None]
               o == [o1 EXCEPT !.revoked = TRUE]
    <3>2. o1 \in Connections /\ o1.denied = c.conn[n].denied /\ o1.stops = c.conn[n].stops
      BY <3>1, ConnectionKeeps
    <3>3. o \in Connections /\ o.denied = o1.denied /\ o.stops = o1.stops
      <4> HIDE DEF o1
      <4> QED BY <3>2, ConnectionKeeps
    <3>4. sent[n] = IF n \in out THEN o ELSE c.conn[n]
      OBVIOUS
    <3> HIDE DEF o, o1, sent
    <3> QED BY <3>1, <3>2, <3>3, <3>4
  <2> QED BY <2>1
<1> HIDE DEF sent, T
<1>4. /\ Rec(told) /\ Same(c, told, {"granted", "conn"}) /\ told.granted = c.granted \ {x}
      /\ told.conn = sent
  BY <1>2 DEF Rec, Same, Fields
<1> HIDE DEF told
<1>5. /\ Calm(c, c1) /\ Rec(c1) /\ Same(c, c1, {"asked", "stopped", "pages"})
      /\ \A s \in DOMAIN c1.pages : OpenerOf(c1, c1.pages[s]) \notin T
  BY CancelCalm DEF c1
<1>6. Rec(c2) /\ Same(c1, c2, {"conn"}) /\ c2.conn = sent
  BY <1>5 DEF c2, Rec, Same, Fields
<1>7. LetsGo(c1, c2)
  <2>1. c1.conn = c.conn /\ c2.windows = c1.windows /\ c2.attached = c1.attached
        /\ Same(c1, c2, {"conn", "windows", "attached"})
    BY <1>5, <1>6 DEF Same, Fields
  <2>2. Typed(c1) /\ Reaches(c1)
    BY <1>5 DEF Calm, Whole, Sound
  <2> QED BY <1>3, <1>6, <2>1, <2>2 DEF LetsGo, Typed, Reaches
<1>8. LetsGo(c2, c3)
  <2>1. Sound(c2, {})
    BY <1>5, <1>7, LetsGoSound DEF Calm, Whole
  <2> QED BY <2>1, DetachLetsGo DEF c3
<1>9. LetsGo(c1, c3)
  BY <1>7, <1>8, LetsGoTwice
<1>10. Calm(c1, c3)
  BY <1>5, <1>9, LetsGoCalm DEF Calm
<1>11. Rec(e) /\ Same(told, e, {"asked", "stopped", "pages"})
  BY <1>4, CancelFields DEF e
<1>12. /\ told.pages = c.pages /\ told.windows = c.windows /\ told.asked = c.asked
       /\ told.stopped = c.stopped
  BY <1>4 DEF Same, Fields
<1>13. e.pages = c1.pages /\ e.asked = c1.asked /\ e.stopped = c1.stopped
  BY <1>2, <1>4, <1>12, CancelAlike DEF e, c1
<1>14. e.conn = c2.conn /\ e.windows = c2.windows /\ e.attached = c2.attached
  BY <1>4, <1>5, <1>6, <1>11 DEF Same, Fields
<1>15. d.conn = c3.conn /\ d.windows = c3.windows /\ d.attached = c3.attached
  BY <1>1, <1>6, <1>11, <1>14, DetachAlike DEF c3
<1>16. Rec(d) /\ Same(e, d, {"conn", "windows", "attached"})
  BY <1>1, <1>11, DetachFields
<1>17. Same(c2, c3, {"conn", "windows", "attached"}) /\ c3.attached = Without(c2.attached, T)
  BY <1>6, DetachFields DEF c3
<1>18. /\ d.asked = c3.asked /\ d.stopped = c3.stopped /\ d.pages = c3.pages
       /\ d.granted = c3.granted \ {x}
  BY <1>4, <1>5, <1>6, <1>11, <1>13, <1>16, <1>17 DEF Same, Fields
<1>19. Same(c3, d, {"granted"})
  BY <1>4, <1>5, <1>6, <1>11, <1>15, <1>16, <1>17, <1>18 DEF Same, Fields
<1>20. /\ c3.tabs = c.tabs /\ c3.pages = c1.pages /\ c2.attached = c.attached
       /\ c1.tabs = c.tabs /\ c1.spaces = c.spaces /\ c1.agentSpaces = c.agentSpaces
       /\ c3.spaces = c1.spaces /\ c3.agentSpaces = c1.agentSpaces
  BY <1>5, <1>6, <1>17 DEF Same, Fields
<1>21. \A t \in DOMAIN c3.attached : t \in DOMAIN c3.tabs => c3.tabs[t] # x
  BY <1>17, <1>20 DEF Without, Restrict, T
<1>22. \A s \in DOMAIN c3.pages :
         OpenerOf(c3, c3.pages[s]) \in DOMAIN c3.tabs => c3.tabs[OpenerOf(c3, c3.pages[s])] # x
  <2>1. \A u : OpenerOf(c3, u) = OpenerOf(c1, u) \/ OpenerOf(c3, u) = None
    BY <1>9 DEF OpenerOf, LetsGo
  <2>2. None \notin Tabs /\ DOMAIN c.tabs \subseteq Tabs
    BY AgentAssumption DEF Whole, Sound, Typed
  <2> QED BY <1>5, <1>20, <2>1, <2>2 DEF T
<1>23. Sound(d, {})
  <2>1. Sound(c3, {})
    BY <1>10 DEF Calm, Whole
  <2> QED BY <1>16, <1>18, <1>19, <1>21, <1>22, <2>1, UngrantedSound
<1>24. /\ d.allowed = c3.allowed /\ d.grants = c3.grants /\ d.temporary = c3.temporary
       /\ d.made = c3.made /\ d.socket = c3.socket /\ d.pages = c3.pages
       /\ d.attached = c3.attached /\ d.spaces = c3.spaces
  BY <1>19 DEF Same, Fields
<1>25. Whole(d)
  <2>1. Whole(c3)
    BY <1>10 DEF Calm
  <2> QED BY <1>23, <1>24, <2>1, WholeFrom
<1>26. Calm(c, c3)
  BY <1>5, <1>10, <1>20, CalmTwice
<1>27. Calm(c, d)
  BY <1>24, <1>25, <1>26 DEF Calm
<1> QED BY <1>16, <1>27

\* An Agent tab's page opens a window.
LEMMA AttachWindowCalm ==
  ASSUME NEW c, Whole(c), NEW t \in DOMAIN c.attached, Unused(c, Windows) # {},
         NEW w, w = NewId(c, Windows), NEW d, Rec(d), Same(c, d, {"windows", "used"}),
         d.windows = With(c.windows, w, t), d.used = c.used \cup {w}
  PROVE  Calm(c, d)
<1>1. Rec(c) /\ Typed(c) /\ Reaches(c)
  BY DEF Whole, Sound, Typed
<1>3. w \in Windows \ c.used
  BY DEF NewId, Unused
<1>4. /\ d.allowed = c.allowed /\ d.spaces = c.spaces /\ d.agentSpaces = c.agentSpaces
      /\ d.temporary = c.temporary /\ d.granted = c.granted /\ d.tabs = c.tabs
      /\ d.opened = c.opened /\ d.attached = c.attached
      /\ d.conn = c.conn /\ d.grants = c.grants /\ d.pages = c.pages /\ d.asked = c.asked
      /\ d.made = c.made /\ d.names = c.names /\ d.socket = c.socket
      /\ d.stopped = c.stopped /\ d.carried = c.carried
  BY DEF Same, Fields
<1>5. /\ DOMAIN d.windows = DOMAIN c.windows \cup {w} /\ d.windows[w] = t
      /\ \A v \in DOMAIN c.windows : v # w /\ d.windows[v] = c.windows[v]
      /\ d.windows = [v \in DOMAIN d.windows |-> d.windows[v]]
  <2>1. d.windows = [v \in DOMAIN c.windows \cup {w} |-> IF v = w THEN t ELSE c.windows[v]]
    BY DEF With
  <2>2. w \notin DOMAIN c.windows
    BY <1>1, <1>3 DEF Typed
  <2> QED BY <2>1, <2>2
<1>6. Typed(d)
  <2>1. d.windows \in [DOMAIN d.windows -> Tabs] /\ DOMAIN d.windows \subseteq d.used \cap Windows
    BY <1>1, <1>3, <1>5 DEF Typed
  <2>2. /\ d.pages \in [DOMAIN d.pages -> d.used \cap (Tabs \cup Windows)]
        /\ d.spaces \subseteq d.used \cap Spaces /\ DOMAIN d.tabs \subseteq d.used \cap Tabs
        /\ d.opened \subseteq d.used \cap Tabs /\ DOMAIN d.attached \subseteq d.used \cap Tabs
    BY <1>1, <1>4 DEF Typed
  <2> QED BY <1>1, <1>4, <2>1, <2>2 DEF Typed
<1>7. Reaches(d)
  <2>1. \A s \in DOMAIN c.pages : OpenerOf(d, c.pages[s]) = OpenerOf(c, c.pages[s])
    BY <1>1, <1>3, <1>5 DEF OpenerOf, Typed
  <2> QED BY <1>1, <1>4, <1>5, <2>1 DEF Reaches, Usable
<1>8. Prompting(d) /\ Stops(d)
  BY <1>4 DEF Whole, Sound, Prompting, Stops, Remembers
<1>9. Waiting(d)
  BY <1>4, WaitingOf DEF Whole, Sound
<1>10. (\A r : WaitsOn(d, r) = WaitsOn(c, r)) /\ Pending(c, {}) /\ Spare(c)
  BY <1>4 DEF WaitsOn, Whole, Sound
<1>11. Pending(d, {})
  BY <1>4, <1>10 DEF Pending
<1>12. Spare(d)
  BY <1>3, <1>4, <1>10, AgentAssumption DEF Spare, Unused
<1>13. Sound(d, {})
  BY <1>6, <1>7, <1>8, <1>9, <1>11, <1>12 DEF Sound
<1>14. Whole(d)
  BY <1>4, <1>13, WholeFrom
<1> QED BY <1>4, <1>14 DEF Calm

\* The reader closes a tab.
LEMMA CloseTabCalm ==
  ASSUME NEW c, Whole(c), NEW t, NEW d, d = [c EXCEPT !.tabs = Without(@, {t})]
  PROVE  Rec(d) /\ Calm(c, d)
<1>1. Rec(c) /\ Typed(c)
  BY DEF Whole, Sound, Typed
<1>2. Rec(d) /\ Same(c, d, {"tabs"}) /\ d.tabs = Without(c.tabs, {t})
  BY <1>1 DEF Rec, Same, Fields
<1>3. /\ d.allowed = c.allowed /\ d.spaces = c.spaces /\ d.used = c.used /\ d.opened = c.opened
      /\ d.carried = c.carried /\ d.attached = c.attached /\ d.pages = c.pages
      /\ d.grants = c.grants /\ d.temporary = c.temporary /\ d.made = c.made
      /\ d.socket = c.socket /\ Same(c, d, {"tabs", "opened", "used", "carried"})
  BY <1>2 DEF Same, Fields
<1>4. /\ d.tabs \in [DOMAIN d.tabs -> c.spaces] /\ DOMAIN d.tabs \subseteq DOMAIN c.tabs
      /\ \A u \in DOMAIN d.tabs : d.tabs[u] = c.tabs[u]
  <2>1. d.tabs = [u \in DOMAIN c.tabs \ {t} |-> c.tabs[u]]
    BY <1>2 DEF Without, Restrict
  <2>2. c.tabs \in [DOMAIN c.tabs -> c.spaces]
    BY <1>1 DEF Typed
  <2> QED BY <2>1, <2>2
<1>5. /\ DOMAIN d.tabs \subseteq d.used \cap Tabs /\ d.opened \subseteq d.used \cap Tabs
      /\ d.carried \subseteq Tabs
  BY <1>1, <1>3, <1>4 DEF Typed
<1>6. Sound(c, {})
  BY DEF Whole
<1>7. \A u \in DOMAIN d.tabs \ d.carried : u \in c.used => u \in DOMAIN c.tabs /\ d.tabs[u] = c.tabs[u]
  BY <1>4
<1>8. Sound(d, {})
  BY <1>2, <1>3, <1>4, <1>5, <1>6, <1>7, TabsSound
<1>9. Whole(d)
  BY <1>3, <1>8, WholeFrom
<1> QED BY <1>2, <1>3, <1>9 DEF Calm

\* The reader moves a tab to another Space.
LEMMA MoveTabCalm ==
  ASSUME NEW c, Whole(c), NEW t \in DOMAIN c.tabs, NEW x \in c.spaces,
         NEW d, d = [c EXCEPT !.tabs[t] = x, !.carried = @ \cup {t}]
  PROVE  Rec(d) /\ Calm(c, d)
<1>1. Rec(c) /\ Typed(c)
  BY DEF Whole, Sound, Typed
<1>2. /\ Rec(d) /\ Same(c, d, {"tabs", "carried"}) /\ d.tabs = [c.tabs EXCEPT ![t] = x]
      /\ d.carried = c.carried \cup {t}
  BY <1>1 DEF Rec, Same, Fields
<1>3. /\ d.allowed = c.allowed /\ d.spaces = c.spaces /\ d.used = c.used /\ d.opened = c.opened
      /\ d.attached = c.attached /\ d.pages = c.pages
      /\ d.grants = c.grants /\ d.temporary = c.temporary /\ d.made = c.made
      /\ d.socket = c.socket /\ Same(c, d, {"tabs", "opened", "used", "carried"})
  BY <1>2 DEF Same, Fields
<1>4. /\ d.tabs \in [DOMAIN d.tabs -> c.spaces] /\ DOMAIN d.tabs = DOMAIN c.tabs
      /\ \A u \in DOMAIN d.tabs : u # t => d.tabs[u] = c.tabs[u]
  <2>1. c.tabs \in [DOMAIN c.tabs -> c.spaces]
    BY <1>1 DEF Typed
  <2> QED BY <1>2, <2>1
<1>5. /\ DOMAIN d.tabs \subseteq d.used \cap Tabs /\ d.opened \subseteq d.used \cap Tabs
      /\ d.carried \subseteq Tabs /\ c.carried \subseteq d.carried
  BY <1>1, <1>2, <1>3, <1>4 DEF Typed
<1>6. Sound(c, {})
  BY DEF Whole
<1>7. \A u \in DOMAIN d.tabs \ d.carried : u \in c.used => u \in DOMAIN c.tabs /\ d.tabs[u] = c.tabs[u]
  BY <1>2, <1>4
<1>8. Sound(d, {})
  BY <1>2, <1>3, <1>4, <1>5, <1>6, <1>7, TabsSound
<1>9. Whole(d)
  BY <1>3, <1>8, WholeFrom
<1> QED BY <1>2, <1>3, <1>9 DEF Calm

\* The reader takes an Agent Space over.
LEMMA TakeOverCalm ==
  ASSUME NEW c, Whole(c), NEW x \in DOMAIN c.agentSpaces,
         NEW d, Rec(d), Same(c, d, {"agentSpaces", "temporary", "carried"}),
         d.agentSpaces = Without(c.agentSpaces, {x}), d.temporary = c.temporary \ {x},
         NEW T, \A t : t \in T <=> t \in DOMAIN c.tabs /\ c.tabs[t] = x,
         d.carried = c.carried \cup T
  PROVE  Calm(c, d)
<1>1. Rec(c) /\ Typed(c) /\ Reaches(c) /\ Prompting(c)
  BY DEF Whole, Sound, Typed
<1>4. /\ d.allowed = c.allowed /\ d.spaces = c.spaces /\ d.used = c.used
      /\ d.granted = c.granted /\ d.tabs = c.tabs
      /\ d.opened = c.opened /\ d.attached = c.attached /\ d.windows = c.windows
      /\ d.conn = c.conn /\ d.grants = c.grants /\ d.pages = c.pages /\ d.asked = c.asked
      /\ d.made = c.made /\ d.names = c.names /\ d.socket = c.socket
      /\ d.stopped = c.stopped
  BY DEF Same, Fields
<1>5. /\ DOMAIN d.agentSpaces = DOMAIN c.agentSpaces \ {x}
      /\ d.agentSpaces \in [DOMAIN d.agentSpaces -> Names]
  <2>1. d.agentSpaces = [y \in DOMAIN c.agentSpaces \ {x} |-> c.agentSpaces[y]]
    BY DEF Without, Restrict
  <2>2. c.agentSpaces \in [DOMAIN c.agentSpaces -> Names]
    BY <1>1 DEF Typed
  <2> QED BY <2>1, <2>2
<1>6. T \subseteq Tabs
  BY <1>1 DEF Typed
<1>7. Typed(d)
  <2>1. /\ DOMAIN d.agentSpaces \subseteq d.spaces /\ d.temporary \subseteq DOMAIN d.agentSpaces
        /\ d.granted \subseteq d.spaces \ DOMAIN d.agentSpaces /\ d.carried \subseteq Tabs
    BY <1>1, <1>4, <1>5, <1>6 DEF Typed
  <2> QED BY <1>1, <1>4, <1>5, <2>1 DEF Typed
<1>8. Reaches(d)
  <2>1. \A t \in DOMAIN d.tabs \ d.carried : Usable(c, c.tabs[t]) => Usable(d, d.tabs[t])
    BY <1>1, <1>4, <1>5 DEF Usable
  <2>2. \A u : OpenerOf(d, u) = OpenerOf(c, u)
    BY <1>4 DEF OpenerOf
  <2> QED BY <1>1, <1>4, <2>1, <2>2 DEF Reaches
<1>9. Prompting(d)
  BY <1>1, <1>4, <1>5 DEF Prompting
<1>10. Stops(d)
  BY <1>4 DEF Whole, Sound, Stops, Remembers
<1>11. Waiting(d)
  BY <1>4, WaitingOf DEF Whole, Sound
<1>12. (\A r : WaitsOn(d, r) = WaitsOn(c, r)) /\ Pending(c, {}) /\ Spare(c)
  BY <1>4 DEF WaitsOn, Whole, Sound
<1>13. Pending(d, {}) /\ Spare(d)
  BY <1>4, <1>12 DEF Pending, Spare, Unused
<1>14. Sound(d, {})
  BY <1>7, <1>8, <1>9, <1>10, <1>11, <1>13 DEF Sound
<1>15. Whole(d)
  BY <1>4, <1>14, WholeFrom
<1> QED BY <1>4, <1>15 DEF Calm

\* A prompt ends without a grant.
LEMMA RefuseCalm ==
  ASSUME NEW c, Whole(c), NEW x \in Spaces, NEW answer, NEW d, d = Refuse(c, x, answer)
  PROVE  Rec(d) /\ Calm(c, d)
<1>1. Typed(c) /\ Waiting(c)
  BY DEF Whole, Sound
<1>2. /\ Rec(d) /\ Same(c, d, {"grants", "conn", "asked", "stopped"})
      /\ d.grants = Unprompted(c.grants, x)
  BY <1>1, RefuseFields
<1>3. Sound(d, {})
  BY RefuseSound DEF Whole
<1>4. /\ d.allowed = c.allowed /\ d.spaces = c.spaces /\ d.temporary = c.temporary
      /\ d.attached = c.attached /\ d.pages = c.pages /\ d.made = c.made /\ d.socket = c.socket
  BY <1>2 DEF Same, Fields
<1>5. c.grants = <<>> => d.grants = <<>>
  BY <1>2, NoPrompts
<1>6. Whole(d)
  BY <1>3, <1>4, <1>5, WholeFrom
<1> QED BY <1>2, <1>4, <1>6 DEF Calm

\* The reader deletes a Space that is not the last.
LEMMA ReaderDeletesCalm ==
  ASSUME NEW c, Whole(c), NEW x \in c.spaces, c.spaces # {x}, NEW d, d = DeleteSpace(c, x)
  PROVE  /\ Rec(d) /\ Whole(d) /\ d.pages = c.pages /\ d.attached = c.attached
         /\ d.spaces = c.spaces \ {x}
<1>1. Rec(c) /\ Sound(c, {})
  BY DEF Whole, Sound, Typed
<1>2. Grown(c, c, {}, x)
  BY <1>1 DEF Grown, Same
<1>3. Sound(d, {}) /\ Deleted(c, d, {}, x)
  BY <1>1, <1>2, DeletedSound
<1>4. /\ d.allowed = c.allowed /\ d.attached = c.attached /\ d.pages = c.pages
      /\ d.made = c.made /\ d.socket = c.socket
  BY <1>3 DEF Deleted, Same, Fields
<1>5. c.grants = <<>> => d.grants = <<>>
  BY <1>3, NoPrompts DEF Deleted
<1>6. d.temporary \subseteq c.temporary /\ d.spaces = c.spaces \ {x}
  BY <1>3 DEF Deleted
<1>7. Whole(d)
  BY <1>3, <1>4, <1>5, <1>6, WholeFrom
<1> QED BY <1>3, <1>4, <1>6, <1>7 DEF Sound, Typed

\* A connection ends, and with it the temporary Spaces it made.
LEMMA DisconnectCalm ==
  ASSUME NEW c, Whole(c), NEW s \in Sockets, NEW e, e = DeleteTemporarySpaces(c, c.made[s]),
         NEW d, Rec(d), Same(e, d, {"made", "names", "socket"}),
         d.made = [e.made EXCEPT ![s] = {}], d.names = [e.names EXCEPT ![s] = {}],
         d.socket = [e.socket EXCEPT ![s] = "closed"]
  PROVE  Calm(c, d)
<1>1. Sound(c, {}) /\ Typed(c) /\ c.made[s] \in SUBSET Spaces
  BY DEF Whole, Sound, Typed
<1>2. Sound(e, {}) /\ GoneFrom(c, e, c.made[s])
  BY <1>1, DeleteTemporarySpacesSound
<1>3. /\ e.made = c.made /\ e.socket = c.socket /\ e.allowed = c.allowed
      /\ e.attached = c.attached /\ e.pages = c.pages
      /\ e.temporary = c.temporary \ c.made[s] /\ (c.grants = <<>> => e.grants = <<>>)
      /\ c.spaces \ DOMAIN c.agentSpaces \subseteq e.spaces
  BY <1>2 DEF GoneFrom, Same, Fields
<1>4. /\ d.allowed = e.allowed /\ d.attached = e.attached /\ d.pages = e.pages
      /\ d.temporary = e.temporary /\ d.grants = e.grants /\ d.spaces = e.spaces
      /\ d.opened = e.opened /\ Same(e, d, {"names", "made", "opened", "socket"})
  BY DEF Same, Fields
<1>5. /\ d.opened \subseteq e.used \cap Tabs
      /\ d.made \in [Sockets -> SUBSET Spaces] /\ d.names \in [Sockets -> SUBSET Names]
      /\ d.socket \in [Sockets -> {"open", "closing", "closed"}]
  <2>1. Typed(e)
    BY <1>2 DEF Sound
  <2>2. /\ e.made \in [Sockets -> SUBSET Spaces] /\ e.names \in [Sockets -> SUBSET Names]
        /\ e.socket \in [Sockets -> {"open", "closing", "closed"}] /\ e.opened \subseteq e.used \cap Tabs
    BY <2>1 DEF Typed
  <2> QED BY <1>4, <2>2
<1>6. Sound(d, {})
  BY <1>2, <1>4, <1>5, AsideSound
<1>7. Lasting(d)
  <2> SUFFICES ASSUME NEW x \in d.temporary
               PROVE  \E r \in Sockets : x \in d.made[r] /\ d.socket[r] # "closed"
    BY DEF Lasting
  <2>1. x \in c.temporary /\ x \notin c.made[s]
    BY <1>3, <1>4
  <2>2. PICK r \in Sockets : x \in c.made[r] /\ c.socket[r] # "closed"
    BY <2>1 DEF Whole, Lasting
  <2>3. r # s /\ d.made[r] = c.made[r] /\ d.socket[r] = c.socket[r]
    BY <1>3, <2>1, <2>2
  <2> QED BY <2>2, <2>3
<1>8. Whole(d)
  BY <1>3, <1>4, <1>6, <1>7 DEF Whole
<1> QED BY <1>3, <1>4, <1>8 DEF Calm

\* A connection is made.
LEMMA ConnectCalm ==
  ASSUME NEW c, Whole(c), NEW s \in Sockets, NEW d, Rec(d), Same(c, d, {"names", "socket"}),
         d.names = [c.names EXCEPT ![s] = {}], d.socket = [c.socket EXCEPT ![s] = "open"]
  PROVE  Calm(c, d)
<1>1. /\ d.allowed = c.allowed /\ d.attached = c.attached /\ d.pages = c.pages
      /\ d.temporary = c.temporary /\ d.grants = c.grants /\ d.spaces = c.spaces
      /\ d.opened = c.opened /\ d.made = c.made
      /\ Same(c, d, {"names", "made", "opened", "socket"})
  BY DEF Same, Fields
<1>2. /\ c.made \in [Sockets -> SUBSET Spaces] /\ c.names \in [Sockets -> SUBSET Names]
      /\ c.socket \in [Sockets -> {"open", "closing", "closed"}] /\ c.opened \subseteq c.used \cap Tabs
      /\ Sound(c, {})
  BY DEF Whole, Sound, Typed
<1>3. d.names \in [Sockets -> SUBSET Names] /\ d.socket \in [Sockets -> {"open", "closing", "closed"}]
  BY <1>2
<1>4. Sound(d, {})
  BY <1>1, <1>2, <1>3, AsideSound
<1>5. \A r \in Sockets : /\ c.made[r] \subseteq d.made[r]
                         /\ c.socket[r] # "closed" => d.socket[r] # "closed"
  BY <1>1, <1>2
<1>6. Whole(d)
  <2>1. d.temporary \subseteq c.temporary /\ (c.grants = <<>> => d.grants = <<>>)
    BY <1>1
  <2> QED BY <1>1, <1>4, <1>5, <2>1, WholeFrom
<1> QED BY <1>1, <1>6 DEF Calm

\* Agents are turned off.
LEMMA TurnOffCalm ==
  ASSUME NEW c, Whole(c), NEW d, d = TurnOff(c)
  PROVE  Rec(d) /\ Calm(c, d)
<1>1. /\ Sound(d, {}) /\ d.grants = <<>> /\ DOMAIN d.pages = {} /\ DOMAIN d.attached = {}
      /\ Same(c, d, {"allowed", "grants", "conn", "windows", "attached", "pages", "asked",
                     "stopped"})
  BY TurnOffSound DEF Whole
<1>2. /\ d.temporary = c.temporary /\ d.made = c.made /\ d.socket = c.socket
      /\ d.spaces = c.spaces
  BY <1>1 DEF Same, Fields
<1>3. Lasting(d)
  BY <1>2 DEF Whole, Lasting
<1> QED BY <1>1, <1>2, <1>3 DEF Calm, Whole, Sound, Typed

\* Agents are turned on.
LEMMA TurnOnCalm ==
  ASSUME NEW c, Whole(c), NEW d, Rec(d), Same(c, d, {"allowed"}), d.allowed = TRUE
  PROVE  Calm(c, d)
<1>1. /\ d.spaces = c.spaces /\ d.agentSpaces = c.agentSpaces
      /\ d.temporary = c.temporary /\ d.granted = c.granted /\ d.tabs = c.tabs
      /\ d.used = c.used /\ d.opened = c.opened /\ d.attached = c.attached
      /\ d.windows = c.windows /\ d.conn = c.conn /\ d.grants = c.grants
      /\ d.pages = c.pages /\ d.asked = c.asked
      /\ d.made = c.made /\ d.names = c.names /\ d.socket = c.socket
      /\ d.stopped = c.stopped /\ d.carried = c.carried
  BY DEF Same, Fields
<1>2. Typed(d)
  BY <1>1 DEF Whole, Sound, Typed
<1>3. Reaches(d)
  <2>1. Reaches(c)
    BY DEF Whole, Sound
  <2>2. \A u : OpenerOf(d, u) = OpenerOf(c, u)
    BY <1>1 DEF OpenerOf
  <2>3. \A x : Usable(c, x) => Usable(d, x)
    BY <1>1 DEF Usable
  <2> QED BY <1>1, <2>1, <2>2, <2>3 DEF Reaches
<1>4. Prompting(d) /\ Stops(d)
  <2>1. Prompting(c) /\ Stops(c)
    BY DEF Whole, Sound
  <2>2. Prompting(d)
    BY <1>1, <2>1 DEF Prompting
  <2>3. Stops(d)
    BY <1>1, <2>1 DEF Stops, Remembers
  <2> QED BY <2>2, <2>3
<1>5. Waiting(d)
  BY <1>1, WaitingOf DEF Whole, Sound
<1>6. (\A r : WaitsOn(d, r) = WaitsOn(c, r)) /\ Pending(c, {}) /\ Spare(c)
  BY <1>1 DEF WaitsOn, Whole, Sound
<1>7. Pending(d, {}) /\ Spare(d)
  BY <1>1, <1>6 DEF Pending, Spare, Unused
<1>8. Sound(d, {})
  BY <1>2, <1>3, <1>4, <1>5, <1>7 DEF Sound
<1>9. Lasting(d)
  BY <1>1 DEF Whole, Lasting
<1> QED BY <1>1, <1>8, <1>9 DEF Whole, Calm

\* A restart leaves what the store holds, without the temporary Spaces.
LEMMA RestartCalm ==
  ASSUME NEW c, Whole(c), NEW b, Rec(b),
         Same(c, b, {"opened", "attached", "windows", "conn", "grants", "pages", "made", "names",
                     "socket", "asked", "carried", "stopped"}),
         b.opened = {}, b.attached = <<>>, b.windows = <<>>, b.conn = [n \in Names |-> Fresh],
         b.grants = <<>>, b.pages = <<>>, b.made = [s \in Sockets |-> {}],
         b.names = [s \in Sockets |-> {}], b.socket = [s \in Sockets |-> "open"],
         b.asked = [s \in Sockets |-> NoRequest], b.carried = {}, b.stopped = {},
         NEW d, d = DeleteTemporarySpaces(b, c.temporary)
  PROVE  Rec(d) /\ Calm(c, d)
<1>1. /\ b.allowed = c.allowed /\ b.spaces = c.spaces /\ b.agentSpaces = c.agentSpaces
      /\ b.temporary = c.temporary /\ b.granted = c.granted /\ b.tabs = c.tabs
      /\ b.used = c.used
  BY DEF Same, Fields
<1>2. Typed(c) /\ Spare(c)
  BY DEF Whole, Sound
<1>3. Typed(b)
  <2>1. Fresh \in Connections
    BY DEF Fresh, Connections
  <2>2. b.conn \in [Names -> Connections]
    BY <2>1
  <2>3. /\ b.grants \in Seq(Prompts) /\ b.attached \in [DOMAIN b.attached -> Names]
        /\ b.windows \in [DOMAIN b.windows -> Tabs]
        /\ b.pages \in [DOMAIN b.pages -> b.used \cap (Tabs \cup Windows)]
        /\ DOMAIN b.attached = {} /\ DOMAIN b.windows = {} /\ DOMAIN b.pages = {}
    OBVIOUS
  <2>4. b.asked \in [Sockets -> Requests]
    BY DEF Requests
  <2>5. /\ b.made \in [Sockets -> SUBSET Spaces] /\ b.names \in [Sockets -> SUBSET Names]
        /\ b.socket \in [Sockets -> {"open", "closing", "closed"}]
    OBVIOUS
  <2> QED BY <1>1, <1>2, <2>2, <2>3, <2>4, <2>5 DEF Typed
<1>4. /\ DOMAIN b.pages = {} /\ DOMAIN b.attached = {} /\ DOMAIN b.windows = {}
      /\ DOMAIN b.grants = {} /\ \A s \in Sockets : b.asked[s] = NoRequest
  OBVIOUS
<1>5. Reaches(b) /\ Prompting(b) /\ Waiting(b)
  BY <1>4 DEF Reaches, Prompting, Waiting
<1>6. Pending(b, {}) /\ Stops(b)
  BY <1>4 DEF Pending, Stops
<1>7. Spare(b)
  BY <1>1, <1>2 DEF Spare, Unused
<1>8. Sound(b, {})
  BY <1>3, <1>5, <1>6, <1>7 DEF Sound
<1>9. c.temporary \in SUBSET Spaces
  BY <1>2 DEF Typed
<1>10. Sound(d, {}) /\ GoneFrom(b, d, c.temporary)
  BY <1>8, <1>9, DeleteTemporarySpacesSound
<1>11. /\ d.temporary = {} /\ d.grants = <<>> /\ d.attached = <<>> /\ d.pages = <<>>
       /\ c.spaces \ DOMAIN c.agentSpaces \subseteq d.spaces
  BY <1>1, <1>10 DEF GoneFrom, Same, Fields
<1>12. Whole(d)
  BY <1>10, <1>11 DEF Whole, Lasting
<1>13. DOMAIN d.attached = {} /\ DOMAIN d.pages = {}
  BY <1>11
<1> QED BY <1>10, <1>11, <1>12, <1>13 DEF Calm, Sound, Typed

\* A request is read: c is the state with the request in it, and d the one
\* after.  What is new is its own, or of its name.
LEMMA ReadWhole ==
  ASSUME NEW b, Whole(b), NEW s \in Sockets, b.socket[s] = "open", b.asked[s] = NoRequest,
         NEW q \in Requests, q # NoRequest, NEW c, Rec(c), Same(b, c, {"asked"}),
         c.asked = [b.asked EXCEPT ![s] = q], NEW d, d = Handle(c, s)
  PROVE  /\ Rec(d) /\ Whole(d) /\ s \notin b.stopped
         /\ DOMAIN d.pages \subseteq DOMAIN b.pages \cup {s}
         /\ b.spaces \ DOMAIN b.agentSpaces \subseteq d.spaces
<1>1. /\ c.allowed = b.allowed /\ c.spaces = b.spaces /\ c.agentSpaces = b.agentSpaces
      /\ c.temporary = b.temporary /\ c.granted = b.granted /\ c.tabs = b.tabs
      /\ c.used = b.used /\ c.opened = b.opened /\ c.attached = b.attached
      /\ c.windows = b.windows /\ c.conn = b.conn /\ c.grants = b.grants
      /\ c.pages = b.pages /\ c.made = b.made /\ c.names = b.names /\ c.socket = b.socket
      /\ c.stopped = b.stopped /\ c.carried = b.carried
  BY DEF Same, Fields
<1>2. /\ Typed(b) /\ Reaches(b) /\ Prompting(b) /\ Waiting(b) /\ Pending(b, {}) /\ Stops(b)
      /\ Spare(b)
  BY DEF Whole, Sound
<1>3. b.asked \in [Sockets -> Requests]
  BY <1>2 DEF Typed
<1>4. c.asked \in [Sockets -> Requests] /\ c.asked[s] = q /\ \A r \in Sockets : r # s => c.asked[r] = b.asked[r]
  BY <1>3
<1>5. s \notin b.stopped /\ s \notin DOMAIN b.pages
  BY <1>2 DEF Stops, Pending
<1>6. WaitsOn(b, s) = {}
  <2> SUFFICES ASSUME NEW i \in WaitsOn(b, s) PROVE FALSE
    OBVIOUS
  <2>1. i \in DOMAIN b.grants
    BY DEF WaitsOn
  <2>2. PICK k \in DOMAIN b.grants[i].waiters : b.grants[i].waiters[k].socket = s
    BY DEF WaitsOn
  <2>3. WaitsWell(b, i, k)
    BY <1>2, <2>1 DEF Waiting
  <2>4. b.asked[s].verb # "none"
    BY <2>2, <2>3 DEF WaitsWell, PageVerbs
  <2> QED BY <2>4 DEF NoRequest
<1>7. Typed(c)
  BY <1>1, <1>2, <1>4 DEF Typed
<1>8. Reaches(c) /\ Prompting(c) /\ Spare(c)
  <2>1. \A u : OpenerOf(c, u) = OpenerOf(b, u)
    BY <1>1 DEF OpenerOf
  <2>2. \A x : Usable(c, x) <=> Usable(b, x)
    BY <1>1 DEF Usable
  <2>3. Reaches(c)
    BY <1>1, <1>2, <2>1, <2>2 DEF Reaches
  <2>4. Prompting(c) /\ Spare(c)
    BY <1>1, <1>2 DEF Prompting, Spare, Unused
  <2> QED BY <2>3, <2>4
<1>9. \A r : WaitsOn(c, r) = WaitsOn(b, r)
  BY <1>1 DEF WaitsOn
<1>10. ASSUME NEW i \in DOMAIN b.grants, NEW k \in DOMAIN b.grants[i].waiters
       PROVE  WaitsWell(c, i, k) /\ Remembers(c, i, k)
  <2>1. b.grants[i].waiters[k].socket \in Sockets /\ i \in WaitsOn(b, b.grants[i].waiters[k].socket)
    BY <1>2, Waiters
  <2>2. c.asked[b.grants[i].waiters[k].socket] = b.asked[b.grants[i].waiters[k].socket]
    BY <1>4, <1>6, <2>1
  <2>3. WaitsWell(b, i, k) /\ Remembers(b, i, k)
    BY <1>2 DEF Waiting, Stops
  <2>4. WaitsWell(c, i, k)
    BY <1>1, <1>9, <2>2, <2>3 DEF WaitsWell
  <2>5. Remembers(c, i, k)
    BY <1>1, <2>2, <2>3 DEF Remembers
  <2> QED BY <2>4, <2>5
<1>11. Waiting(c)
  BY <1>1, <1>10 DEF Waiting
<1>12. Stops(c)
  <2>1. \A r \in c.stopped : c.asked[r] # NoRequest
    BY <1>1, <1>2, <1>4, <1>5 DEF Stops, Typed
  <2> QED BY <1>1, <1>10, <2>1 DEF Stops
<1>13. Pending(c, {s})
  <2>1. \A r \in Sockets :
          c.asked[r] # NoRequest => r \in {s} \cup DOMAIN c.pages \/ WaitsOn(c, r) # {}
    BY <1>1, <1>2, <1>4, <1>9 DEF Pending
  <2>2. \A r \in {s} \cup DOMAIN c.pages : c.asked[r] # NoRequest
    BY <1>1, <1>2, <1>4 DEF Pending, Typed
  <2>3. \A r \in {s} : r \in Sockets \ DOMAIN c.pages /\ WaitsOn(c, r) = {}
    BY <1>1, <1>5, <1>6, <1>9
  <2> QED BY <2>1, <2>2, <2>3 DEF Pending
<1>14. Sound(c, {s})
  BY <1>7, <1>8, <1>11, <1>12, <1>13 DEF Sound
<1>15. Sound(d, {s} \ {s}) /\ Onward(c, d, {s}, q, s)
  <2>1. Ends(c, Handle(c, s), {s}, c.asked[s], s)
    BY <1>1, <1>5, <1>14, HandleEnds
  <2> QED BY <1>4, <2>1 DEF Ends
<1>16. Sound(d, {})
  <2>1. {s} \ {s} = {}
    OBVIOUS
  <2> QED BY <1>15, <2>1
<1>17. /\ DOMAIN d.pages \subseteq DOMAIN b.pages \cup {s} /\ d.allowed = b.allowed
       /\ (~b.allowed /\ b.grants = <<>> => d.grants = <<>>) /\ d.socket = b.socket
       /\ \A r \in Sockets : b.made[r] \subseteq d.made[r]
       /\ \A x \in d.temporary : x \in b.temporary \/ x \in d.made[s]
       /\ b.spaces \ DOMAIN b.agentSpaces \subseteq d.spaces
  BY <1>1, <1>15 DEF Onward
<1>18. Lasting(d)
  <2> SUFFICES ASSUME NEW x \in d.temporary
               PROVE  \E r \in Sockets : x \in d.made[r] /\ d.socket[r] # "closed"
    BY DEF Lasting
  <2>1. CASE x \in d.made[s]
    BY <1>17, <2>1
  <2>2. CASE x \in b.temporary
    <3>1. PICK r \in Sockets : x \in b.made[r] /\ b.socket[r] # "closed"
      BY <2>2 DEF Whole, Lasting
    <3> QED BY <1>17, <3>1
  <2> QED BY <1>17, <2>1, <2>2
<1>19. Whole(d)
  BY <1>16, <1>17, <1>18 DEF Whole
<1> QED BY <1>5, <1>16, <1>17, <1>19 DEF Sound, Typed

\* The reader allows the prompt on show.  What starts then was not stopped.
LEMMA AllowWhole ==
  ASSUME NEW c, Whole(c), c.grants # <<>>, NEW g, g = Head(c.grants),
         NEW b, Rec(b), Same(c, b, {"granted"}), b.granted = c.granted \cup {g.space},
         NEW d, d = Allow(b, g)
  PROVE  /\ Rec(d) /\ Whole(d)
         /\ \A r \in DOMAIN d.pages : r \in DOMAIN c.pages \/ r \notin c.stopped
         /\ \A t \in DOMAIN d.attached :
              \/ t \in DOMAIN c.attached /\ d.attached[t] = c.attached[t]
              \/ \E r \in Sockets \ c.stopped : d.attached[t] = c.asked[r].name
         /\ c.spaces \ DOMAIN c.agentSpaces \subseteq d.spaces
<1>1. /\ Sound(c, {}) /\ Typed(c) /\ Waiting(c) /\ c.grants \in Seq(Prompts)
  BY DEF Whole, Sound, Typed
<1>2. 1 \in DOMAIN c.grants /\ g = c.grants[1]
  BY <1>1
<1> DEFINE R == Asking(c, g.space)
<1>3. Sound(d, {}) /\ Through(c, d, R, R)
  BY <1>1, <1>2, AllowSound
<1>4. ASSUME NEW r \in R
      PROVE  r \in Sockets /\ c.asked[r].verb # "space new --temporary"
  <2>1. PICK i \in DOMAIN c.grants : i \in WaitsOn(c, r)
    BY DEF Asking, Prompted
  <2>2. PICK k \in DOMAIN c.grants[i].waiters : c.grants[i].waiters[k].socket = r
    BY <2>1 DEF WaitsOn
  <2>3. WaitsWell(c, i, k)
    BY <1>1 DEF Waiting
  <2>4. c.asked[r].verb \in PageVerbs \cup {"open"}
    BY <2>2, <2>3 DEF WaitsWell
  <2> QED BY <2>4 DEF Asking, PageVerbs
<1> HIDE DEF R
<1>5. /\ \A r \in DOMAIN d.pages : r \in DOMAIN c.pages \/ r \in R \ c.stopped
      /\ \A t \in DOMAIN d.attached :
           \/ t \in DOMAIN c.attached /\ d.attached[t] = c.attached[t]
           \/ \E r \in R \ c.stopped : d.attached[t] = c.asked[r].name
      /\ d.allowed = c.allowed /\ d.socket = c.socket
      /\ \A r \in Sockets : c.made[r] \subseteq d.made[r]
      /\ c.spaces \ DOMAIN c.agentSpaces \subseteq d.spaces
  BY <1>3 DEF Through
<1>6. \A x \in d.temporary : x \in c.temporary
  BY <1>3, <1>4 DEF Through
<1>7. Lasting(d)
  BY <1>5, <1>6 DEF Lasting, Whole
<1>8. c.allowed
  BY DEF Whole
<1>9. Whole(d)
  BY <1>3, <1>5, <1>7, <1>8 DEF Whole
<1>10. \A t \in DOMAIN d.attached :
         \/ t \in DOMAIN c.attached /\ d.attached[t] = c.attached[t]
         \/ \E r \in Sockets \ c.stopped : d.attached[t] = c.asked[r].name
  BY <1>4, <1>5
<1> QED BY <1>3, <1>5, <1>9, <1>10 DEF Sound, Typed

-----------------------------------------------------------------------------
(* Steps                                                                   *)

\* A step to a record of the state leaves it.
LEMMA BecomesNow ==
  ASSUME NEW c, Rec(c), Becomes(c)
  PROVE  Now' = c
<1>1. Now' = [x \in Fields |-> Now'[x]]
  BY DEF Now, Fields
<1>2. c = [x \in Fields |-> c[x]]
  BY DEF Rec
<1>3. \A x \in Fields : Now'[x] = c[x]
  BY DEF Now, Becomes, Fields
<1> QED BY <1>1, <1>2, <1>3

\* What the state is made of.
LEMMA NowFields ==
  /\ Now.allowed = allowed /\ Now.spaces = spaces /\ Now.agentSpaces = agentSpaces
  /\ Now.temporary = temporary /\ Now.granted = granted /\ Now.tabs = tabs /\ Now.used = used
  /\ Now.opened = opened /\ Now.attached = attached /\ Now.windows = windows /\ Now.conn = conn
  /\ Now.grants = grants /\ Now.pages = pages /\ Now.made = made /\ Now.names = names
  /\ Now.socket = socket /\ Now.asked = asked /\ Now.carried = carried /\ Now.stopped = stopped
BY DEF Now

\* What was stopped starts nothing in this step.
StartsNothing ==
  \A s \in stopped :
    LET n == asked[s].name
        under(f) == {t \in DOMAIN f : f[t] = n}
    IN /\ s \in DOMAIN pages' => s \in DOMAIN pages
       /\ asks' = asks =>
            \/ under(attached') \subseteq under(attached)
            \/ \E r \in Sockets \ stopped : asked[r].name = n

\* The reader's own Spaces stay in this step, unless the reader deletes them.
SpacesStay == \A x \in spaces \ DOMAIN agentSpaces : x \in spaces' \/ ReaderDeletesSpace(x)

\* The step leads from the invariant to itself, and does neither harm.
Good == Whole(Now') /\ asks' \in Nat /\ StartsNothing /\ SpacesStay

\* A calm step is good.
LEMMA CalmGood ==
  ASSUME Calm(Now, Now'), asks' \in Nat
  PROVE  Good
<1>1. /\ Whole(Now') /\ DOMAIN Now'.pages \subseteq DOMAIN Now.pages
      /\ \A t \in DOMAIN Now'.attached :
           t \in DOMAIN Now.attached /\ Now'.attached[t] = Now.attached[t]
      /\ Now.spaces \ DOMAIN Now.agentSpaces \subseteq Now'.spaces
  BY DEF Calm
<1>2. Now'.pages = pages' /\ Now'.attached = attached' /\ Now'.spaces = spaces'
  BY DEF Now
<1>3. Now.pages = pages /\ Now.attached = attached /\ Now.spaces = spaces
      /\ Now.agentSpaces = agentSpaces
  BY NowFields
<1>4. /\ DOMAIN pages' \subseteq DOMAIN pages
      /\ \A t \in DOMAIN attached' : t \in DOMAIN attached /\ attached'[t] = attached[t]
      /\ spaces \ DOMAIN agentSpaces \subseteq spaces'
  BY <1>1, <1>2, <1>3
<1>5. StartsNothing
  BY <1>4 DEF StartsNothing
<1>6. SpacesStay
  BY <1>4 DEF SpacesStay
<1> QED BY <1>1, <1>5, <1>6 DEF Good

\* What a request is about is something there is, or nothing.
LEMMA AboutsThere ==
  ASSUME Whole(Now), NEW v \in Verbs, NEW about \in Abouts(v)
  PROVE  about \in Spaces \cup Tabs \cup Windows \cup {None}
<1>1. spaces \subseteq Spaces
  BY DEF Whole, Sound, Typed, Now
<1> QED BY <1>1 DEF Abouts

\* A request is read.
LEMMA ReadGood ==
  ASSUME Whole(Now), asks \in Nat, NEW s \in Sockets, Read(s)
  PROVE  Good
<1>0. PICK n \in Carries[s], v \in Verbs : \E about \in Abouts(v) :
        Becomes(Handle([Now EXCEPT !.asked[s] = [name |-> n, verb |-> v, about |-> about]], s))
  BY DEF Read
<1>1. PICK about \in Abouts(v) :
        Becomes(Handle([Now EXCEPT !.asked[s] = [name |-> n, verb |-> v, about |-> about]], s))
  BY <1>0
<1> DEFINE q == [name |-> n, verb |-> v, about |-> about]
           c == [Now EXCEPT !.asked[s] = q]
           d == Handle(c, s)
<1>2. q \in Requests /\ q # NoRequest
  <2>1. about \in Spaces \cup Tabs \cup Windows \cup {None} /\ n \in Names
    BY AboutsThere, AgentAssumption
  <2>2. v # "none"
    BY DEF Verbs, Gated, PageVerbs
  <2> QED BY <2>1, <2>2 DEF Requests, NoRequest
<1>3. asks' = asks + 1 /\ socket[s] = "open" /\ asked[s] = NoRequest
  BY DEF Read
<1> HIDE DEF q
<1>4. Rec(c) /\ Same(Now, c, {"asked"}) /\ c.asked = [Now.asked EXCEPT ![s] = q]
  BY NowIsRec DEF Rec, Same, Fields
<1> HIDE DEF c
<1>5. Now.socket[s] = "open" /\ Now.asked[s] = NoRequest
  BY <1>3, NowFields
<1>6. /\ Rec(d) /\ Whole(d) /\ s \notin Now.stopped
      /\ DOMAIN d.pages \subseteq DOMAIN Now.pages \cup {s}
      /\ Now.spaces \ DOMAIN Now.agentSpaces \subseteq d.spaces
  BY <1>2, <1>4, <1>5, ReadWhole
<1>7. Now' = d
  BY <1>1, <1>6, BecomesNow DEF q, c
<1> HIDE DEF d
<1>8. d.pages = pages' /\ d.spaces = spaces'
  BY <1>7 DEF Now
<1>9. s \notin stopped /\ DOMAIN pages' \subseteq DOMAIN pages \cup {s}
      /\ spaces \ DOMAIN agentSpaces \subseteq spaces'
  BY <1>6, <1>8, NowFields
<1>10. StartsNothing
  BY <1>3, <1>9 DEF StartsNothing
<1>11. SpacesStay
  BY <1>9 DEF SpacesStay
<1>12. asks' \in Nat /\ Whole(Now')
  BY <1>3, <1>6, <1>7
<1> QED BY <1>10, <1>11, <1>12 DEF Good

\* A connection ends.
LEMMA DisconnectGood ==
  ASSUME Whole(Now), asks \in Nat, NEW s \in Sockets, Disconnect(s)
  PROVE  Good
<1> DEFINE e == DeleteTemporarySpaces(Now, made[s])
           d == [e EXCEPT !.made[s] = {}, !.names[s] = {}, !.socket[s] = "closed"]
<1>1. Becomes(d) /\ asks' = asks
  BY DEF Disconnect
<1>2. e = DeleteTemporarySpaces(Now, Now.made[s])
  BY NowFields
<1>3. Rec(e)
  <2>1. Sound(Now, {}) /\ Now.made[s] \in SUBSET Spaces
    BY DEF Whole, Sound, Typed
  <2>2. Sound(e, {})
    BY <1>2, <2>1, DeleteTemporarySpacesSound
  <2> QED BY <2>2 DEF Sound, Typed
<1> HIDE DEF e
<1>4. /\ Rec(d) /\ Same(e, d, {"made", "names", "socket"})
      /\ d.made = [e.made EXCEPT ![s] = {}] /\ d.names = [e.names EXCEPT ![s] = {}]
      /\ d.socket = [e.socket EXCEPT ![s] = "closed"]
  BY <1>3 DEF Rec, Same, Fields
<1> HIDE DEF d
<1>5. Calm(Now, d)
  BY <1>2, <1>4, DisconnectCalm
<1>6. Now' = d
  BY <1>1, <1>4, BecomesNow
<1> QED BY <1>1, <1>5, <1>6, CalmGood

\* A connection is made.
LEMMA ConnectGood ==
  ASSUME Whole(Now), asks \in Nat, NEW s \in Sockets, Connect(s)
  PROVE  Good
<1> DEFINE d == [Now EXCEPT !.socket[s] = "open", !.names[s] = {}]
<1>1. Becomes(d) /\ asks' = asks
  BY DEF Connect
<1>2. /\ Rec(d) /\ Same(Now, d, {"names", "socket"})
      /\ d.names = [Now.names EXCEPT ![s] = {}] /\ d.socket = [Now.socket EXCEPT ![s] = "open"]
  BY NowIsRec DEF Rec, Same, Fields
<1> HIDE DEF d
<1>3. Calm(Now, d)
  BY <1>2, ConnectCalm
<1>4. Now' = d
  BY <1>1, <1>2, BecomesNow
<1> QED BY <1>1, <1>3, <1>4, CalmGood

\* A page answers.
LEMMA AnswerPageGood ==
  ASSUME Whole(Now), asks \in Nat, NEW s \in Sockets, AnswerPage(s)
  PROVE  Good
<1> DEFINE d == Reply([Now EXCEPT !.pages = Without(@, {s})], s)
<1>1. Becomes(d) /\ asks' = asks /\ s \in DOMAIN Now.pages
  BY NowFields DEF AnswerPage
<1>2. Rec(d) /\ Calm(Now, d)
  BY <1>1, AnswerPageCalm
<1> HIDE DEF d
<1>3. Now' = d
  BY <1>1, <1>2, BecomesNow
<1> QED BY <1>1, <1>2, <1>3, CalmGood

\* A page opens a window.
LEMMA AttachWindowGood ==
  ASSUME Whole(Now), asks \in Nat, NEW t, AttachWindow(t)
  PROVE  Good
<1> DEFINE w == NewId(Now, Windows)
           d == [Now EXCEPT !.windows = With(@, w, t), !.used = @ \cup {w}]
<1>1. /\ Becomes(d) /\ asks' = asks /\ t \in DOMAIN Now.attached
      /\ Unused(Now, Windows) # {}
  BY NowFields DEF AttachWindow
<1> HIDE DEF w
<1>2. /\ Rec(d) /\ Same(Now, d, {"windows", "used"}) /\ d.windows = With(Now.windows, w, t)
      /\ d.used = Now.used \cup {w}
  BY NowIsRec DEF Rec, Same, Fields
<1> HIDE DEF d
<1>3. Calm(Now, d)
  BY <1>1, <1>2, AttachWindowCalm DEF w
<1>4. Now' = d
  BY <1>1, <1>2, BecomesNow
<1> QED BY <1>1, <1>3, <1>4, CalmGood

\* Tabs left alone are detached.
LEMMA DetachIdleGood ==
  ASSUME Whole(Now), asks \in Nat, DetachIdle
  PROVE  Good
<1>1. PICK T : Becomes(Detach(Now, T)) /\ asks' = asks
  BY DEF DetachIdle
<1> DEFINE d == Detach(Now, T)
<1>2. LetsGo(Now, d)
  BY DetachLetsGo DEF Whole
<1>3. Calm(Now, d) /\ Rec(d)
  BY <1>2, LetsGoCalm DEF LetsGo
<1> HIDE DEF d
<1>4. Now' = d
  BY <1>1, <1>3, BecomesNow DEF d
<1> QED BY <1>1, <1>3, <1>4, CalmGood

\* A prompt's time is up.
LEMMA GrantTimeoutGood ==
  ASSUME Whole(Now), asks \in Nat, NEW x \in Spaces, GrantTimeout(x)
  PROVE  Good
<1> DEFINE d == Refuse(Now, x, "undecided")
<1>1. Becomes(d) /\ asks' = asks
  BY DEF GrantTimeout
<1>2. Rec(d) /\ Calm(Now, d)
  BY RefuseCalm
<1> HIDE DEF d
<1>3. Now' = d
  BY <1>1, <1>2, BecomesNow
<1> QED BY <1>1, <1>2, <1>3, CalmGood

\* The reader answers a prompt.
LEMMA AnswerGrantGood ==
  ASSUME Whole(Now), asks \in Nat, NEW answer, AnswerGrant(answer)
  PROVE  Good
<1> DEFINE g == Head(Now.grants)
           b == [Now EXCEPT !.granted = @ \cup {g.space}]
<1>1. /\ Now.grants # <<>> /\ asks' = asks
      /\ Becomes(IF answer = "allowed" THEN Allow(b, g) ELSE Refuse(Now, g.space, answer))
  BY NowFields DEF AnswerGrant
<1>2. g.space \in Spaces
  <2>1. Now.grants \in Seq(Prompts)
    BY DEF Whole, Sound, Typed
  <2>2. g \in Prompts
    BY <1>1, <2>1
  <2> QED BY <2>2 DEF Prompts
<1> HIDE DEF g
<1>3. CASE answer # "allowed"
  <2> DEFINE d == Refuse(Now, g.space, answer)
  <2>1. Becomes(d)
    BY <1>1, <1>3
  <2>2. Rec(d) /\ Calm(Now, d)
    BY <1>2, RefuseCalm
  <2> HIDE DEF d
  <2>3. Now' = d
    BY <2>1, <2>2, BecomesNow
  <2> QED BY <1>1, <2>2, <2>3, CalmGood
<1>4. CASE answer = "allowed"
  <2> DEFINE d == Allow(b, g)
  <2>1. Becomes(d)
    BY <1>1, <1>4
  <2>2. Rec(b) /\ Same(Now, b, {"granted"}) /\ b.granted = Now.granted \cup {g.space}
    BY NowIsRec DEF Rec, Same, Fields
  <2> HIDE DEF b
  <2>3. /\ Rec(d) /\ Whole(d)
        /\ \A r \in DOMAIN d.pages : r \in DOMAIN Now.pages \/ r \notin Now.stopped
        /\ \A t \in DOMAIN d.attached :
             \/ t \in DOMAIN Now.attached /\ d.attached[t] = Now.attached[t]
             \/ \E r \in Sockets \ Now.stopped : d.attached[t] = Now.asked[r].name
        /\ Now.spaces \ DOMAIN Now.agentSpaces \subseteq d.spaces
    BY <1>1, <2>2, AllowWhole DEF g
  <2>4. Now' = d
    BY <2>1, <2>3, BecomesNow
  <2> HIDE DEF d
  <2>5. d.pages = pages' /\ d.spaces = spaces' /\ d.attached = attached'
    BY <2>4 DEF Now
  <2>6. /\ \A r \in DOMAIN pages' : r \in DOMAIN pages \/ r \notin stopped
        /\ \A t \in DOMAIN attached' :
             \/ t \in DOMAIN attached /\ attached'[t] = attached[t]
             \/ \E r \in Sockets \ stopped : attached'[t] = asked[r].name
        /\ spaces \ DOMAIN agentSpaces \subseteq spaces'
    BY <2>3, <2>5, NowFields
  <2>7. StartsNothing
    BY <2>6 DEF StartsNothing
  <2>8. SpacesStay
    BY <2>6 DEF SpacesStay
  <2> QED BY <1>1, <2>3, <2>4, <2>7, <2>8 DEF Good
<1> QED BY <1>3, <1>4

\* The switch is turned.
LEMMA SetAllowAgentsGood ==
  ASSUME Whole(Now), asks \in Nat, SetAllowAgents
  PROVE  Good
<1> DEFINE d == IF allowed THEN TurnOff(Now) ELSE [Now EXCEPT !.allowed = TRUE]
<1>1. Becomes(d) /\ asks' = asks
  BY DEF SetAllowAgents, Act
<1>2. Rec(d) /\ Calm(Now, d)
  <2>1. CASE allowed
    <3>1. d = TurnOff(Now)
      BY <2>1
    <3> HIDE DEF d
    <3> QED BY <3>1, TurnOffCalm
  <2>2. CASE ~allowed
    <3>1. Rec(d) /\ Same(Now, d, {"allowed"}) /\ d.allowed = TRUE
      BY <2>2, NowIsRec DEF Rec, Same, Fields
    <3> HIDE DEF d
    <3> QED BY <3>1, TurnOnCalm
  <2> HIDE DEF d
  <2> QED BY <2>1, <2>2
<1> HIDE DEF d
<1>3. Now' = d
  BY <1>1, <1>2, BecomesNow
<1> QED BY <1>1, <1>2, <1>3, CalmGood

\* A grant is taken back.
LEMMA RevokeGrantGood ==
  ASSUME Whole(Now), asks \in Nat, NEW x \in Spaces, RevokeGrant(x)
  PROVE  Good
<1> DEFINE d == Revoke(Now, x)
<1>1. Becomes(d) /\ asks' = asks
  BY DEF RevokeGrant, Act
<1>2. Rec(d) /\ Calm(Now, d)
  BY RevokeCalm
<1> HIDE DEF d
<1>3. Now' = d
  BY <1>1, <1>2, BecomesNow
<1> QED BY <1>1, <1>2, <1>3, CalmGood

\* The reader deletes a Space.
LEMMA ReaderDeletesSpaceGood ==
  ASSUME Whole(Now), asks \in Nat, NEW x, ReaderDeletesSpace(x)
  PROVE  Good
<1> DEFINE d == DeleteSpace(Now, x)
<1>1. Becomes(d) /\ asks' = asks /\ x \in Now.spaces /\ Now.spaces # {x}
  BY NowFields DEF ReaderDeletesSpace, Act
<1>2. /\ Rec(d) /\ Whole(d) /\ d.pages = Now.pages /\ d.attached = Now.attached
      /\ d.spaces = Now.spaces \ {x}
  BY <1>1, ReaderDeletesCalm
<1> HIDE DEF d
<1>3. Now' = d
  BY <1>1, <1>2, BecomesNow
<1>4. d.pages = pages' /\ d.spaces = spaces' /\ d.attached = attached'
  BY <1>3 DEF Now
<1>5. pages' = pages /\ attached' = attached /\ spaces' = spaces \ {x}
  BY <1>2, <1>4, NowFields
<1>6. StartsNothing
  BY <1>5 DEF StartsNothing
<1>7. SpacesStay
  BY <1>5 DEF SpacesStay
<1> QED BY <1>1, <1>2, <1>3, <1>6, <1>7 DEF Good

\* The reader takes a Space over.
LEMMA TakeOverSpaceGood ==
  ASSUME Whole(Now), asks \in Nat, NEW x, TakeOverSpace(x)
  PROVE  Good
<1> DEFINE T == {t \in DOMAIN tabs : tabs[t] = x}
           d == [Now EXCEPT !.agentSpaces = Without(@, {x}), !.temporary = @ \ {x},
                            !.carried = @ \cup T]
<1>1. Becomes(d) /\ asks' = asks /\ x \in DOMAIN Now.agentSpaces
  BY NowFields DEF TakeOverSpace, Act
<1>2. \A t : t \in T <=> t \in DOMAIN Now.tabs /\ Now.tabs[t] = x
  BY NowFields
<1> HIDE DEF T
<1>3. /\ Rec(d) /\ Same(Now, d, {"agentSpaces", "temporary", "carried"})
      /\ d.agentSpaces = Without(Now.agentSpaces, {x}) /\ d.temporary = Now.temporary \ {x}
      /\ d.carried = Now.carried \cup T
  BY NowIsRec DEF Rec, Same, Fields
<1> HIDE DEF d
<1>4. Calm(Now, d)
  BY <1>1, <1>2, <1>3, TakeOverCalm
<1>5. Now' = d
  BY <1>1, <1>3, BecomesNow
<1> QED BY <1>1, <1>4, <1>5, CalmGood

\* An Agent is stopped.
LEMMA StopAgentGood ==
  ASSUME Whole(Now), asks \in Nat, NEW t, StopAgent(t)
  PROVE  Good
<1> DEFINE n == attached[t]
           d == Stop(Now, n)
<1>1. Becomes(d) /\ asks' = asks /\ t \in DOMAIN attached
  BY DEF StopAgent, Act
<1>2. n \in Names
  <2>1. Now.attached \in [DOMAIN Now.attached -> Names]
    BY DEF Whole, Sound, Typed
  <2> QED BY <1>1, <2>1, NowFields
<1> HIDE DEF n
<1>3. Rec(d) /\ Calm(Now, d)
  BY <1>2, StopCalm
<1> HIDE DEF d
<1>4. Now' = d
  BY <1>1, <1>3, BecomesNow
<1> QED BY <1>1, <1>3, <1>4, CalmGood

\* The reader closes a tab.
LEMMA CloseTabGood ==
  ASSUME Whole(Now), asks \in Nat, NEW t, CloseTab(t)
  PROVE  Good
<1> DEFINE d == [Now EXCEPT !.tabs = Without(@, {t})]
<1>1. Becomes(d) /\ asks' = asks
  BY DEF CloseTab, Act
<1>2. Rec(d) /\ Calm(Now, d)
  BY CloseTabCalm
<1> HIDE DEF d
<1>3. Now' = d
  BY <1>1, <1>2, BecomesNow
<1> QED BY <1>1, <1>2, <1>3, CalmGood

\* The reader moves a tab.
LEMMA MoveTabGood ==
  ASSUME Whole(Now), asks \in Nat, NEW t, NEW x, MoveTab(t, x)
  PROVE  Good
<1> DEFINE d == [Now EXCEPT !.tabs[t] = x, !.carried = @ \cup {t}]
<1>1. Becomes(d) /\ asks' = asks /\ t \in DOMAIN Now.tabs /\ x \in Now.spaces
  BY NowFields DEF MoveTab, Act
<1>2. Rec(d) /\ Calm(Now, d)
  BY <1>1, MoveTabCalm
<1> HIDE DEF d
<1>3. Now' = d
  BY <1>1, <1>2, BecomesNow
<1> QED BY <1>1, <1>2, <1>3, CalmGood

\* A window is closed.
LEMMA WindowClosedGood ==
  ASSUME Whole(Now), asks \in Nat, NEW w, WindowClosed(w)
  PROVE  Good
<1> DEFINE d == ForgetWindows(Now, {w})
<1>1. Becomes(d) /\ asks' = asks
  BY DEF WindowClosed, Act
<1>2. LetsGo(Now, d)
  BY ForgetWindowsLetsGo DEF Whole
<1> HIDE DEF d
<1>3. Calm(Now, d) /\ Rec(d)
  BY <1>2, LetsGoCalm DEF LetsGo
<1>4. Now' = d
  BY <1>1, <1>3, BecomesNow
<1> QED BY <1>1, <1>3, <1>4, CalmGood

\* The program starts again.
LEMMA RestartGood ==
  ASSUME Whole(Now), asks \in Nat, Restart
  PROVE  Good
<1> DEFINE unused == [n \in Names |-> Fresh]
           none == [s \in Sockets |-> {}]
           open == [s \in Sockets |-> "open"]
           idle == [s \in Sockets |-> NoRequest]
           b == [Now EXCEPT !.opened = {}, !.attached = <<>>, !.windows = <<>>, !.conn = unused,
                            !.grants = <<>>, !.pages = <<>>, !.made = none, !.names = none,
                            !.socket = open, !.asked = idle, !.carried = {}, !.stopped = {}]
           d == DeleteTemporarySpaces(b, temporary)
<1>1. Becomes(d) /\ asks' = asks /\ d = DeleteTemporarySpaces(b, Now.temporary)
  BY NowFields DEF Restart, Act
<1> HIDE DEF d, unused, none, open, idle
<1>2. Rec(b)
  BY NowIsRec DEF Rec, Fields
<1>3. Same(Now, b, {"opened", "attached", "windows", "conn", "grants", "pages", "made", "names",
                    "socket", "asked", "carried", "stopped"})
  BY NowIsRec DEF Rec, Same, Fields
<1>4. b.opened = {} /\ b.attached = <<>> /\ b.windows = <<>> /\ b.conn = unused
  BY NowIsRec DEF Rec, Fields
<1>5. b.grants = <<>> /\ b.pages = <<>> /\ b.made = none /\ b.names = none
  BY NowIsRec DEF Rec, Fields
<1>6. b.socket = open /\ b.asked = idle /\ b.carried = {} /\ b.stopped = {}
  BY NowIsRec DEF Rec, Fields
<1> HIDE DEF b
<1>7. Rec(d) /\ Calm(Now, d)
  BY <1>1, <1>2, <1>3, <1>4, <1>5, <1>6, RestartCalm DEF unused, none, open, idle
<1>8. Now' = d
  BY <1>1, <1>7, BecomesNow
<1> QED BY <1>1, <1>7, <1>8, CalmGood

\* A step that changes nothing is good.
LEMMA StutterGood ==
  ASSUME Whole(Now), asks \in Nat, UNCHANGED vars
  PROVE  Good
<1>1. Now' = Now /\ asks' = asks
  BY DEF vars, Now
<1>2. pages' = pages /\ attached' = attached /\ spaces' = spaces
  BY DEF vars
<1>3. StartsNothing
  BY <1>2 DEF StartsNothing
<1>4. SpacesStay
  BY <1>2 DEF SpacesStay
<1> QED BY <1>1, <1>3, <1>4 DEF Good

\* Every step is good.
LEMMA StepGood ==
  ASSUME Whole(Now), asks \in Nat, [Next]_vars
  PROVE  Good
<1>1. ASSUME NEW s \in Sockets, Read(s) \/ Disconnect(s) \/ Connect(s) \/ AnswerPage(s)
      PROVE  Good
  BY <1>1, ReadGood, DisconnectGood, ConnectGood, AnswerPageGood
<1>2. ASSUME NEW t \in Tabs, AttachWindow(t)
      PROVE  Good
  BY <1>2, AttachWindowGood
<1>3. ASSUME NEW x \in Spaces, GrantTimeout(x)
      PROVE  Good
  BY <1>3, GrantTimeoutGood
<1>4. CASE DetachIdle
  BY <1>4, DetachIdleGood
<1>5. CASE Reader
  <2>1. ASSUME NEW answer, AnswerGrant(answer)
        PROVE  Good
    BY <2>1, AnswerGrantGood
  <2>2. CASE SetAllowAgents
    BY <2>2, SetAllowAgentsGood
  <2>3. ASSUME NEW x \in Spaces, RevokeGrant(x) \/ ReaderDeletesSpace(x) \/ TakeOverSpace(x)
        PROVE  Good
    BY <2>3, RevokeGrantGood, ReaderDeletesSpaceGood, TakeOverSpaceGood
  <2>4. ASSUME NEW t \in Tabs, StopAgent(t) \/ CloseTab(t)
        PROVE  Good
    BY <2>4, StopAgentGood, CloseTabGood
  <2>5. ASSUME NEW t \in Tabs, NEW x \in Spaces, MoveTab(t, x)
        PROVE  Good
    BY <2>5, MoveTabGood
  <2>6. ASSUME NEW w \in Windows, WindowClosed(w)
        PROVE  Good
    BY <2>6, WindowClosedGood
  <2> QED BY <1>5, <2>1, <2>2, <2>3, <2>4, <2>5, <2>6 DEF Reader
<1>6. CASE Restart
  BY <1>6, RestartGood
<1>7. CASE UNCHANGED vars
  BY <1>7, StutterGood
<1> QED BY <1>1, <1>2, <1>3, <1>4, <1>5, <1>6, <1>7 DEF Next

-----------------------------------------------------------------------------
(* The first state                                                         *)

\* A first start, or the store as an earlier session left it, is whole.
LEMMA InitWhole ==
  ASSUME Init
  PROVE  Whole(Now) /\ asks \in Nat
<1>1. /\ allowed = TRUE /\ temporary = {} /\ opened = {} /\ grants = <<>> /\ carried = {}
      /\ stopped = {} /\ asks = 0 /\ attached = <<>> /\ windows = <<>> /\ pages = <<>>
      /\ spaces \in {{Home}, {Home, Kept}} /\ used = spaces \cup DOMAIN tabs
      /\ granted = IF Kept \in spaces THEN {Home} ELSE {}
  BY DEF Init
<1>2. Home \in spaces /\ spaces \subseteq Spaces
  BY <1>1, AgentAssumption
<1>3. /\ DOMAIN agentSpaces = spaces \ {Home} /\ agentSpaces \in [DOMAIN agentSpaces -> Names]
  <2>1. agentSpaces = [x \in spaces \ {Home} |-> Keeper]
    BY DEF Init
  <2> QED BY <2>1, AgentAssumption
<1>4. granted \subseteq spaces \ DOMAIN agentSpaces
  BY <1>1, <1>2, <1>3
<1>5. tabs \in [DOMAIN tabs -> spaces] /\ DOMAIN tabs \subseteq Tabs
  <2> DEFINE D == {HomeTab} \cup (IF Kept \in spaces THEN {KeptTab} ELSE {})
  <2>1. tabs = [t \in D |-> IF t = HomeTab THEN Home ELSE Kept]
    BY DEF Init
  <2>2. D \subseteq Tabs /\ \A t \in D : t = HomeTab \/ Kept \in spaces
    BY AgentAssumption
  <2> HIDE DEF D
  <2> QED BY <1>2, <2>1, <2>2
<1>6. conn \in [Names -> Connections]
  <2>1. Fresh \in Connections
    BY DEF Fresh, Connections
  <2>2. conn = [n \in Names |-> Fresh]
    BY DEF Init
  <2> QED BY <2>1, <2>2
<1>7. /\ made \in [Sockets -> SUBSET Spaces] /\ names \in [Sockets -> SUBSET Names]
      /\ socket \in [Sockets -> {"open", "closing", "closed"}]
  BY DEF Init
<1>8. asked \in [Sockets -> Requests] /\ \A s \in Sockets : asked[s] = NoRequest
  BY DEF Init, Requests
<1>9. /\ DOMAIN attached = {} /\ DOMAIN windows = {} /\ DOMAIN pages = {} /\ DOMAIN grants = {}
      /\ attached \in [{} -> Names] /\ windows \in [{} -> Tabs]
      /\ pages \in [{} -> used \cap (Tabs \cup Windows)] /\ grants \in Seq(Prompts)
  BY <1>1
<1>10. Typed(Now)
  <2>1. spaces \subseteq used \cap Spaces /\ spaces # {} /\ DOMAIN tabs \subseteq used \cap Tabs
    BY <1>1, <1>2, <1>5
  <2> QED BY <1>1, <1>3, <1>4, <1>5, <1>6, <1>7, <1>8, <1>9, <2>1, NowFields, NowIsRec DEF Typed
<1>11. /\ DOMAIN Now.pages = {} /\ DOMAIN Now.attached = {} /\ DOMAIN Now.windows = {}
       /\ DOMAIN Now.grants = {} /\ \A s \in Sockets : Now.asked[s] = NoRequest
       /\ Now.stopped = {} /\ Now.temporary = {} /\ Now.allowed
  BY <1>1, <1>8, <1>9, NowFields
<1>12. Reaches(Now) /\ Prompting(Now) /\ Waiting(Now)
  BY <1>11 DEF Reaches, Prompting, Waiting
<1>13. Pending(Now, {}) /\ Stops(Now)
  BY <1>11 DEF Pending, Stops
<1>14. Spare(Now) /\ Lasting(Now)
  BY <1>11 DEF Spare, Lasting
<1>15. Whole(Now)
  BY <1>10, <1>11, <1>12, <1>13, <1>14 DEF Whole, Sound
<1> QED BY <1>1, <1>15

-----------------------------------------------------------------------------
(* What holds of every run                                                 *)

\* What holds of every state.
Always == Whole(Now) /\ asks \in Nat

\* The invariant holds, and every step is good.
LEMMA AlwaysHolds == Spec => [](Always) /\ [][Good]_vars
<1>1. Init => Always
  BY InitWhole DEF Always
<1>2. Always /\ [Next]_vars => Always' /\ [Good]_vars
  <2> SUFFICES ASSUME Always, [Next]_vars
               PROVE  Always' /\ Good
    OBVIOUS
  <2>1. Good
    BY StepGood DEF Always
  <2>2. Whole(Now') /\ asks' \in Nat
    BY <2>1 DEF Good
  <2>3. Always'
    BY <2>2 DEF Always
  <2> QED BY <2>1, <2>3
<1> QED BY <1>1, <1>2, PTL DEF Spec

\* What every state is, in the variables, is of its kind.
LEMMA AlwaysTyped ==
  ASSUME Always
  PROVE  TypeOK
<1>1. Typed(Now)
  BY DEF Always, Whole, Sound
<1>2. /\ allowed \in BOOLEAN
      /\ spaces \subseteq used \cap Spaces /\ spaces # {}
      /\ agentSpaces \in [DOMAIN agentSpaces -> Names] /\ DOMAIN agentSpaces \subseteq spaces
      /\ temporary \subseteq DOMAIN agentSpaces /\ granted \subseteq spaces \ DOMAIN agentSpaces
  BY <1>1, NowFields DEF Typed
<1>3. /\ tabs \in [DOMAIN tabs -> spaces] /\ DOMAIN tabs \subseteq used \cap Tabs
      /\ opened \subseteq used \cap Tabs
      /\ attached \in [DOMAIN attached -> Names] /\ DOMAIN attached \subseteq used \cap Tabs
      /\ windows \in [DOMAIN windows -> Tabs] /\ DOMAIN windows \subseteq used \cap Windows
  BY <1>1, NowFields DEF Typed
<1>4. /\ conn \in [Names -> Connections] /\ grants \in Seq(Prompts)
      /\ pages \in [DOMAIN pages -> used \cap (Tabs \cup Windows)] /\ DOMAIN pages \subseteq Sockets
      /\ made \in [Sockets -> SUBSET Spaces] /\ names \in [Sockets -> SUBSET Names]
      /\ socket \in [Sockets -> {"open", "closing", "closed"}]
      /\ asked \in [Sockets -> Requests]
      /\ carried \subseteq Tabs /\ stopped \subseteq Sockets
  BY <1>1, NowFields DEF Typed
<1> QED BY <1>2, <1>3, <1>4 DEF TypeOK

\* In every state each request is held where it should be.
LEMMA AlwaysHeld ==
  ASSUME Always
  PROVE  RequestsAreHeld
<1>1. /\ Typed(Now) /\ Prompting(Now) /\ Waiting(Now) /\ Pending(Now, {})
      /\ (allowed \/ grants = <<>>)
  BY NowFields DEF Always, Whole, Sound
<1>2. \A s : WaitsOn(Now, s) =
        {i \in DOMAIN grants : \E w \in ToSet(grants[i].waiters) : w.socket = s}
  BY NowFields DEF WaitsOn, ToSet
<1>3. \A s : Held(s) = Cardinality(WaitsOn(Now, s)) + (IF s \in DOMAIN pages THEN 1 ELSE 0)
  BY <1>2 DEF Held
<1>4. ASSUME NEW s \in Sockets, NEW i \in WaitsOn(Now, s)
      PROVE  /\ asked[s] # NoRequest /\ s \notin DOMAIN pages /\ WaitsOn(Now, s) = {i}
  <2>1. i \in DOMAIN Now.grants
    BY <1>4 DEF WaitsOn
  <2>2. PICK k \in DOMAIN Now.grants[i].waiters : Now.grants[i].waiters[k].socket = s
    BY <1>4 DEF WaitsOn
  <2>3. WaitsWell(Now, i, k)
    BY <1>1, <2>1 DEF Waiting
  <2>4. Now.asked[s].verb \in PageVerbs \cup {"open"} /\ s \notin DOMAIN Now.pages
        /\ \A j \in WaitsOn(Now, s) : i = j
    BY <2>2, <2>3 DEF WaitsWell
  <2>5. Now.asked[s] # NoRequest
    BY <2>4 DEF NoRequest, PageVerbs
  <2> QED BY <1>4, <2>4, <2>5, NowFields
<1>5. ASSUME NEW s \in Sockets
      PROVE  Held(s) = IF asked[s] = NoRequest THEN 0 ELSE 1
  <2>1. CASE WaitsOn(Now, s) = {}
    <3>1. Cardinality(WaitsOn(Now, s)) = 0
      BY <2>1, FS_EmptySet
    <3>2. s \in DOMAIN pages <=> asked[s] # NoRequest
      BY <1>1, <2>1, NowFields DEF Pending
    <3> QED BY <1>3, <3>1, <3>2
  <2>2. CASE WaitsOn(Now, s) # {}
    <3>1. PICK i : i \in WaitsOn(Now, s)
      BY <2>2
    <3>2. asked[s] # NoRequest /\ s \notin DOMAIN pages /\ WaitsOn(Now, s) = {i}
      BY <1>4, <3>1
    <3>3. Cardinality(WaitsOn(Now, s)) = 1
      BY <3>2, FS_Singleton
    <3> QED BY <1>3, <3>2, <3>3
  <2> QED BY <2>1, <2>2
<1>6. ASSUME NEW i \in DOMAIN grants
      PROVE  /\ allowed /\ grants[i].space \in spaces \ (granted \cup DOMAIN agentSpaces)
             /\ grants[i].waiters # <<>>
             /\ \A j \in DOMAIN grants : grants[j].space = grants[i].space => i = j
             /\ \A w \in ToSet(grants[i].waiters) :
                  grants[i].space \notin conn[asked[w.socket].name].denied
  <2>1. allowed
    BY <1>1
  <2>2. /\ grants[i].space \in spaces \ (granted \cup DOMAIN agentSpaces)
        /\ grants[i].waiters # <<>>
        /\ \A j \in DOMAIN grants : grants[j].space = grants[i].space => i = j
    BY <1>1, NowFields DEF Prompting
  <2>3. ASSUME NEW w \in ToSet(grants[i].waiters)
        PROVE  grants[i].space \notin conn[asked[w.socket].name].denied
    <3>1. PICK k \in DOMAIN grants[i].waiters : w = grants[i].waiters[k]
      BY DEF ToSet
    <3>2. WaitsWell(Now, i, k)
      BY <1>1, NowFields DEF Waiting
    <3> QED BY <3>1, <3>2, NowFields DEF WaitsWell
  <2> QED BY <2>1, <2>2, <2>3
<1> QED BY <1>5, <1>6 DEF RequestsAreHeld

\* In every state nothing is worked in that is out of reach.
LEMMA AlwaysInReach ==
  ASSUME Always
  PROVE  NothingOutOfReach
<1>1. Reaches(Now)
  BY DEF Always, Whole, Sound
<1>2. \A t \in DOMAIN attached : t \in DOMAIN tabs \ carried => Usable(Now, tabs[t])
  BY <1>1, NowFields DEF Reaches
<1>3. \A s \in DOMAIN pages :
        OpenerOf(Now, pages[s]) \in DOMAIN tabs \ carried
          => Usable(Now, tabs[OpenerOf(Now, pages[s])])
  BY <1>1, NowFields DEF Reaches
<1>4. Range(windows) \subseteq DOMAIN attached
  BY <1>1, NowFields DEF Reaches, Range
<1> QED BY <1>2, <1>3, <1>4 DEF NothingOutOfReach

\* Every variable of Agent control is of its kind (AgentControl.h).
THEOREM TypeCorrect == Spec => []TypeOK
<1>1. Always => TypeOK
  BY AlwaysTyped
<1> QED BY <1>1, AlwaysHolds, PTL

\* A request that waits is held in exactly one place, whatever is answered,
\* refused, revoked, stopped or switched off around it, and what the reader is
\* asked is a question that is still open (AgentControl.cpp askGrant,
\* finishGrant, answerPage, dropGoneGrants).
THEOREM RequestsHeld == Spec => []RequestsAreHeld
<1>1. Always => RequestsAreHeld
  BY AlwaysHeld
<1> QED BY <1>1, AlwaysHolds, PTL

\* No page is worked in, and no tab or window kept as an Agent's, that Agents
\* may not reach (AgentControl.cpp revokeGrant, apply, stopAgent, detach).
THEOREM InReach == Spec => []NothingOutOfReach
<1>1. Always => NothingOutOfReach
  BY AlwaysInReach
<1> QED BY <1>1, AlwaysHolds, PTL

\* A temporary Space has a connection that is not closed (AgentControl.cpp
\* connectionClosed, BrowserController.cpp deleteTemporarySpaces).
THEOREM TemporaryGo == Spec => []TemporariesGo
<1>1. ASSUME Always
      PROVE  TemporariesGo
  <2>1. Lasting(Now)
    BY <1>1 DEF Always, Whole
  <2> QED BY <2>1, NowFields DEF Lasting, TemporariesGo
<1>2. Always => TemporariesGo
  BY <1>1
<1> QED BY <1>2, AlwaysHolds, PTL

\* The reader's own Spaces go only when the reader deletes them
\* (BrowserController.cpp deleteTemporarySpace, AgentControl.cpp deleteSpace).
THEOREM SpacesOfTheReader == Spec => ReadersSpacesStay
<1>1. ASSUME [Good]_vars
      PROVE  [\A x \in spaces \ DOMAIN agentSpaces : x \in spaces' \/ ReaderDeletesSpace(x)]_vars
  BY <1>1 DEF Good, SpacesStay
<1> QED BY <1>1, AlwaysHolds, PTL DEF ReadersSpacesStay

\* What the reader stopped starts nothing afterwards (AgentControl.cpp
\* stopAgent, finishGrant).
THEOREM StoppedIsStopped == Spec => StoppedStartsNothing
<1>1. ASSUME [Good]_vars
      PROVE  [\A s \in stopped :
                LET n == asked[s].name
                    under(f) == {t \in DOMAIN f : f[t] = n}
                IN /\ s \in DOMAIN pages' => s \in DOMAIN pages
                   /\ asks' = asks =>
                        \/ under(attached') \subseteq under(attached)
                        \/ \E r \in Sockets \ stopped : asked[r].name = n]_vars
  BY <1>1 DEF Good, StartsNothing
<1> QED BY <1>1, AlwaysHolds, PTL DEF StoppedStartsNothing
=============================================================================
