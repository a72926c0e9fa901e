----------------------------- MODULE AgentControl -----------------------------
(***************************************************************************)
(* What Agents ask over the socket and what the reader allows them, as     *)
(* src/core/AgentControl.cpp decides it: page requests that wait for a     *)
(* page, requests that wait for the reader's answer about a Space, Agent   *)
(* tabs and their windows, Stop, Revoke, Allow agents, and the temporary   *)
(* Agent Spaces that last as long as a connection (BrowserController.cpp,  *)
(* ControlSocket.cpp).  All of it runs on the interface thread, so a       *)
(* handler is one step; what interleaves is the Agents, the pages, the     *)
(* reader and the timers.                                                  *)
(*                                                                         *)
(* A handler calls others that change the same state, so the state is also *)
(* a record, Now, and a handler an operator from such a record to the one  *)
(* it leaves behind.                                                       *)
(***************************************************************************)
EXTENDS Integers, Sequences, FiniteSets, SequencesExt, Functions

CONSTANTS
  Names,     \* the names connections give themselves
  Sockets,   \* socket connections
  Spaces,    \* ids of Spaces
  Tabs,      \* ids of tabs
  Windows,   \* ids of Auxiliary windows
  Home,      \* the reader's Space of the first start
  HomeTab,   \* its tab
  Kept,      \* an Agent Space an earlier session may have left
  KeptTab,   \* its tab
  Keeper,    \* who made it
  Carries,   \* the names used on each socket
  None,
  MaxAsks,   \* bound: requests read from the sockets
  MaxActs    \* bound: acts of the reader other than answers, and restarts

ASSUME AgentAssumption ==
  /\ Home \in Spaces /\ HomeTab \in Tabs /\ Carries \in [Sockets -> SUBSET Names]
  /\ Kept \in Spaces \ {Home} /\ KeptTab \in Tabs \ {HomeTab} /\ Keeper \in Names
  /\ None \notin Names \cup Spaces \cup Tabs \cup Windows
  /\ IsFiniteSet(Spaces) /\ Spaces \cap (Tabs \cup Windows) = {} /\ Tabs \cap Windows = {}

VARIABLES
  allowed,      \* m_allowAgents
  spaces,       \* the Spaces of the list
  agentSpaces,  \* m_agentSpaces: who made each Agent Space
  temporary,    \* m_temporarySpaceIds
  granted,      \* m_spaceGrants
  tabs,         \* the Space of each tab
  used,         \* ids given out; none is given twice
  opened,       \* m_openedTabIds
  attached,     \* m_attached and m_tabConnections: each Agent tab's Agent
  windows,      \* m_windows: the tab that opened each
  conn,         \* m_connections, by name
  grants,       \* m_pendingGrants: the prompts, the one on show first
  pages,        \* m_pendingPages: what each socket's page request is about
  made,         \* m_temporarySpaces of each socket
  names,        \* m_socketNames of each socket
  socket,       \* the state of each socket
  asked,        \* the request each socket waits for an answer to
  carried,      \* history: tabs the reader took out of reach while in use
  stopped,      \* history: sockets whose request the reader stopped
  asks, acts

vars == <<allowed, spaces, agentSpaces, temporary, granted, tabs, used, opened, attached, windows,
          conn, grants, pages, made, names, socket, asked, carried, stopped, asks, acts>>

----------------------------------------------------------------------------
NoRequest == [name |-> None, verb |-> "none", about |-> None]

\* A connection nobody has used.
Fresh == [tab |-> None, space |-> None, revoked |-> FALSE, denied |-> {}, stops |-> 0]

PageVerbs == {"page", "console"}  \* look, read, do, shot and eval; console
Gated == PageVerbs \cup {"space new", "space new --temporary", "space delete"}

\* What a request of each verb may name: "open" loads a tab, or opens one when
\* there is none to load; "open --new" opens one in a Space.
Abouts(verb) ==
  CASE verb \in PageVerbs \cup {"close"} -> (used \cap (Tabs \cup Windows)) \cup {None}
    [] verb = "open" -> (used \cap Tabs) \cup {None}
    [] verb = "open --new" -> spaces \cup {None}
    [] verb = "space delete" -> spaces
    [] OTHER -> {None}

Verbs == Gated \cup {"open", "open --new", "close", "list"}

Now ==
  [allowed |-> allowed, spaces |-> spaces, agentSpaces |-> agentSpaces, temporary |-> temporary,
   granted |-> granted, tabs |-> tabs, used |-> used, opened |-> opened, attached |-> attached,
   windows |-> windows, conn |-> conn, grants |-> grants, pages |-> pages, made |-> made,
   names |-> names, socket |-> socket, asked |-> asked, carried |-> carried, stopped |-> stopped]

Becomes(c) ==
  /\ allowed' = c.allowed /\ spaces' = c.spaces /\ agentSpaces' = c.agentSpaces
  /\ temporary' = c.temporary /\ granted' = c.granted /\ tabs' = c.tabs /\ used' = c.used
  /\ opened' = c.opened /\ attached' = c.attached /\ windows' = c.windows /\ conn' = c.conn
  /\ grants' = c.grants /\ pages' = c.pages /\ made' = c.made /\ names' = c.names
  /\ socket' = c.socket /\ asked' = c.asked /\ carried' = c.carried /\ stopped' = c.stopped

Without(f, S) == Restrict(f, DOMAIN f \ S)
With(f, x, y) == [z \in DOMAIN f \cup {x} |-> IF z = x THEN y ELSE f[z]]
Unused(c, S) == S \ c.used
NewId(c, S) == CHOOSE x \in Unused(c, S) : TRUE

----------------------------------------------------------------------------
\* What an Agent may reach.

Usable(c, x) == c.allowed /\ x \in DOMAIN c.agentSpaces \cup c.granted

\* The tab a target is the page of.
OpenerOf(c, target) ==
  IF target \notin Windows THEN target
  ELSE IF target \in DOMAIN c.windows THEN c.windows[target] ELSE None

MayRead(c, t) == t \in DOMAIN c.tabs /\ Usable(c, c.tabs[t])
MayLoad(c, t) == t \in DOMAIN c.tabs /\ (t \in c.opened \/ Usable(c, c.tabs[t]))
MayClose(c, t) ==
  /\ t \in DOMAIN c.tabs
  /\ t \in c.opened \/ (c.allowed /\ c.tabs[t] \in DOMAIN c.agentSpaces)

TargetId(c, q) == IF q.about = None THEN c.conn[q.name].tab ELSE q.about

\* The tab "open" loads, or None when it opens one.
TabToLoad(c, q) ==
  IF q.verb # "open" \/ TargetId(c, q) \in Windows THEN None ELSE TargetId(c, q)

\* The Space a request has to be let into first.
SpaceNeedingGrant(c, q) ==
  LET t == IF q.verb = "open" THEN TabToLoad(c, q)
           ELSE IF q.verb \in PageVerbs THEN OpenerOf(c, TargetId(c, q)) ELSE None
  IN IF /\ c.allowed /\ t \in DOMAIN c.tabs
        /\ ~(q.verb = "open" /\ t \in c.opened) /\ ~Usable(c, c.tabs[t])
     THEN c.tabs[t] ELSE None

----------------------------------------------------------------------------
\* The steps handlers are made of.

Reply(c, s) == [c EXCEPT !.asked[s] = NoRequest, !.stopped = @ \ {s}]
ReplyAll(c, S) ==
  [c EXCEPT !.asked = [s \in Sockets |-> IF s \in S THEN NoRequest ELSE @[s]],
            !.stopped = @ \ S]

\* These connections are no longer anywhere; those that are in one of the tabs T.
LeaveTabs(c, N) ==
  [c EXCEPT !.conn = [n \in Names |-> IF n \in N THEN [@[n] EXCEPT !.tab = None] ELSE @[n]]]

NamesAt(c, T) == {n \in Names : c.conn[n].tab \in T}

ForgetWindows(c, W) ==
  [LeaveTabs(c, NamesAt(c, W)) EXCEPT !.windows = Without(@, W)]

\* These tabs are nobody's, and their windows go back to the reader.
Detach(c, T) ==
  LET opens == {w \in DOMAIN c.windows : c.windows[w] \in T}
  IN [ForgetWindows(c, opens) EXCEPT !.attached = Without(@, T)]

Attach(c, t, n) == [c EXCEPT !.attached = With(@, t, n), !.carried = @ \ {t}]

\* The connection goes to the target, whose page belongs to tab t.
GoTo(c, n, target, t) == [c EXCEPT !.conn[n].tab = target, !.conn[n].space = c.tabs[t]]

\* A tab closed since is no longer current; one the reader moved takes the
\* connection's Space with it.
ResolveCurrentTab(c, n) ==
  LET t == c.conn[n].tab
  IN IF t = None \/ t \in DOMAIN c.windows THEN c
     ELSE IF t \in DOMAIN c.tabs THEN [c EXCEPT !.conn[n].space = c.tabs[t]]
     ELSE Detach([c EXCEPT !.conn[n].tab = None], {t})

\* The prompt for a Space, if there is one, and the prompts without it.
Prompted(prompts, x) == {i \in DOMAIN prompts : prompts[i].space = x}
Unprompted(prompts, x) ==
  LET here == Prompted(prompts, x)
  IN IF here = {} THEN prompts
     ELSE RemoveAt(prompts, CHOOSE i \in here : \A j \in here : i <= j)

\* The prompt for Space x ends with an answer that carries nothing out.  A
\* connection that was stopped since it asked is told so instead.
Refuse(c, x, answer) ==
  LET waiters == UNION {ToSet(c.grants[i].waiters) : i \in Prompted(c.grants, x)}
      denied == {c.asked[w.socket].name :
                   w \in {v \in waiters : c.conn[c.asked[v.socket].name].stops = v.stops}}
  IN ReplyAll(
       [c EXCEPT
          !.grants = Unprompted(@, x),
          !.conn = IF answer # "denied" THEN c.conn
                   ELSE [n \in Names |-> IF n \in denied
                                         THEN [c.conn[n] EXCEPT !.denied = @ \cup {x}]
                                         ELSE c.conn[n]]],
       {w.socket : w \in waiters})

\* MUTANT of DeleteSpace: the grant stays in the store.
DeleteSpaceKeepsGrant(c, x) ==
  IF c.spaces = {x} THEN c
  ELSE Refuse([c EXCEPT !.spaces = @ \ {x}, !.temporary = @ \ {x},
                        !.agentSpaces = Without(@, {x}),
                        !.tabs = Without(@, {t \in DOMAIN c.tabs : c.tabs[t] = x})],
              x, "gone")

\* A Space goes with its tabs, its label, its grant and its prompt; the last
\* one stays.
DeleteSpace(c, x) ==
  IF c.spaces = {x} THEN c
  ELSE Refuse([c EXCEPT !.spaces = @ \ {x}, !.temporary = @ \ {x}, !.granted = @ \ {x},
                        !.agentSpaces = Without(@, {x}),
                        !.tabs = Without(@, {t \in DOMAIN c.tabs : c.tabs[t] = x})],
              x, "gone")

\* MUTANT of DeleteTemporarySpace: whoever made it takes it along.
DeleteMadeSpace(c, x) == IF x \in c.spaces THEN DeleteSpace(c, x) ELSE c

\* Only while it is temporary; a window always has a Space.
DeleteTemporarySpace(c, x) ==
  IF x \notin c.temporary \cap c.spaces THEN c
  ELSE IF c.spaces # {x} THEN DeleteSpace(c, x)
  ELSE LET personal == NewId(c, Spaces)
       IN DeleteSpace([c EXCEPT !.spaces = @ \cup {personal}, !.used = @ \cup {personal}], x)

\* These Spaces one after another, in an order nobody sees.
DeleteTemporarySpaces(c, S) ==
  LET order == SetToSeq(S)
      left[i \in 0 .. Len(order)] ==
        IF i = 0 THEN c ELSE DeleteTemporarySpace(left[i - 1], order[i])
  IN left[Len(order)]

AskGrant(c, s, x) ==
  LET waiter == [socket |-> s, stops |-> c.conn[c.asked[s].name].stops]
      here == Prompted(c.grants, x)
  IN IF here # {}
     THEN [c EXCEPT !.grants =
             [i \in DOMAIN @ |-> IF i \in here
                                 THEN [c.grants[i] EXCEPT !.waiters = Append(@, waiter)]
                                 ELSE @[i]]]
     ELSE [c EXCEPT !.grants = Append(@, [space |-> x, waiters |-> <<waiter>>])]

----------------------------------------------------------------------------
\* The verbs.  Each answers socket s, or leaves it waiting.

AskPage(c, s, q) ==
  LET target == TargetId(c, q)  t == OpenerOf(c, target)
  IN IF ~MayRead(c, t) THEN Reply(c, s)
     ELSE [Attach(GoTo(c, q.name, target, t), t, q.name) EXCEPT !.pages = With(@, s, target)]

ReadConsole(c, s, q) ==
  LET target == TargetId(c, q)  t == OpenerOf(c, target)
  IN IF ~MayRead(c, t) THEN Reply(c, s)
     ELSE Reply(Attach(GoTo(c, q.name, target, t), t, q.name), s)

Load(c, s, q, t) ==
  IF ~MayLoad(c, t) THEN Reply(c, s)
  ELSE LET there == GoTo(c, q.name, t, t)
       IN Reply(IF MayRead(c, t) THEN Attach(there, t, q.name) ELSE there, s)

\* The Space a request without one is about; the reader keeps the first on show.
DefaultSpace(c, n) ==
  IF c.conn[n].space = None THEN CHOOSE x \in c.spaces : Home \in c.spaces => x = Home
  ELSE c.conn[n].space

OpenNew(c, s, q) ==
  LET x == IF q.verb = "open" \/ q.about = None THEN DefaultSpace(c, q.name) ELSE q.about
      t == NewId(c, Tabs)
      there == GoTo([c EXCEPT !.tabs = With(@, t, x), !.used = @ \cup {t},
                              !.opened = @ \cup {t}], q.name, t, t)
  IN IF x \notin c.spaces \/ Unused(c, Tabs) = {} THEN Reply(c, s)
     ELSE Reply(IF Usable(c, x) THEN Attach(there, t, q.name) ELSE there, s)

Open(c, s, q) == IF TabToLoad(c, q) = None THEN OpenNew(c, s, q) ELSE Load(c, s, q, TabToLoad(c, q))

Close(c, s, q) ==
  LET t == TargetId(c, q)
  IN IF t \in DOMAIN c.windows THEN Reply(ForgetWindows(c, {t}), s)
     ELSE IF ~MayClose(c, t) THEN Reply(c, s)
     ELSE LET closed == [c EXCEPT !.tabs = Without(@, {t}), !.opened = @ \ {t}]
          IN Reply(LeaveTabs(Detach(closed, {t}), NamesAt(c, {t})), s)

\* One id is kept for the Space a window may need (DeleteTemporarySpace).
CreateSpace(c, s, q) ==
  LET x == NewId(c, Spaces)  brief == q.verb = "space new --temporary"
  IN IF Cardinality(Unused(c, Spaces)) < 2 THEN Reply(c, s)
     ELSE Reply([c EXCEPT !.spaces = @ \cup {x}, !.used = @ \cup {x},
                          !.agentSpaces = With(@, x, q.name),
                          !.temporary = IF brief THEN @ \cup {x} ELSE @,
                          !.made[s] = IF brief THEN @ \cup {x} ELSE @,
                          !.conn[q.name].space = x, !.conn[q.name].tab = None], s)

DeleteAgentSpace(c, s, q) ==
  IF q.about \notin DOMAIN c.agentSpaces THEN Reply(c, s)
  ELSE IF c.agentSpaces[q.about] # q.name \/ c.spaces = {q.about} THEN Reply(c, s)
  ELSE Reply([DeleteSpace(c, q.about) EXCEPT
                !.conn[q.name].space = IF @ = q.about THEN None ELSE @], s)

Answer(c, s, q) ==
  CASE q.verb = "page" -> AskPage(c, s, q)
    [] q.verb = "console" -> ReadConsole(c, s, q)
    [] q.verb \in {"open", "open --new"} -> Open(c, s, q)
    [] q.verb = "close" -> Close(c, s, q)
    [] q.verb \in {"space new", "space new --temporary"} -> CreateSpace(c, s, q)
    [] q.verb = "space delete" -> DeleteAgentSpace(c, s, q)
    [] OTHER -> Reply(c, s)

\* A request from the start: what is switched off, what was revoked, what the
\* reader has to be asked about, and then the verb.
Handle(c, s) ==
  LET q == c.asked[s]
      known == [c EXCEPT !.names[s] = @ \cup {q.name}]
      here == ResolveCurrentTab(known, q.name)
      x == SpaceNeedingGrant(here, q)
  IN IF q.verb \in Gated /\ ~c.allowed THEN Reply(c, s)
     ELSE IF c.conn[q.name].revoked THEN Reply([known EXCEPT !.conn[q.name].revoked = FALSE], s)
     ELSE IF x = None THEN Answer(here, s, q)
     ELSE IF x \in here.conn[q.name].denied THEN Reply(here, s)
     ELSE AskGrant(here, s, x)

\* MUTANT of Resume: Stop counts for page requests only.
ResumeStopped(c, w) == Handle(c, w.socket)

\* The request w waited with runs again from the start, unless its connection
\* was stopped since it asked.
Resume(c, w) ==
  IF c.conn[c.asked[w.socket].name].stops # w.stops THEN Reply(c, w.socket)
  ELSE Handle(c, w.socket)

\* Everyone who waited on prompt g runs again, one after another.
Allow(c, g) ==
  LET run[i \in 0 .. Len(g.waiters)] ==
        IF i = 0 THEN [c EXCEPT !.grants = Unprompted(@, g.space)]
        ELSE Resume(run[i - 1], g.waiters[i])
  IN run[Len(g.waiters)]

----------------------------------------------------------------------------
\* What happens to it.

\* A first start, or the store as an earlier session left it, with an Agent
\* Space and a grant of the reader's own Space.
Init ==
  /\ allowed = TRUE
  /\ spaces \in {{Home}, {Home, Kept}} /\ agentSpaces = [x \in spaces \ {Home} |-> Keeper]
  /\ tabs = [t \in {HomeTab} \cup (IF Kept \in spaces THEN {KeptTab} ELSE {}) |->
               IF t = HomeTab THEN Home ELSE Kept]
  /\ temporary = {} /\ granted = (IF Kept \in spaces THEN {Home} ELSE {}) /\ opened = {}
  /\ used = spaces \cup DOMAIN tabs
  /\ attached = <<>> /\ windows = <<>>
  /\ conn = [n \in Names |-> Fresh]
  /\ grants = <<>> /\ pages = <<>>
  /\ made = [s \in Sockets |-> {}] /\ names = [s \in Sockets |-> {}]
  /\ socket = [s \in Sockets |-> "open"] /\ asked = [s \in Sockets |-> NoRequest]
  /\ carried = {} /\ stopped = {}
  /\ asks = 0 /\ acts = 0

\* A line is read only while no answer is waited for.
Read(s) ==
  /\ socket[s] = "open" /\ asked[s] = NoRequest /\ asks < MaxAsks
  /\ \E n \in Carries[s], v \in Verbs : \E about \in Abouts(v) :
       Becomes(Handle([Now EXCEPT !.asked[s] = [name |-> n, verb |-> v, about |-> about]], s))
  /\ asks' = asks + 1
  /\ UNCHANGED acts

\* MUTANT of Disconnect: a socket Stop closed leaves its Spaces behind.
DisconnectStopped(s) ==
  /\ socket[s] = "closing" \/ (socket[s] = "open" /\ (asked[s] # NoRequest \/ made[s] # {}))
  /\ UNCHANGED <<asks, acts>>
  /\ Becomes([(IF socket[s] = "open" THEN DeleteTemporarySpaces(Now, made[s]) ELSE Now) EXCEPT
                !.made[s] = {}, !.names[s] = {}, !.socket[s] = "closed"])

\* The Agent hangs up, or a socket that Stop closed is gone.  One that
\* neither waits nor made anything leaves nothing behind, and may as well stay.
Disconnect(s) ==
  /\ socket[s] = "closing" \/ (socket[s] = "open" /\ (asked[s] # NoRequest \/ made[s] # {}))
  /\ UNCHANGED <<asks, acts>>
  /\ Becomes([DeleteTemporarySpaces(Now, made[s]) EXCEPT
                !.made[s] = {}, !.names[s] = {}, !.socket[s] = "closed"])

\* Connections are numbered without end; here a number comes back once
\* nothing waits for its answer.
Connect(s) ==
  /\ socket[s] = "closed" /\ asked[s] = NoRequest
  /\ Becomes([Now EXCEPT !.socket[s] = "open", !.names[s] = {}])
  /\ UNCHANGED <<asks, acts>>

\* MUTANT of AnswerPage: nobody is told of a tab that is no Agent tab by then.
AnswerPageInUse(s) ==
  /\ s \in DOMAIN pages /\ OpenerOf(Now, pages[s]) \in DOMAIN attached
  /\ UNCHANGED <<asks, acts>>
  /\ Becomes(Reply([Now EXCEPT !.pages = Without(@, {s})], s))

\* The page answers, or goes away; or it takes too long.
AnswerPage(s) ==
  /\ s \in DOMAIN pages
  /\ UNCHANGED <<asks, acts>>
  /\ Becomes(Reply([Now EXCEPT !.pages = Without(@, {s})], s))

\* An Agent tab's page opens an Auxiliary window.
AttachWindow(t) ==
  /\ t \in DOMAIN attached \cap DOMAIN tabs /\ Unused(Now, Windows) # {}
  /\ LET w == NewId(Now, Windows)
     IN Becomes([Now EXCEPT !.windows = With(@, w, t), !.used = @ \cup {w}])
  /\ UNCHANGED <<asks, acts>>

\* Tabs left alone for long, and those that have gone, stop being Agent tabs;
\* one a page request is still out for is kept.
DetachIdle ==
  LET working == {OpenerOf(Now, pages[s]) : s \in DOMAIN pages}
      resting == DOMAIN attached \ working
  IN /\ \E T \in SUBSET resting :
          T # {} /\ resting \ DOMAIN tabs \subseteq T /\ Becomes(Detach(Now, T))
     /\ UNCHANGED <<asks, acts>>

\* The reader answers the prompt on show; the grant may fail to be kept.
AnswerGrant(answer) ==
  /\ grants # <<>>
  /\ Becomes(LET g == Head(grants)
             IN IF answer = "allowed" THEN Allow([Now EXCEPT !.granted = @ \cup {g.space}], g)
                ELSE Refuse(Now, g.space, answer))
  /\ UNCHANGED <<asks, acts>>

\* Nobody answered for Space x within its minute.
GrantTimeout(x) ==
  /\ \E g \in ToSet(grants) : g.space = x
  /\ UNCHANGED <<asks, acts>>
  /\ Becomes(Refuse(Now, x, "undecided"))

Act(c) == acts < MaxActs /\ acts' = acts + 1 /\ Becomes(c) /\ UNCHANGED asks

\* Everything is the reader's at once when Agents are turned off.
TurnOff(c) ==
  LET off == [c EXCEPT !.allowed = FALSE]
      told[i \in 0 .. Len(c.grants)] ==
        IF i = 0 THEN off ELSE Refuse(told[i - 1], Head(told[i - 1].grants).space, "withdrawn")
  IN ReplyAll([LeaveTabs(told[Len(c.grants)], Names) EXCEPT
                 !.windows = <<>>, !.attached = <<>>, !.pages = <<>>], DOMAIN c.pages)

SetAllowAgents == Act(IF allowed THEN TurnOff(Now) ELSE [Now EXCEPT !.allowed = TRUE])

\* MUTANT of Cancel: the requests are dropped and nobody is told.
CancelQuietly(c, T) ==
  [c EXCEPT !.pages = Without(@, {s \in DOMAIN c.pages : OpenerOf(c, c.pages[s]) \in T})]

\* The requests out for these tabs, and for their windows, are refused.
Cancel(c, T) ==
  LET reached == {s \in DOMAIN c.pages : OpenerOf(c, c.pages[s]) \in T}
  IN ReplyAll([c EXCEPT !.pages = Without(@, reached)], reached)

\* MUTANT of Revoke: what was asked of the pages is let finish.
RevokeAndFinish(c, x) ==
  LET T == {t \in DOMAIN c.tabs : c.tabs[t] = x}
      out == {n \in Names : \/ \E t \in T \cap DOMAIN c.attached : c.attached[t] = n
                            \/ OpenerOf(c, c.conn[n].tab) \in T}
      told == [c EXCEPT !.granted = @ \ {x},
                        !.conn = [n \in Names |-> IF n \in out
                                    THEN [@[n] EXCEPT !.tab = None, !.revoked = TRUE] ELSE @[n]]]
  IN Detach(told, T)

\* The Space is the reader's again from this moment, and whoever used it is
\* told so by its next call.
Revoke(c, x) ==
  LET T == {t \in DOMAIN c.tabs : c.tabs[t] = x}
      out == {n \in Names : \/ \E t \in T \cap DOMAIN c.attached : c.attached[t] = n
                            \/ OpenerOf(c, c.conn[n].tab) \in T}
      told == [c EXCEPT !.granted = @ \ {x},
                        !.conn = [n \in Names |-> IF n \in out
                                    THEN [@[n] EXCEPT !.tab = None, !.revoked = TRUE] ELSE @[n]]]
  IN Detach(Cancel(told, T), T)

RevokeGrant(x) == x \in granted /\ Act(Revoke(Now, x))

\* Every tab under the name is the reader's again, what was asked of their
\* pages is refused, and the sockets that carried the name close.
Stop(c, n) ==
  LET T == {t \in DOMAIN c.attached : c.attached[t] = n}
      count == [c EXCEPT !.conn[n].tab = None, !.conn[n].stops = @ + 1,
                         !.stopped = @ \cup {s \in Sockets : c.asked[s].name = n}]
  IN [Detach(Cancel(count, T), T) EXCEPT
        !.socket = [s \in Sockets |-> IF @[s] = "open" /\ n \in c.names[s] THEN "closing" ELSE @[s]]]

StopAgent(t) == t \in DOMAIN attached /\ Act(Stop(Now, attached[t]))

CloseTab(t) == t \in DOMAIN tabs /\ Act([Now EXCEPT !.tabs = Without(@, {t})])

MoveTab(t, x) ==
  /\ t \in DOMAIN tabs /\ x \in spaces \ {tabs[t]}
  /\ Act([Now EXCEPT !.tabs[t] = x, !.carried = @ \cup {t}])

ReaderDeletesSpace(x) == x \in spaces /\ spaces # {x} /\ Act(DeleteSpace(Now, x))

\* The Space is the reader's; its connection still names it.
TakeOverSpace(x) ==
  /\ x \in DOMAIN agentSpaces
  /\ Act([Now EXCEPT !.agentSpaces = Without(@, {x}), !.temporary = @ \ {x},
                     !.carried = @ \cup {t \in DOMAIN tabs : tabs[t] = x}])

WindowClosed(w) == w \in DOMAIN windows /\ Act(ForgetWindows(Now, {w}))

\* A quit or a crash, and the next start: the store is read again, and the
\* temporary Spaces in it are deleted.
Restart ==
  Act(DeleteTemporarySpaces(
    [Now EXCEPT !.opened = {}, !.attached = <<>>, !.windows = <<>>,
                !.conn = [n \in Names |-> Fresh], !.grants = <<>>, !.pages = <<>>,
                !.made = [s \in Sockets |-> {}], !.names = [s \in Sockets |-> {}],
                !.socket = [s \in Sockets |-> "open"],
                !.asked = [s \in Sockets |-> NoRequest],
                !.carried = {}, !.stopped = {}], temporary))

Reader ==
  \/ \E answer \in {"allowed", "denied", "failed"} : AnswerGrant(answer)
  \/ SetAllowAgents
  \/ \E x \in Spaces : RevokeGrant(x) \/ ReaderDeletesSpace(x) \/ TakeOverSpace(x)
  \/ \E t \in Tabs : StopAgent(t) \/ CloseTab(t)
  \/ \E t \in Tabs, x \in Spaces : MoveTab(t, x)
  \/ \E w \in Windows : WindowClosed(w)

Next ==
  \/ \E s \in Sockets : Read(s) \/ Disconnect(s) \/ Connect(s) \/ AnswerPage(s)
  \/ \E t \in Tabs : AttachWindow(t)
  \/ \E x \in Spaces : GrantTimeout(x)
  \/ DetachIdle \/ Reader \/ Restart

\* Each page request and each prompt has a timer of its own, and a socket
\* that was closed is gone in time; while any of them is due, one comes.  The
\* reader, the Agents and the pages need not do anything.
Timers ==
  \/ \E s \in Sockets : AnswerPage(s) \/ (socket[s] = "closing" /\ Disconnect(s))
  \/ \E x \in Spaces : GrantTimeout(x)

Spec == Init /\ [][Next]_vars /\ WF_vars(Timers)

----------------------------------------------------------------------------
Requests ==
  {NoRequest} \cup
  [name : Names, verb : Verbs, about : Spaces \cup Tabs \cup Windows \cup {None}]
Connections ==
  [tab : Tabs \cup Windows \cup {None}, space : Spaces \cup {None}, revoked : BOOLEAN,
   denied : SUBSET Spaces, stops : Nat]
Prompts == [space : Spaces, waiters : Seq([socket : Sockets, stops : Nat])]

\* Every variable is of its kind: what the store holds names Spaces of the
\* list, and ids given out stay given out.
TypeOK ==
  /\ allowed \in BOOLEAN
  /\ spaces \subseteq used \cap Spaces /\ spaces # {}
  /\ agentSpaces \in [DOMAIN agentSpaces -> Names] /\ DOMAIN agentSpaces \subseteq spaces
  /\ temporary \subseteq DOMAIN agentSpaces /\ granted \subseteq spaces \ DOMAIN agentSpaces
  /\ tabs \in [DOMAIN tabs -> spaces] /\ DOMAIN tabs \subseteq used \cap Tabs
  /\ opened \subseteq used \cap Tabs
  /\ attached \in [DOMAIN attached -> Names] /\ DOMAIN attached \subseteq used \cap Tabs
  /\ windows \in [DOMAIN windows -> Tabs] /\ DOMAIN windows \subseteq used \cap Windows
  /\ conn \in [Names -> Connections]
  /\ grants \in Seq(Prompts)
  /\ pages \in [DOMAIN pages -> used \cap (Tabs \cup Windows)] /\ DOMAIN pages \subseteq Sockets
  /\ made \in [Sockets -> SUBSET Spaces] /\ names \in [Sockets -> SUBSET Names]
  /\ socket \in [Sockets -> {"open", "closing", "closed"}]
  /\ asked \in [Sockets -> Requests]
  /\ carried \subseteq Tabs /\ stopped \subseteq Sockets

Held(s) ==
  Cardinality({i \in DOMAIN grants : \E w \in ToSet(grants[i].waiters) : w.socket = s})
    + (IF s \in DOMAIN pages THEN 1 ELSE 0)

\* A request that waits is held in exactly one place, a page request or a
\* prompt, and one that was answered in none; a prompt is about a Space of the
\* list that needs one, is asked once for everybody, and is not put up again
\* for an Agent the reader denied (AgentControl.cpp askGrant, finishGrant,
\* answerPage, dropGoneGrants).
RequestsAreHeld ==
  /\ \A s \in Sockets : Held(s) = IF asked[s] = NoRequest THEN 0 ELSE 1
  /\ \A i \in DOMAIN grants :
       /\ allowed /\ grants[i].space \in spaces \ (granted \cup DOMAIN agentSpaces)
       /\ grants[i].waiters # <<>>
       /\ \A j \in DOMAIN grants : grants[j].space = grants[i].space => i = j
       /\ \A w \in ToSet(grants[i].waiters) :
            grants[i].space \notin conn[asked[w.socket].name].denied

\* No page is worked in, and no tab or window kept as an Agent's, that Agents
\* may not reach, whatever was revoked, switched off or stopped meanwhile.
\* What the reader took away with the tab in use is left to finish: a tab
\* moved or taken over, closed, or a window whose tab went (revokeGrant, apply,
\* stopAgent, detach).
NothingOutOfReach ==
  /\ \A t \in DOMAIN attached \cup {OpenerOf(Now, pages[s]) : s \in DOMAIN pages} :
       t \in DOMAIN tabs \ carried => Usable(Now, tabs[t])
  /\ Range(windows) \subseteq DOMAIN attached

\* What an Agent asked before the reader stopped it starts nothing afterwards,
\* whatever the reader answers a prompt it waited on: no page request, and no
\* Agent tab but for what the same name asked since (the stops a waiter
\* remembers, askGrant and finishGrant).
StoppedStartsNothing ==
  [][\A s \in stopped :
       LET n == asked[s].name
           under(f) == {t \in DOMAIN f : f[t] = n}
       IN /\ s \in DOMAIN pages' => s \in DOMAIN pages
          /\ asks' = asks =>
               \/ under(attached') \subseteq under(attached)
               \/ \E r \in Sockets \ stopped : asked[r].name = n]_vars

\* A temporary Space lasts as long as the connection that made it, and no
\* longer, whatever was stopped, switched off or restarted
\* (connectionClosed, deleteTemporarySpaces).
TemporariesGo ==
  \A x \in temporary : \E s \in Sockets : x \in made[s] /\ socket[s] # "closed"

\* The reader's own Spaces, those taken over included, go only when the reader
\* deletes them: no connection that made one takes it along, and no Agent
\* deletes it (deleteTemporarySpace, deleteSpace).
ReadersSpacesStay ==
  [][\A x \in spaces \ DOMAIN agentSpaces : x \in spaces' \/ ReaderDeletesSpace(x)]_vars

\* Whatever the pages and the reader do, every request is answered in the
\* end, and a connection that was stopped ends: no request loses its timer,
\* whichever of the page, the prompt, Stop, Revoke and the switch comes first
\* (askPage, askGrant, finishGrant, revokeGrant, stopAgent, apply).
EveryRequestIsAnswered ==
  \A s \in Sockets : [](<>(asked[s] = NoRequest /\ socket[s] # "closing"))

===============================================================================
