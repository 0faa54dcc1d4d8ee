------------------------------- MODULE MacSidebar -------------------------------
(***************************************************************************)
(* The sidebar of the macOS client: the sessions it was told of, the       *)
(* spaces they are filed in and those still awaited                        *)
(* (src/macos/Sources/AgentsHubCore/Spaces.swift), what it makes of their  *)
(* activity (AgentWatch.swift), and the rows and the selection             *)
(* (src/macos/Sources/AgentsHub/AppModel.swift), with a daemon per VM at   *)
(* the other end of a connection.                                          *)
(*                                                                         *)
(* The sessions of a VM are in one folder: how folders nest and fold is in *)
(* SidebarTree.  Shells, which have no row, are in ShellPanel.             *)
(***************************************************************************)
EXTENDS Naturals, SequencesExt

CONSTANTS
  Vm,          \* the machines, numbered as in the configuration
  Sid, VmOf,   \* ids of sessions, in the order they are listed, and who gives them out
  Name,        \* agent and name of a session
  Space,       \* ids of spaces
  MaxMoves,    \* bound on what the user does, what sessions do by themselves, lost
               \* connections and launches of the client
  All, Unsorted, None

Activity == {"unknown", "working", "blocked", "idle"}
Busy == {"working", "blocked"}
Session == [name : Name, activity : Activity]
List == [kind : {"sessions"}, list : [Sid -> Session \cup {None}], old : BOOLEAN]

ASSUME SidebarAssumption ==
  /\ Vm \subseteq Nat /\ 0 \in Vm /\ Sid \subseteq Nat /\ VmOf \in [Sid -> Vm]
  /\ {All, Unsorted, None} \cap Space = {}
  /\ None \notin Activity \cup Session \cup List
  /\ MaxMoves \in Nat

VARIABLES
  table,    \* the daemons' sessions: name and activity
  unused,   \* ids not given out yet
  due,      \* VMs with a change the feed of the connection has not told
  answer,   \* the list a handler has read and not sent, and whether a newer one went first
  up,       \* VMs whose link is up
  requests, \* on their way to a daemon
  events,   \* on their way to the main actor
  client,   \* the state of AppModel that is about the sidebar
  active,   \* the user is at the client
  moves,    \* how much has happened of what MaxMoves bounds
  worked,   \* how often each session has left off working or asking
  late      \* lists handled after a newer one

daemonVars == <<table, unused, due, answer, worked>>
wireVars == <<up, requests, events>>
sidebarVars == <<daemonVars, wireVars, moves, client, active, late>>

Unlisted == [s \in Sid |-> None]
Id(s) == <<"session", VmOf[s], s>>
On(v) == {s \in Sid : VmOf[s] = v}

Fresh(kept, shown) ==
  [sessions |-> Unlisted,
   spaces |-> kept.spaces, members |-> kept.members, showing |-> shown,
   waiting |-> <<>>,     \* PendingCreates
   filter |-> Name,      \* what it lets through
   selection |-> None,
   lastSelection |-> [view \in Space \cup {All, Unsorted} |-> None],
   last |-> Unlisted, done |-> {}, banners |-> [s \in Sid |-> 0]]

Init ==
  /\ \E old \in SUBSET Sid : \E n \in [old -> Name] :
       /\ table = [s \in Sid |-> IF s \in old THEN [name |-> n[s], activity |-> "working"] ELSE None]
       /\ unused = Sid \ old
  /\ due = {} /\ answer = [v \in Vm |-> None] /\ worked = [s \in Sid |-> 0]
  /\ up = {} /\ requests = [v \in Vm |-> <<>>] /\ events = [v \in Vm |-> <<>>]
  /\ client = Fresh([spaces |-> {}, members |-> [sp \in Space |-> {}]], All)
  /\ active = TRUE /\ late = 0
  /\ moves = 0

Moves == moves < MaxMoves /\ moves' = moves + 1

--------------------------------------------------------------------------------
(* SpaceBook. *)

Home(c, s) == {sp \in c.spaces : s \in c.members[sp]}

Shows(c, view, s) ==
  \/ view = All
  \/ view = Unsorted /\ Home(c, s) = {}
  \/ view \in c.spaces /\ s \in c.members[view]

\* To a space that is gone, or to none, is out of every space.
Moved(c, keys, sp) ==
  [c EXCEPT !.members = [t \in Space |->
     IF t = sp /\ sp \in c.spaces THEN @[t] \cup keys ELSE @[t] \ keys]]

Prune_EveryVm(c, v, alive) ==
  [c EXCEPT !.members = [sp \in Space |-> {s \in @[sp] : s \in alive}]]
Prune(c, v, alive) ==
  [c EXCEPT !.members = [sp \in Space |-> {s \in @[sp] : VmOf[s] # v \/ s \in alive}]]

\* How many of S come before x.
Before(S, x) == Cardinality({y \in S : y < x})

\* The requests that s may be the answer to.
Awaited(c, s) ==
  {i \in DOMAIN c.waiting : c.waiting[i].vm = VmOf[s] /\ c.waiting[i].name = c.sessions[s].name}

\* claim: of the fresh sessions of one machine and name the first takes the oldest request,
\* the next the next.
Takes(c, fresh, s, i) ==
  /\ i \in Awaited(c, s)
  /\ Before(Awaited(c, s), i) = Before({t \in fresh : Awaited(c, t) = Awaited(c, s)}, s)

ClaimCreated(c, fresh) ==
  LET left == {i \in DOMAIN c.waiting : \A s \in fresh : ~Takes(c, fresh, s, i)}
      claimed == {s \in fresh : \E i \in Awaited(c, s) : Takes(c, fresh, s, i)}
      Asked(s) == c.waiting[CHOOSE i \in Awaited(c, s) : Takes(c, fresh, s, i)].space
  IN [c EXCEPT
        !.waiting = [k \in 1..Cardinality(left) |->
                       c.waiting[CHOOSE i \in left : Before(left, i) = k - 1]],
        !.members = [sp \in Space |-> (@[sp] \ claimed) \cup
                       {s \in claimed : Asked(s) = sp /\ sp \in c.spaces}]]

--------------------------------------------------------------------------------
(* Rows and selection. *)

Listed(c) == {s \in Sid : c.sessions[s] # None}
Matches(c, s) == c.sessions[s].name \in c.filter

VmRows(c, v) ==
  LET ids == SetToSortSeq({s \in Listed(c) \cap On(v) : Matches(c, s) /\ Shows(c, c.showing, s)}, <) IN
  IF ids # <<>> THEN <<<<"vm", v>>, <<"folder", v>>>> \o [i \in DOMAIN ids |-> Id(ids[i])]
  ELSE IF c.showing = All THEN <<<<"vm", v>>>> ELSE <<>>

Rows(c) == FoldLeft(LAMBDA rows, v : rows \o VmRows(c, v), <<>>, SetToSortSeq(Vm, <))

IsSession(row) == row[1] = "session"
FirstSession(rows) == LET i == SelectInSeq(rows, IsSession) IN IF i = 0 THEN None ELSE rows[i]
SelectedSid(c) == {s \in Listed(c) : Id(s) = c.selection /\ c.selection \in Range(Rows(c))}

\* pruneSelection: to the nearest survivor, below first.
Neighbour(selection, previous, rows) ==
  LET i == SelectInSeq(previous, LAMBDA r : r = selection)
      Survives(r) == IsSession(r) /\ r \in Range(rows)
      below == SelectSeq(SubSeq(previous, i + 1, Len(previous)), Survives)
      above == SelectSeq(SubSeq(previous, 1, i - 1), Survives)
  IN IF i = 0 \/ below \o above = <<>> THEN FirstSession(rows)
     ELSE IF below # <<>> THEN Head(below) ELSE Last(above)

PruneSelection(c, previous) ==
  LET rows == Rows(c)
      next == Neighbour(c.selection, previous, rows)
  IN IF c.selection \in Range(rows) \/ next = None THEN c ELSE [c EXCEPT !.selection = next]

SelectSpace(c, next) ==
  IF next = c.showing \/ next \notin c.spaces \cup {Unsorted, All} THEN c ELSE
  LET left == [c EXCEPT !.lastSelection[c.showing] = c.selection, !.showing = next]
      rows == Rows(left)
      first == IF FirstSession(rows) # None \/ rows = <<>> THEN FirstSession(rows) ELSE Head(rows)
  IN [left EXCEPT !.selection =
        IF left.lastSelection[next] \in Range(rows) THEN left.lastSelection[next] ELSE first]

--------------------------------------------------------------------------------
(* AgentWatch. *)

Watching(c) == IF active THEN SelectedSid(c) ELSE {}

\* forget, of the sessions that are not listed any more.
Forget(c, gone) ==
  [c EXCEPT !.last = [s \in Sid |-> IF s \in gone THEN None ELSE @[s]], !.done = @ \ gone]

Finished(c, s) == c.last[s] \in Busy /\ c.sessions[s].activity = "idle" /\ s \notin Watching(c)

\* What update stores: the last reading of each session.
Reading_OfWork(c, s) == IF c.sessions[s].activity \in Busy THEN c.sessions[s].activity ELSE c.last[s]
Reading(c, s) == c.sessions[s].activity

\* readActivity: one update for each session of the list.
ReadActivity(c, list) ==
  LET changed == {s \in list : c.last[s] \notin {None, c.sessions[s].activity}}
      finished == {s \in changed : Finished(c, s)}
  IN [c EXCEPT !.last = [s \in Sid |-> IF s \in list THEN Reading(c, s) ELSE @[s]],
               !.done = (@ \ {s \in changed : c.sessions[s].activity # "idle"}) \cup finished,
               !.banners = [s \in Sid |-> IF s \in finished THEN @[s] + 1 ELSE @[s]]]

--------------------------------------------------------------------------------
(* The user. *)

\* What a command leaves behind.
Asks(c) == Moves /\ client' = c /\ UNCHANGED <<daemonVars, up, events, active, late>>

\* What is sent while the link is down is dropped.
Send(v, req) == requests' = IF v \in up THEN [requests EXCEPT ![v] = Append(@, req)] ELSE requests

\* The machine is the selection's, or the one picked in the sheet.
Create(v, n) ==
  LET c == client
      space == IF c.showing \in c.spaces THEN c.showing ELSE None
      expectation == [vm |-> v, name |-> n, space |-> space]
  IN /\ Asks(IF space = None THEN c ELSE [c EXCEPT !.waiting = Append(@, expectation)])
     /\ Send(v, [kind |-> "create", name |-> n])

Kill(s) ==
  /\ s \in SelectedSid(client)
  /\ Asks(client)
  /\ Send(VmOf[s], [kind |-> "kill", id |-> s])

CreateSpace(sp) ==
  /\ sp \notin client.spaces
  /\ Asks(SelectSpace([client EXCEPT !.spaces = @ \cup {sp}], sp))
  /\ UNCHANGED requests

\* The view of a space that is deleted lands where its sessions went.
AfterDelete(c, sp) ==
  LET unsorted == \E s \in Listed(c) : Shows(c, Unsorted, s)
      landing == IF c.spaces # {} /\ unsorted THEN Unsorted ELSE All
  IN IF c.showing = sp THEN SelectSpace(c, landing) ELSE PruneSelection(c, Rows(client))

\* One that holds sessions is asked about first; either way they only become unsorted.
DeleteSpace(sp) ==
  /\ sp \in client.spaces
  /\ Asks(AfterDelete([client EXCEPT !.spaces = @ \ {sp}, !.members[sp] = {}], sp))
  /\ UNCHANGED requests

\* The selected session, or what the view shows under the selected folder.
Movable(c) ==
  IF c.selection \notin Range(Rows(c)) THEN {}
  ELSE SelectedSid(c) \cup
       {s \in Listed(c) : c.selection = <<"folder", VmOf[s]>> /\ Matches(c, s) /\ Shows(c, c.showing, s)}

\* "m", or a drop on a chip.
MoveTo(sp) ==
  /\ Movable(client) # {} /\ sp \in client.spaces \cup {None}
  /\ Asks(PruneSelection(Moved(client, Movable(client), sp), Rows(client)))
  /\ UNCHANGED requests

\* A space of the folder's name, new or not, takes what is under it.
SpaceFromFolder(sp) ==
  /\ \E v \in Vm : client.selection = <<"folder", v>>
  /\ client.selection \in Range(Rows(client))
  /\ Asks(SelectSpace(Moved([client EXCEPT !.spaces = @ \cup {sp}], Movable(client), sp), sp))
  /\ UNCHANGED requests

\* What a look leaves behind.
Looks(c, here) ==
  /\ Moves /\ client' = c /\ active' = here
  /\ UNCHANGED <<daemonVars, wireVars, late>>

\* The bar has the spaces, Unsorted while there are any, and All.
PickSpace(view) ==
  /\ view # client.showing
  /\ view = All \/ view \in client.spaces \/ (view = Unsorted /\ client.spaces # {})
  /\ Looks(SelectSpace(client, view), active)

SelectRow ==
  \E row \in Range(Rows(client)) \ {client.selection} :
    Looks([client EXCEPT !.selection = row], active)

\* Command-P: to the space of the session, and past a filter that hides it.
Landed(c, s) ==
  [c EXCEPT !.filter = IF Id(s) \in Range(Rows(c)) THEN @ ELSE Name, !.selection = Id(s)]

Reveal(s) ==
  LET c == client
      home == IF Home(c, s) # {} THEN CHOOSE sp \in Home(c, s) : TRUE
              ELSE IF c.spaces = {} THEN All ELSE Unsorted
  IN /\ s \in Listed(c)
     /\ Looks(Landed(IF Shows(c, c.showing, s) THEN c ELSE SelectSpace(c, home), s), active)

\* Typing in the filter only rebuilds the rows.
Filter ==
  \E names \in SUBSET Name \ {client.filter} : Looks([client EXCEPT !.filter = names], active)

\* The user leaves the client, or comes back to it.
Turn == Looks(client, ~active)

Command ==
  \/ \E v \in Vm, n \in Name : Create(v, n)
  \/ \E s \in Sid : Kill(s)
  \/ \E sp \in Space : CreateSpace(sp) \/ DeleteSpace(sp) \/ SpaceFromFolder(sp)
  \/ \E sp \in Space \cup {None} : MoveTo(sp)
User ==
  /\ moves < MaxMoves
  /\ \/ Command \/ SelectRow \/ Filter \/ Turn
     \/ \E view \in Space \cup {All, Unsorted} : PickSpace(view)
     \/ \E s \in Sid : Reveal(s)

--------------------------------------------------------------------------------
(* The main actor. *)

\* onFrame, of a list.
OnSessions(v, list) ==
  LET alive == {s \in On(v) : list[s] # None}
      known == Listed(client) \cap On(v)
      told == [client EXCEPT !.sessions = [s \in Sid |-> IF s \in On(v) THEN list[s] ELSE @[s]]]
      claimed == ClaimCreated(told, alive \ known)
      heard == ReadActivity(Forget(Prune(claimed, v, alive), known \ alive), alive)
  IN client' = PruneSelection(heard, Rows(client))

Main(v) ==
  /\ events[v] # <<>>
  /\ events' = [events EXCEPT ![v] = Tail(@)]
  /\ LET e == Head(events[v]) IN
       \/ /\ e.kind = "up" /\ Send(v, [kind |-> "list"])
          /\ UNCHANGED <<client, late>>
       \/ /\ e.kind = "sessions" /\ OnSessions(v, e.list)
          /\ late' = IF e.old THEN late + 1 ELSE late
          /\ UNCHANGED requests
  /\ UNCHANGED <<daemonVars, up, moves, active>>

\* The timer has seen what is in front of the user.
RefreshDots ==
  /\ client.done \cap Watching(client) # {}
  /\ client' = [client EXCEPT !.done = @ \ Watching(client)]
  /\ UNCHANGED <<daemonVars, wireVars, moves, active, late>>

\* The client is started again: what it has saved is the book and the view.
Relaunch ==
  /\ Moves
  /\ client' = Fresh(client, client.showing)
  /\ up' = {} /\ requests' = [v \in Vm |-> <<>>] /\ events' = [v \in Vm |-> <<>>]
  /\ due' = {} /\ answer' = [v \in Vm |-> None] /\ active' = TRUE
  /\ worked' = [s \in Sid |-> 0] /\ late' = 0
  /\ UNCHANGED <<table, unused>>

--------------------------------------------------------------------------------
(* The daemons. *)

Sessions(v, old) ==
  [kind |-> "sessions", list |-> [s \in Sid |-> IF VmOf[s] = v THEN table[s] ELSE None], old |-> old]

HandleList(v) ==
  /\ Head(requests[v]).kind = "list"
  /\ answer' = [answer EXCEPT ![v] = Sessions(v, FALSE)]
  /\ UNCHANGED <<table, unused, due, moves, worked>>

HandleCreate(v) ==
  /\ Head(requests[v]).kind = "create"
  /\ \/ LET r == Head(requests[v]) IN \E s \in unused \cap On(v) :
          /\ \A t \in unused \cap On(v) : s <= t
          /\ table' = [table EXCEPT ![s] = [name |-> r.name, activity |-> "unknown"]]
          /\ unused' = unused \ {s} /\ due' = due \cup {v}
          /\ UNCHANGED moves
     \/ /\ Moves \* it cannot be launched
        /\ UNCHANGED <<table, unused, due>>
  /\ UNCHANGED <<answer, worked>>

HandleKill(v) ==
  /\ Head(requests[v]).kind = "kill"
  /\ table' = [table EXCEPT ![Head(requests[v]).id] = None]
  /\ due' = due \cup {v}
  /\ UNCHANGED <<unused, answer, moves, worked>>

Handle(v) ==
  /\ requests[v] # <<>> /\ answer[v] = None
  /\ requests' = [requests EXCEPT ![v] = Tail(@)]
  /\ HandleList(v) \/ HandleCreate(v) \/ HandleKill(v)
  /\ UNCHANGED <<up, events, client, active, late>>

Answer(v) ==
  /\ answer[v] # None
  /\ events' = [events EXCEPT ![v] = Append(@, answer[v])]
  /\ answer' = [answer EXCEPT ![v] = None]
  /\ UNCHANGED <<table, unused, due, worked, up, requests, moves, client, active, late>>

\* The feed of the connection; an answer still to be sent is then the older one.
Tell(v) ==
  /\ v \in due \cap up
  /\ due' = due \ {v}
  /\ events' = [events EXCEPT ![v] = Append(@, Sessions(v, FALSE))]
  /\ answer' = IF answer[v] = None THEN answer ELSE [answer EXCEPT ![v].old = TRUE]
  /\ UNCHANGED <<table, unused, worked, up, requests, moves, client, active, late>>

\* A session changes what it does.
Act(s) ==
  /\ table[s] # None /\ Moves
  /\ \E a \in Activity \ {table[s].activity} :
       /\ table' = [table EXCEPT ![s].activity = a]
       /\ worked' = IF table[s].activity \in Busy /\ a \notin Busy
                      THEN [worked EXCEPT ![s] = @ + 1] ELSE worked
  /\ due' = due \cup {VmOf[s]}
  /\ UNCHANGED <<unused, answer, wireVars, client, active, late>>

\* The connection is lost; what has come is still handled.
Drop(v) ==
  /\ v \in up /\ Moves
  /\ up' = up \ {v}
  /\ requests' = [requests EXCEPT ![v] = <<>>]
  /\ \E n \in 0..Len(events[v]) : events' = [events EXCEPT ![v] = SubSeq(@, 1, n)]
  /\ due' = due \ {v} /\ answer' = [answer EXCEPT ![v] = None]
  /\ UNCHANGED <<table, unused, worked, client, active, late>>

Dial(v) ==
  /\ v \in Vm \ up
  /\ up' = up \cup {v} /\ events' = [events EXCEPT ![v] = Append(@, [kind |-> "up"])]
  /\ UNCHANGED <<daemonVars, requests, moves, client, active, late>>

Next ==
  \/ User \/ RefreshDots \/ Relaunch
  \/ \E v \in Vm : Main(v) \/ Handle(v) \/ Answer(v) \/ Tell(v) \/ Drop(v) \/ Dial(v)
  \/ \E s \in Sid : Act(s)

Spec == Init /\ [][Next]_sidebarVars

--------------------------------------------------------------------------------
\* The variables have these types in every reachable state.
SidebarTypeOK ==
  /\ table \in [Sid -> Session \cup {None}]
  /\ due \subseteq Vm /\ up \subseteq Vm /\ unused \subseteq Sid
  /\ client.spaces \subseteq Space /\ client.members \in [Space -> SUBSET Sid]
  /\ client.showing \in client.spaces \cup {All, Unsorted}
  /\ client.filter \subseteq Name /\ client.done \subseteq Sid

\* A session is "in at most one" space (Spaces.swift), and only the user takes it out of it
\* while its daemon has it: not an outage, a list of another VM or a launch of the client.
\* Left out are a list that arrives after a newer one, and a session that a Create still
\* awaited may be mistaken for.
FiledStays ==
  [][\A s \in Sid : \A sp \in Home(client, s) :
       /\ Home(client, s) = {sp}
       /\ table[s] # None /\ s \notin client'.members[sp] =>
            \/ late' # late
            \/ \E i \in DOMAIN client.waiting :
                 client.waiting[i].vm = VmOf[s] /\ client.waiting[i].name = table[s].name
            \/ Command]_sidebarVars

\* A stretch of work is announced as finished once at most, over every way a list can be
\* coalesced or repeated; a list that arrives late may repeat one.  The dot it leaves is on a
\* session that is listed, and idle as far as the client knows.
BannerPerTurn ==
  /\ \A s \in Sid : client.banners[s] <= worked[s] + late
  /\ \A s \in client.done : s \in Listed(client) /\ client.sessions[s].activity = "idle"
================================================================================
