------------------------------- MODULE ShellPanel -------------------------------
(***************************************************************************)
(* The shell panel of the macOS client: which session's panel is open,     *)
(* the tab it shows, the shell a command waits for, and who has the        *)
(* keyboard (src/macos/Sources/AgentsHub/AppModel.swift), with the daemon  *)
(* that makes, lists, ends and kills the shells (src/src/server.rs) at     *)
(* the other end of one connection.                                        *)
(*                                                                         *)
(* Shells are numbers, in the order the daemon lists them.  A session's    *)
(* own run is left out: it is listed until it is killed.  The client's     *)
(* methods call each other, so they are operators from a client to a       *)
(* client, which collects what is to be sent.                              *)
(***************************************************************************)
EXTENDS Naturals, Sequences, FiniteSetsExt

CONSTANTS
  Agent,    \* agent sessions
  Shell,    \* ids of shells
  MaxMoves, \* bound on commands, shells that exit or cannot be launched, and lost connections
  None

\* An id is two 64-bit numbers (server.rs, new_id), so there are finitely many.
ASSUME PanelAssumption ==
  /\ Shell \subseteq Nat \ {0} /\ Agent \cap Shell = {} /\ None \notin Agent \cup Shell
  /\ IsFiniteSet(Shell) /\ MaxMoves \in Nat

VARIABLES
  table,    \* the daemon's sessions: agents, and each shell's parent and state
  issued,   \* shells whose id has been given out
  due,      \* a change the connection's feed has not told
  owed,     \* shells whose forwarder has yet to say that the run has ended
  up,       \* the link is up
  requests, \* on their way to the daemon
  events,   \* on their way to the main actor
  client,   \* the state of AppModel that is about the panel
  moves,    \* how much has happened of what MaxMoves bounds
  missed    \* a shell was asked for that will not come

daemonVars == <<table, issued, due, owed>>
wireVars == <<up, requests, events>>
panelVars == <<daemonVars, wireVars, client, moves, missed>>

State == {"up", "over", "down"}

\* A shell in a list, and a shell that a command waits for.
ShellEntry == [of : Agent, state : State]
Awaited == [of : Agent, known : SUBSET Shell]

ASSUME NoneAssumption == None \notin ShellEntry \cup Awaited

NoShells == [s \in Shell |-> None]

\* The variables have these types in every reachable state.
PanelTypeOK ==
  /\ table.agents \subseteq Agent
  /\ table.shells \in [Shell -> {None} \cup ShellEntry]
  /\ issued \subseteq Shell /\ owed \subseteq Shell /\ {due, up} \subseteq BOOLEAN
  /\ client.panel \subseteq Agent /\ client.active \in [Agent -> Shell \cup {None}]
  /\ client.awaiting \in Awaited \cup {None}
  /\ client.selection \in Agent \cup {None} /\ client.pending \in Agent \cup {None}
  /\ client.keyboard \in Agent \cup Shell \cup {None}
  /\ moves \in 0..MaxMoves /\ missed \in BOOLEAN

Init ==
  /\ \E made \in {{}} \cup {{s} : s \in Shell} :
       \E entry \in [of : Agent, state : {"up", "down"}] :
         /\ issued = made
         /\ table = [agents |-> Agent, shells |-> [s \in Shell |-> IF s \in made THEN entry ELSE None]]
  /\ due = FALSE /\ owed = {}
  /\ up = TRUE /\ requests = <<[kind |-> "list"]>> /\ events = <<>>
  /\ client = [agents |-> {}, shells |-> NoShells, selection |-> None,
               panel |-> {}, active |-> [a \in Agent |-> None],
               pending |-> None,  \* shellFocusPending
               awaiting |-> None, \* awaitingShell
               keyboard |-> None, \* None is whatever is no terminal
               sent |-> <<>>]
  /\ moves = 0 /\ missed = FALSE

Moves == moves < MaxMoves /\ moves' = moves + 1

--------------------------------------------------------------------------------
(* AppModel. *)

ShellKeys(c, a) == {s \in Shell : c.shells[s] # None /\ c.shells[s].of = a}
Selected(c) == IF c.selection \in c.agents THEN c.selection ELSE None
ActiveShell(c, a) ==
  LET shells == ShellKeys(c, a) IN
  IF shells = {} THEN None
  ELSE IF c.active[a] \in shells THEN c.active[a] ELSE Min(shells)
Visible(c) == IF Selected(c) \in c.panel THEN ActiveShell(c, Selected(c)) ELSE None
Running(c, s) == c.shells[s].state # "down"

\* revealShell hands the keyboard to a shell a command still waits for.
Reveal(c) ==
  LET shell == Visible(c) IN
  IF /\ shell # None /\ Running(c, shell)
     /\ c.pending = c.selection
     /\ c.awaiting = None \/ c.awaiting.of # c.selection
    THEN [c EXCEPT !.pending = None, !.keyboard = shell] ELSE c

\* show relaunches a stopped tab.
Show(c, s, a, focus) ==
  Reveal([c EXCEPT !.active[a] = s, !.panel = @ \cup {a},
            !.pending = IF focus THEN a ELSE @,
            !.sent = IF Running(c, s) THEN @ ELSE Append(@, [kind |-> "restart", shell |-> s])])

\* closeShell gives the keyboard back to the agent if its shell had it.
CloseShell(c, a) ==
  LET hadFocus == ActiveShell(c, a) # None /\ c.keyboard = ActiveShell(c, a) IN
  [c EXCEPT !.panel = @ \ {a}, !.pending = IF @ = a THEN None ELSE @,
            !.keyboard = IF hadFocus /\ a = Selected(c) THEN a ELSE @]

\* The tab that takes the place of a closed one.
Fallback(rest, s) ==
  LET after == {t \in rest : t > s} IN IF after = {} THEN Max(rest) ELSE Min(after)

CloseShellTab(c, s) ==
  IF c.shells[s] = None THEN c ELSE
  LET a == c.shells[s].of
      rest == ShellKeys(c, a) \ {s}
      killed == [c EXCEPT !.sent = Append(@, [kind |-> "kill", id |-> s])]
  IN IF rest = {} THEN CloseShell(killed, a)
     ELSE IF ActiveShell(c, a) # s THEN killed
     ELSE Show(killed, Fallback(rest, s), a, c.keyboard = s)

NewShell(c, a) ==
  [c EXCEPT !.panel = @ \cup {a}, !.pending = a,
            !.awaiting = [of |-> a, known |-> ShellKeys(c, a)],
            !.sent = Append(@, [kind |-> "shell", of |-> a])]

\* apply's forget, of the sessions that are not in the list any more.
Forget_StillAwaited(c, gone) ==
  [c EXCEPT !.panel = @ \ gone,
            !.active = [a \in Agent |-> IF a \in gone THEN None ELSE @[a]],
            !.pending = IF @ \in gone THEN None ELSE @,
            !.keyboard = IF @ \in gone THEN None ELSE @]
Forget(c, gone) ==
  [c EXCEPT !.panel = @ \ gone,
            !.active = [a \in Agent |-> IF a \in gone THEN None ELSE @[a]],
            !.pending = IF @ \in gone THEN None ELSE @,
            !.awaiting = IF @ # None /\ @.of \in gone THEN None ELSE @,
            !.keyboard = IF @ \in gone THEN None ELSE @]

\* pruneSelection: a selection that is gone goes to a neighbour, or to the first row.
Prunings(c) ==
  IF c.selection \in c.agents \/ c.agents = {} THEN {c}
  ELSE {Reveal([c EXCEPT !.selection = a]) : a \in c.agents}

AdoptNewShell_StillAwaits(c) ==
  LET fresh == IF c.awaiting = None THEN {} ELSE ShellKeys(c, c.awaiting.of) \ c.awaiting.known IN
  IF fresh = {} THEN c ELSE [c EXCEPT !.active[c.awaiting.of] = Min(fresh)]
AdoptNewShell(c) ==
  LET fresh == IF c.awaiting = None THEN {} ELSE ShellKeys(c, c.awaiting.of) \ c.awaiting.known IN
  IF fresh = {} THEN c
  ELSE [c EXCEPT !.awaiting = None, !.active[c.awaiting.of] = Min(fresh)]

\* What a method leaves behind; what is sent while the link is down is dropped.
Becomes(c, received) ==
  /\ client' = [c EXCEPT !.sent = <<>>]
  /\ requests' = IF up THEN requests \o c.sent ELSE requests
  /\ events' = received

--------------------------------------------------------------------------------
(* The user. *)

Asks == Moves /\ UNCHANGED <<daemonVars, up, missed>>

\* Command-T, and Command-B where there is no shell yet.
NewTab(a) ==
  /\ Selected(client) = a
  /\ Becomes(NewShell(client, a), events)
  /\ Asks

\* Command-B, on a panel that is open or has something to show.
ToggleShell(a) ==
  /\ Selected(client) = a
  /\ \/ a \in client.panel /\ Becomes(CloseShell(client, a), events)
     \/ /\ a \notin client.panel /\ ActiveShell(client, a) # None
        /\ Becomes(Show(client, ActiveShell(client, a), a, TRUE), events)
  /\ Asks

\* selectShell, showShell: a tab of the selected session.
PickTab(a, s) ==
  /\ Selected(client) = a /\ s \in ShellKeys(client, a)
  /\ Becomes(Show(client, s, a, TRUE), events)
  /\ Asks

\* The tab's x, or Command-W.
CloseTab(a, s) ==
  /\ Selected(client) = a /\ a \in client.panel /\ s \in ShellKeys(client, a)
  /\ Becomes(CloseShellTab(client, s), events)
  /\ Asks

KillAgent(a) ==
  /\ a \in client.agents
  /\ Becomes([client EXCEPT !.sent = Append(@, [kind |-> "kill", id |-> a])], events)
  /\ Asks

\* selectionChanged leaves the keyboard where it is.
Select(a) ==
  /\ a \in client.agents /\ a # client.selection
  /\ Becomes(Reveal([client EXCEPT !.selection = a]), events)
  /\ UNCHANGED <<daemonVars, up, moves, missed>>

\* A click, or Return on the selected row.
Focus ==
  /\ \E k \in {None, Selected(client), Visible(client)} \ {client.keyboard} :
       client' = [client EXCEPT !.keyboard = k]
  /\ UNCHANGED <<daemonVars, wireVars, moves, missed>>

Command(a) ==
  \/ NewTab(a) \/ ToggleShell(a) \/ KillAgent(a)
  \/ \E s \in Shell : PickTab(a, s) \/ CloseTab(a, s)
User == Focus \/ \E a \in Agent : Command(a) \/ Select(a)

--------------------------------------------------------------------------------
(* The main actor. *)

\* onFrame, of a list.
OnSessions(list) ==
  LET gone == {a \in client.agents : a \notin list.agents}
                \cup {s \in Shell : client.shells[s] # None /\ list.shells[s] = None}
      heard == Forget([client EXCEPT !.agents = list.agents, !.shells = list.shells], gone)
  IN \E c \in Prunings(heard) : Becomes(Reveal(AdoptNewShell(c)), Tail(events))

\* A shell that exits closes its tab.
OnExited(s) == Becomes(CloseShellTab(client, s), Tail(events))

\* "Most likely a daemon that predates Shell".
OnError ==
  LET a == client.pending IN
  Becomes(IF a # None /\ ShellKeys(client, a) = {} THEN CloseShell(client, a) ELSE client, Tail(events))

OnUp == Becomes([client EXCEPT !.sent = Append(@, [kind |-> "list"])], Tail(events))

Main ==
  /\ events # <<>>
  /\ LET e == Head(events) IN
       \/ e.kind = "sessions" /\ OnSessions(e.list)
       \/ e.kind = "exited" /\ OnExited(e.shell)
       \/ e.kind = "error" /\ OnError
       \/ e.kind = "up" /\ OnUp
  /\ UNCHANGED <<daemonVars, up, moves, missed>>

--------------------------------------------------------------------------------
(* The daemon. *)

Sessions == [kind |-> "sessions", list |-> table]
Error == [kind |-> "error"]

HandleList ==
  /\ Head(requests).kind = "list"
  /\ events' = Append(events, Sessions)
  /\ UNCHANGED <<table, issued, due, owed, moves, missed>>

\* A shell is made for a session that is there, if it can be launched.
HandleShell ==
  /\ Head(requests).kind = "shell"
  /\ LET a == Head(requests).of IN
       \/ \E s \in Shell \ issued :
            /\ a \in table.agents
            /\ issued' = issued \cup {s}
            /\ table' = [table EXCEPT !.shells[s] = [of |-> a, state |-> "up"]]
            /\ due' = TRUE /\ UNCHANGED <<events, moves, missed>>
       \/ /\ IF a \in table.agents THEN Moves /\ missed' = TRUE ELSE UNCHANGED <<moves, missed>>
          /\ events' = Append(events, Error)
          /\ UNCHANGED <<table, issued, due>>
  /\ UNCHANGED owed

HandleRestart ==
  /\ Head(requests).kind = "restart"
  /\ LET s == Head(requests).shell IN
       \/ /\ table.shells[s] = None
          /\ events' = Append(events, Error) /\ UNCHANGED <<table, due, moves>>
       \/ /\ table.shells[s] # None /\ table.shells[s].state # "down"
          /\ UNCHANGED <<table, due, events, moves>>
       \/ /\ table.shells[s] # None /\ table.shells[s].state = "down"
          /\ table' = [table EXCEPT !.shells[s].state = "up"]
          /\ due' = TRUE /\ UNCHANGED <<events, moves>>
       \/ /\ table.shells[s] # None /\ table.shells[s].state = "down" /\ Moves
          /\ events' = Append(events, Error) /\ UNCHANGED <<table, due>>
  /\ UNCHANGED <<issued, owed, missed>>

\* A session takes its shells with it, and their runs end.
HandleKill ==
  /\ Head(requests).kind = "kill"
  /\ LET id == Head(requests).id
         doomed == {s \in Shell : table.shells[s] # None /\ (s = id \/ table.shells[s].of = id)} IN
       /\ table' = [agents |-> table.agents \ {id},
                    shells |-> [s \in Shell |-> IF s \in doomed THEN None ELSE table.shells[s]]]
       /\ owed' = owed \cup {s \in doomed : table.shells[s].state = "up"}
  /\ due' = TRUE /\ UNCHANGED <<events, issued, moves, missed>>

Handle ==
  /\ up /\ requests # <<>>
  /\ requests' = Tail(requests)
  /\ HandleList \/ HandleShell \/ HandleRestart \/ HandleKill
  /\ UNCHANGED <<up, client>>

\* The shell exits; its channel is told, and then it is marked.
Ends(s) ==
  /\ table.shells[s] # None /\ table.shells[s].state = "up" /\ Moves
  /\ table' = [table EXCEPT !.shells[s].state = "over"]
  /\ owed' = owed \cup {s}
  /\ UNCHANGED <<issued, due, wireVars, client, missed>>

MarkStopped(s) ==
  /\ table.shells[s] # None /\ table.shells[s].state = "over"
  /\ table' = [table EXCEPT !.shells[s].state = "down"]
  /\ due' = TRUE
  /\ UNCHANGED <<issued, owed, wireVars, client, moves, missed>>

\* The feed and a forwarder. One that was not attached in time says nothing.
Tell ==
  /\ up /\ due
  /\ due' = FALSE /\ events' = Append(events, Sessions)
  /\ UNCHANGED <<table, issued, owed, up, requests, client, moves, missed>>

TellExited(s) ==
  /\ s \in owed
  /\ owed' = owed \ {s}
  /\ \/ up /\ events' = Append(events, [kind |-> "exited", shell |-> s])
     \/ client.shells[s] = None /\ UNCHANGED events
  /\ UNCHANGED <<table, issued, due, up, requests, client, moves, missed>>

\* The connection is lost, with the daemon or without it; what has come is still handled.
Drop ==
  /\ up /\ Moves
  /\ up' = FALSE /\ requests' = <<>> /\ missed' = TRUE
  /\ \E n \in 0..Len(events) : events' = SubSeq(events, 1, n)
  /\ due' = FALSE /\ owed' = {}
  /\ \/ UNCHANGED table
     \/ table' = [table EXCEPT !.shells = [s \in Shell |->
          IF @[s] = None THEN None ELSE [@[s] EXCEPT !.state = "down"]]]
  /\ UNCHANGED <<issued, client>>

Redial ==
  /\ ~up
  /\ up' = TRUE /\ events' = Append(events, [kind |-> "up"])
  /\ UNCHANGED <<daemonVars, requests, client, moves, missed>>

Daemon == Handle \/ Tell \/ \E s \in Shell : Ends(s) \/ MarkStopped(s) \/ TellExited(s)

Next == User \/ Main \/ Daemon \/ Drop \/ Redial

Spec == Init /\ [][Next]_panelVars

--------------------------------------------------------------------------------
\* Nothing is under way, to the daemon or back.
Quiet ==
  /\ up /\ requests = <<>> /\ events = <<>> /\ ~due /\ owed = {}
  /\ \A s \in Shell : table.shells[s] # None => table.shells[s].state # "over"

\* A session that is not listed has left nothing behind in the panel's state, however the
\* command, the list, the error and the exit that concern it were ordered.
PanelForgets ==
  /\ client.panel \subseteq client.agents
  /\ client.pending \in client.agents \cup {None}
  /\ client.awaiting # None => client.awaiting.of \in client.agents
  /\ client.keyboard \in Agent => client.keyboard \in client.agents
  /\ client.keyboard \in Shell => client.shells[client.keyboard] # None

\* A command that waits for a shell is served "the moment it has a live surface"
\* (AppModel.swift, shellFocusPending): when all is quiet none waits behind a shell that is
\* shown and runs, unless one that was asked for will never come.
ShellTakesKeyboard ==
  Quiet /\ ~missed /\ client.pending # None /\ client.pending = Selected(client) =>
    Visible(client) = None \/ ~Running(client, Visible(client))
================================================================================
