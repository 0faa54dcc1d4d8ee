# agents-hub in TLA+

A verification of the parts of agents-hub where an order of events decides whether it works:
the daemon (`src/server.rs`, `src/detect.rs`, `src/conversation.rs`, `src/main.rs`), the terminal
client (`src/tui`) and the macOS client (`macos/Sources`). Each module is a translation of the
source named in its header. TLC checks it on small instances; TLAPS proves, for instances of every
size, the safety properties of the session table and in which races only it loses a process, those
of the state file and the conversations, of the output stream, of the activity, of
the macOS link with the daemons it starts, of the change feed with a client of either kind, and of
the macOS client's terminals and shell panel.

Paths below are relative to the repository's root.

## The system

One daemon per machine owns the sessions. A session is a coding agent, or a companion shell of
one, running in a PTY. Clients (a terminal client in Rust and a macOS app in Swift) connect over
a Unix socket, directly or through `ssh host agents-hub stdio`, and exchange lines of JSON. The
daemon runs its handlers on a multi-thread runtime, reads every PTY on a thread of its own, and
has one scanner task.

| Component | State | Operations | What is hard |
|---|---|---|---|
| session table (`server.rs`) | `Hub.sessions`: entry, status, `Run`, parent | Create, Shell, Restart, Kill, `mark_stopped`, `scan` | handlers check, unlock, spawn and lock again; nothing ties the second look to the first |
| output stream (`server.rs`) | broadcast channel of a run, one forwarder per connection and session | `pty_reader`, Attach, forward, lag, exit | replay against live output, a bounded channel, an abort that is only a request |
| session log (`server.rs`) | the log file, `since_check` | open, append, trim; `mode_prelude`, `read_tail` | modes whose sequences have been cut off; a crash between write and rename |
| state file (`server.rs`) | `state.json`, `state.tmp` | `save`, `load_state`, `Hub::new` | saves of several threads at once, the daemon's death |
| activity (`detect.rs`, `server.rs`) | `Watch`, `Tracker`, `SessionInfo.activity` | chunk, resize, scan | startup grace, idle hold, a reading applied after a restart |
| change feed (`server.rs`) | `Hub.changed`, one feed task per connection | announce, list, send | coalesced notifications, a list that is older than one already sent |
| conversations (`conversation.rs`) | the conversation id of each session | new, fill, current, has_transcript | scan, restart and save each copy it |
| daemon start, agent proxy (`main.rs`, `server.rs`) | the socket, `agent.sock`, the upstream link | spawn, poll, bind, relink, forward | two starters and one stale socket; a link that points back at the proxy |
| session registry (`SessionRegistry.swift`) | `known`, `attached` | connected, disconnected, sessions, resized | reconnects, restarts and kills seen only through lists |
| terminal client link (`tui/link.rs`) | queue of requests, connection | vm_task, link, pump | requests that outlive the connection they were meant for |
| link (`VMLink.swift`) | process, `connected`, `backoff` | start, stop, reconnect, send, connect, teardown, retry | timers that cannot be cancelled, callbacks of a closed channel |
| attach feed (`AttachFeed.swift`) | backlog, grids, writeback | receive, finish, resized, laidOut, release | five events from four threads |
| agent watch, spaces (`AgentWatch.swift`, `Spaces.swift`) | last activity, done; spaces, pending creates | update, seen; move, prune, expect, claim | what a client may conclude from a list |
| application model (`AppModel.swift`) | rows, selection, spaces; panel, active tab, awaited shell, keyboard | commands, `onFrame`, `apply`, makeTerminal | commands that are answered by a later list, an error or nothing |
| terminal client (`tui/app.rs`, `event.rs`, `tree.rs`) | rows, selection, panes, focus, modals | keys, pastes, mouse, frames of the daemon | a selection that is a row number, events that are replayed into a dialog |
| views, wire format, configuration, setup | none that a property is about | | |

Components interact through the table's mutex (handlers, readers, scanner), through the two
kinds of broadcast channel (a run's output, the table's changes), through files (logs and
`state.json`, which outlive the daemon) and through the connection. A connection keeps the order
of its frames and loses what is in flight when it drops.

The hazards this leaves are listed in `PROJECT.json`, each at its line and with the properties
that are about it.

## Modules

| Module | Models | Checked with |
|---|---|---|
| `HubSessions` | the session table | `MCHubSessions`, configurations `MCHubSessions`, `MCHubSolo` |
| `SessionLifecycle` | the abstract life of a session that the table implements | as a property of `MCHubSolo` |
| `HubSessionsProofs` | theorems about `HubSessions` | tlapm |
| `StateFile` | `Hub::save` and its restoration | as a part of `Conversations` |
| `Conversations` | the conversation ids, composed with `StateFile` | `MCConversations` |
| `SessionLog` | `SessionLog`, `mode_prelude`, `read_tail` | `MCSessionLog` |
| `AttachStream` | `pty_reader`, the channel, Attach, forwarders | `MCAttachStream` |
| `ScreenRules` | the rules of `detect` | as a part of `ActivityTracker` |
| `ActivityTracker` | `Watch`, `Tracker`, `Hub::scan` | `MCActivityTracker` |
| `SessionFeed` | announcements, `serve_conn`, `SessionRegistry`, the terminal client's link | `MCSessionFeed` |
| `DaemonStart` | starting, finding and serving a daemon; the agent proxy | as a part of `LinkToDaemon` |
| `VMLink` | the macOS link | as a part of `LinkToDaemon` |
| `LinkToDaemon` | the link, its processes and the daemons they start | `MCLinkToDaemon` |
| `ClientProofs` | theorems about both clients' own side: the macOS link, alone and in the composition with daemons, and `TerminalApp` with its `SidebarTree` | tlapm |
| `RecordsProofs` | theorems about `StateFile`, `Conversations`, `SessionLog` and `AttachStream` | tlapm |
| `ActivityTrackerProofs` | theorems about `ScreenRules` and `ActivityTracker` | tlapm |
| `AttachFeedProofs` | theorems about `AttachFeed` | tlapm |
| `SessionFeedProofs` | theorems about `SessionFeed` | tlapm |
| `ShellPanelProofs` | theorems about `ShellPanel` | tlapm |
| `MacSidebarProofs` | theorems about `MacSidebar` | tlapm |
| `AttachFeed` | the macOS client's terminals: feed, surface, window | `MCAttachFeed` |
| `ShellPanel` | the macOS client's shell panel and the keyboard | `MCShellPanel` |
| `MacSidebar` | the macOS client's rows, selection, spaces and agent watch | `MCMacSidebar` |
| `SidebarTree` | the tree of working directories and its folds | as a part of `TerminalApp` |
| `TerminalApp` | the terminal client's state and events | `MCTerminalApp` |

A definition named `X_Something` is not part of its model: it is `X` with a plausible slip, kept
to show that the property listed beside it in `PROJECT.json` ("mutants") fails if the code had it.

### HubSessions

An action is one critical section: what happens between two acquisitions of the table's mutex.
Create is `Create`, `Insert`, `Announce`; Shell is `ShellCheck`, `ShellSpawn`, `Insert`,
`Announce`, or goes over to a restart; restart is `RestartCheck`, `Relaunch`, `Register`,
`Announce`; Kill is `Kill`, one `KillOne` for each session taken out, `Announce`. A handler's
locals wait in `conn`. Each launch has a child and a reader thread (`procs`), whose steps are
those of `pty_reader` and of the closure in `Hub::spawn`: open the log, see the end of the PTY
and take the child's mutex, reap the child, mark the session stopped, announce. The scanner looks
under the lock, and applies under the lock again. `untold` is a history variable: the table has
changed and nobody has called `changed.send` since.

A launch that fails is an alternative of the spawning action. A Kill walks what it has taken out in
an order that a hash map gives it, whichever and from then on fixed, and waits at the first child
whose mutex is taken, as `child.lock()` does; those behind it live on meanwhile. `RestoredTable` is
what `Hub::new` makes of any state file a daemon can have left.

### SessionLifecycle

What a client may rely on: a session is absent, running, stopped or gone; one process at a time;
stopped only after its process is dead; shells listed and removed with their session; gone for
good. `HubSessions` maps to it by `PhaseOf` and `ProcOf`. With one connection the table
implements it. With two it does not, since the second half of a handler trusts what its first half
saw: a Kill between the check and the insert of Shell leaves a shell listed under a session that is
gone, two restarts of one session at once launch two processes, a restart whose session is killed
during its spawn drops a living child, and a reader that marks its session by its id takes a run
that was registered meanwhile for its own. So the refinement and `NoOrphan` are checked for one
connection only, and nothing is proved of them. What holds of any number of connections is
`OnlyRacesLose`: a living child is let go of in the last three of these ways and in no other.

### StateFile and Conversations

Names and inodes: a write goes to the file that was opened, a rename moves a name. The table maps
the ids in it to conversations, a file's length grows with the table in it, and a shorter table
written over a longer one does not parse. `Crash` may fall between any two steps and hands
`Loaded` to the next daemon. Nothing in the code keeps two saves apart, and nothing here does.
`met` and `mixed` are history variables: which saves under way have had another beside them, and
whether the latest rename was of one of those.

`Conversations` adds who writes those ids: Create and Restart pick one, a scan reads the running
agent's own from its process and the transcripts, without the table's lock, in three steps
(`proc`, `found`, applied). The agent may start a new conversation at any time. One handler is at
work at a time, and an agent that ends takes a file read in progress with it.

### SessionLog

Of one DEC private mode: `mode_prelude` keeps modes apart by number, so more would repeat the
argument. The output is a sequence of pieces: "e" is what begins a sequence (`ESC[?` and digits),
"h" and "l" may end one, "-" is anything else. The reader gets up to `MaxRead` pieces at a time, and
its reads, the cuts of trim, of `read_tail` and of `mode_prelude`, and the daemon's death fall
between any two pieces, the halves of a sequence included. A sequence may also be broken off by
another, which `Collected` treats as the scan of `mode_prelude` does. The log is a suffix of the
output behind a prelude. Attach looks at the file twice, for the modes before the window
(`LookAtHead`) and for the window (`LookAtTail`), with the writer going on in between.

A cut through a sequence loses its mode: neither half is one. `hurt` is a history variable, that a
trim cut the last sequence there was; `lost` says the same of a replay's own window. `Sound` output
has no sequence that another breaks off.

### AttachStream

A chunk is its place in the output. `Oldest` is what the broadcast channel still holds. The reader's
thread runs before the handler that spawned it registers the `Run`, so the Run is in that handler's
hand, in the table or dropped: `Register` may come early, after the end of the output or never, and
a reader that marks the session stopped before it finds no Run to drop. The Run holds a sender of
its own, and the channel closes only when it is dropped as well. A task told to abort may go on
until its poll is over (`aborted`) and still send the chunk it has. `out` is the queue to the client
from the latest replay on.

### ScreenRules and ActivityTracker

A line of a screen is the set of phrases the rules look for in it; a screen is a sequence of such
lines. `ScreenRules` translates each rule of `detect` for Claude, Codex and OpenCode with the
region it looks at (`View`'s methods) and their order of precedence. `MCActivityTracker` samples
screens that each rule can tell from the one next to it, short and blank ones among them.
`ActivityTracker` paints these at will and lets the scanner's three steps interleave with a
session that is launched, stopped and launched again. Ticks stand for time, ages are counted up
to the grace and waits up to the hold.

### SessionFeed

One daemon and one client, of either kind, over connections that come, drop and are redialled.
`events` are what the link has handed to the client's main loop and outlive the connection, as
queued tasks do. The macOS link drops `requests` with the connection; the terminal client's queue
(`vm_task`, `pump`) keeps them for the next. The registry's `connected`, `disconnected` and
`sessions` are translated with the effects the applications apply. An older list may overtake a
newer one, since the feed and the handler read the table and send in tasks of their own.

### DaemonStart, VMLink and LinkToDaemon

`DaemonStart` has any number of starters that look for the socket, launch a daemon and poll, and
daemons that probe, remove and bind, each step of its own. Looking for the file and connecting to
it is one step. `relink_agent_sock` unlinks and then links; the proxy reads the link when it is
asked. Nobody is given the link itself as `$SSH_AUTH_SOCK`. `overlapped` is a history variable:
two daemons found the same stale socket.

`VMLink`: everything runs on one serial queue, so an action is one block of it: a connect that
was queued or whose delay is over, `reconnect`, `stop`, a failing `send`, the callbacks of the
read channel and the late teardown. A process may die at any point, or fail to start.

`LinkToDaemon` composes them: the link's process is a `stdio` that finds or starts a daemon, it
runs exactly while that starter does, hears what the daemon sends and dies with it.

### AttachFeed

One session and the terminal the client shows it in. Main actor, PTY bytes off it, ghostty's IO
thread and its parser are actors of their own, and `AttachFeed`'s methods are split where they let
go of the lock: `laidOut` reports the grid after it, `crossed` remembers a report sent out of turn.
The window may be closed and opened again and the view dragged. Only the last terminal of a
session is kept. Two assumptions are made of ghostty: the beat in the `sized` closure
(`TerminalSession.swift`) outlasts a resize that has been reported, and its mailbox empties within the grace.

### ShellPanel

The methods of `AppModel` call each other, so each is an operator from a client to a client, and an
action is a command, a frame or a callback that ends by becoming the result. Shells are numbers in
the order the daemon lists them. The agents' own runs are left out: a session is listed until it
is killed. `missed` is a
history variable: a shell that was asked for could not be made, or its request was lost.

### MacSidebar

The same form, for the rest of `onFrame`: claims, prune, readActivity, rebuild and pruneSelection
are one action, with a daemon for each machine that answers List and Create, and a feed that may
overtake an answer (`old`). The sessions of a machine are in one folder; nesting and folds are
`SidebarTree`'s matter, and `CwdTree.swift` is the same algorithm. `worked` and `late` are history
variables. The filter is the set of names it lets through. A launch of the client keeps the book and the view, as `UserDefaults` does.

### SidebarTree and TerminalApp

`SidebarTree` computes the rows of a set of sessions as `tree` does: segments, folders, and a
folded folder that keeps what holds sessions and elides the rest. `TerminalApp` is `App` under
`on_key`, `on_paste`, `on_mouse`, `on_msg` and the frame: each handler is an action, and what it
does to rows, selection, focus, dialogs, panes, scrollback and the text selection is kept.

## Runs

| Run | Configuration | Bounds, and why they do |
|---|---|---|
| `hub_two_clients` | `MCHubSessions` | two ids, two launches, two connections, one reading (350,000 states up to symmetry). Two ids make a session and its shell; two launches make a relaunch and a rival; two connections are what every race needs |
| `hub_one_client` | `MCHubSolo` | the same with one connection and no readings, under `FairSpec`; refinement and liveness |
| `state_file` | `MCConversations` | one session, two conversations, two savers, three inodes, two crashes (340,000 states up to symmetry): two saves that overlap in any way and a lone one after them, a table that grows and shrinks, and a second crash in the recovery from the first. Three inodes are what two names and a file that is open without one take; sessions are independent but for the length of the table, and `LoneSavesHeal` is of any number |
| `session_log` | `MCSessionLog` | six pieces in reads of one or two, two launches, `Replay` 1, `LogKeep` and `LogMax` 2 (13 million states): each cut through a sequence and beside one, and a trim of a log that is itself the result of one |
| `attach_stream` | `MCAttachStream` | four chunks against a channel of two, two attaches (190,000 states): a forwarder that lags, one that is aborted in its poll, and a Run registered at any time or never |
| `activity` | `MCActivityTracker` | two launches, grace and hold of three ticks, so that a wait can be entered, interrupted and completed; the sampled screens of all three agents |
| `session_feed` | `MCSessionFeed` | one session, three changes, two connections, one request of the user's (870,000 states): a run, its end and the next, before, in and after an outage |
| `vm_link` | `MCLinkToDaemon` | two processes, delays up to 2, two daemons, one agent (4.4 million states): one process to lose and one to come late to, two daemons to race for a socket |
| `terminal_app` | `MCTerminalApp` | two machines with a session each, one below a folder (240,000 states) |
| `attach_feed` | `MCAttachFeed` | two grids, a backlog of two, and any three events out of a chunk of output, an exit, a restart, a lost connection, a drag and a closed window (3.9 million states): a restart over a new connection, a window closed under a restarted session, a drag while a replay is held |
| `shell_panel` | `MCShellPanel` | two sessions (interchangeable: symmetry), two shells and any three moves out of a command, an exit, a failed launch and a lost connection (1.43 million states): two commands and what answers the first of them late or never |
| `mac_sidebar` | `MCMacSidebar` | two machines with a session each, one space, one name and any three moves out of what the user does, what a session does, a lost connection and a launch of the client (1.7 million states): a space made and filled before an outage or a launch, a turn that ends while the user is away |

`MaxMoves` and `MaxEvents` bound all that nobody answers for; what follows from it (requests,
lists, callbacks, layouts) is not bounded.

Deadlock is not checked where the system may rest: in `state_file`, `attach_stream`, `attach_feed`,
`session_feed`, `vm_link`, `shell_panel` and `mac_sidebar` the bounded inputs are used up, and a
stopped link has nothing to do.

### Properties

* `HubSessions`: `StoppedIsBare` (Running exactly with a run, an activity only then),
  `RunHasOneOwner` (a PTY is never in two hands), `UntoldHasTeller` (a change always has someone on
  the way to announce it), `KilledStaysKilled` (an id once gone stays gone), `OnlyRacesLose` (a living
  child is let go of in three races only: its session was killed during the restart, or restarted
  by another as well, or marked stopped by the reader of an earlier run); with one connection also
  `NoOrphan` (a living child can be reached), the refinement `KeepsLifecycle` (which has that a
  running session is left alone, and that no shell outlives its session), `DeathIsListed` and
  `KillReachesChild` (every child Kill has taken out ends, behind whatever its walk waits for,
  unless one of those lives on for ever with its terminal closed).
* `StateFile` and `Conversations`: `LoneSaveHeals` (whatever overlapping saves have left, the rename
  of a save that had no other beside it leaves a file that parses, `StateFileParses`, and when all is
  over holds the table, `SavedWhenIdle`; it holds from the start, where there has been no save), and
  `TurnIsRemembered` (a conversation that had a turn is what a restart resumes, once the screen has
  been scanned).
* `SessionLog`: `ReplayRestoresModes`, of the log and of every replay, in `Sound` output. The mode is
  lost only by a cut through the very sequence that set it last: of the log by a trim's, of a replay
  by that one or its own window's. A replay is only held to its modes if nothing was appended
  between its two looks; a trim between them is allowed.
* `AttachStream`: `LiveFollowsReplay` (of all that a client is sent live: what its latest attach
  forwards is in order and repeats at most the one chunk that was logged and not yet sent; anything
  else comes of a forwarder that has been told to stop), `ExitTold`, `ForwardersEnd` (but for those
  that subscribe to a Run registered after its session was marked stopped, `LeftOpen`).
* `ActivityTracker`: `ScreensAreRead` (each region is a piece of the screen, and what is above the
  live prompt decides nothing), `TableFollows`, `NoFlicker`, `TableCatchesUp`.
* `SessionFeed`: `ReattachedAfterReconnect`, `RestartIsSeen`, `ComesToRest`.
* `DaemonStart`: `ServedIsReachable` (unless two overlapped), `AgentIsReal` (the proxy forwards to an
  agent, never to itself).
* `VMLink`: `OneDialer`, `NoStray`, `ToldTheTruth`, `DeathIsSeen`.
* `AttachFeed`: `FeedKeepsOrder`, `DefaultGridUnseen`, `PtyHasTheGrid`, `ReplayIsShown`,
  `HistoryUnanswered` (of a feed whose first bytes answered its own Attach).
* `ShellPanel`: `PanelForgets`, `ShellTakesKeyboard` (unless `missed`).
* `MacSidebar`: `FiledStays` (only the user takes a session out of its space), `BannerPerTurn`.
* `SidebarTree` and `TerminalApp`: `FoldsHideNoSession`, `NothingDangles`, `SelectionHolds`.

Each module states the types of its variables (`TypeOK` and the like). They are proved wherever
there are theorems; those of the other modules hold on the instances above and are left out of the
configurations.

### What the models show besides

The properties leave these out, by name or by the instance they are checked on, and most are among
the hazards. First what a line of the repository says otherwise of. For the first six there is a
property that TLC refutes when it is put in a configuration of its module: `StateFileParses` is in
`StateFile`, the others are in the `MC` modules, and no run checks them.

* Two Restarts at once both see the session stopped; the second registers its run over the first's,
  which nothing reaches any more ("a running one is left alone", `server.rs`):
  `RunningLeftAlone` fails with two connections.
* Shell and Kill on two connections: a shell can outlive its session ("a companion shell goes with
  its session", `server.rs`): `ShellHasSession` fails with two connections.
* A process that closes its terminal and lives on holds up the Kill of its session, and its shell
  lives on behind it ("Killing the session kills its shell", `README.md`): `KillEndsShell` fails with
  one connection.
* Two savers at once (`server.rs`, `save`) write one `state.tmp`: the second empties what the first
  is about to rename, for all that "a crash mid-write can't leave a truncated state file":
  `StateFileParses` alone fails with two savers. And of two that overlap the older snapshot may be the
  one that lands last, until the next save.
* A trim that cuts through a sequence loses its mode ("Modes set before the part we keep would
  otherwise be unrecoverable", `server.rs`): `TrimKeepsModes` fails.
* A forwarder that is aborted during its poll sends its chunk behind the new replay ("so no stale
  live chunk can land after it", `server.rs`): `NoStaleChunk` fails.
* A paste into the Kill dialog of the terminal client: the character that closes the dialog leaves
  the rest to the sidebar, where "a paste would run single-letter commands" (`event.rs`).
* What a feed receives first may answer the Attach of the terminal before it, when a restart is
  listed while that answer is under way ("whichever comes first proves the attach has answered",
  `AttachFeed.swift`).
* A shell that exits behind a panel hidden with Command-B opens the panel again, if the session has
  another shell (`AppModel.swift`, `closeShellTab` and `show`).
* Of two new tabs asked for before the first is listed the second is never shown: one slot,
  `awaitingShell`, remembers both. After a new tab that could not be launched the slot stays, and
  keeps the session's other tabs from the keyboard.
* A panel opened on a shell whose Kill is under way stays open over nothing ("the panel closes with
  its last tab", `AppModel.swift`).
* A Create that is lost or fails leaves its expectation, which takes the next session of that
  machine, agent and name into its space (`Spaces.swift`, `claim`).
* A filter that hides every session while the first list comes leaves the pane empty when it is
  cleared, until the next list (`AppModel.swift`, `filter`).

And what contradicts nothing:

* A run that ends before it is registered is marked stopped too early: the session then shows as
  running, and a forwarder that subscribes to that Run is told neither Exited nor that the channel
  is closed, and stays (`LeftOpen`).
* A chunk sent between the reading of the log and the subscription is in neither: the live output
  then begins behind the replay with a gap.
* A sequence that another breaks off may be misread by `mode_prelude`, and the window of a replay
  may cut one in two: the client's terminal has the mode when the guest sets it again.
* A stop whose list was coalesced with the next start is never shown. A restart the user asked for
  is seen all the same (`RestartIsSeen`); one by another client may not be.
* `backoff` is reset by a process that merely starts, so a process that dies at once is retried
  after the shortest delay each time.
* Two daemons that find one stale socket can both bind, and the first is then unreachable.
* A scan that was reading an old run's transcript when the session was restarted writes what it
  found to the new one.
* The exit of any session takes the terminal client's focus to the sidebar.
* A grid that `laidOut` reports can cross a resize that ghostty reports, until the next layout.
* A list that arrives after a newer one prunes a session that was filed in between, and may
  repeat a banner.

### Fairness

`HubSessions!FairSpec`: a handler that has begun is run on by its task, a reader thread by the
operating system, the scanner by its interval. Nothing makes a client ask or a child end, and a
reader only sees the end of the PTY for certain once the child is dead. `AttachStream!FairSpec`:
the reader finishes what it has in hand and forwarders with something to receive are scheduled;
nothing makes a handler register the Run or a client attach.
`ActivityTracker!FairSpec`: time passes and the interval goes off. `SessionFeed!FairSpec`: the
daemon's tasks and the client's are scheduled; links and changes are not.
The other modules have safety properties only; `DeathIsSeen`, `ReplayIsShown` and
`ShellTakesKeyboard` are the safety forms of "it gets there": when nothing is under way any more,
or nothing that could still do it, it has been done.

## Proofs

The theorems hold for any values of the constants that satisfy the assumptions named beside each
module. Those say only that `None` and its like are no member of what they stand beside, that a
bound is a number, and what the code fixes: a channel and a backlog hold at least one entry, the
default grid is no grid a view is laid out at, the sampled command line runs an agent, a screen is
a sequence of lines, the empty filter lets everything through, and ids are finitely many.
Nothing else is assumed of how many sessions, clients, threads, launches, chunks or crashes there
are.

Each invariant is proved from a stronger, inductive one, which TLC checked on the runs above before
it was proved. A preservation lemma has one step per action, or one per kind of step where several
actions do the same to what the invariant is about.

### HubSessionsProofs

From `NoneAssumption`, `ReadingAssumption` and `EntryAssumption`.

* `Inductive`: `IndInv` is an invariant. `IndInv` joins `TypeOK`, `StoppedIsBare` and
  `RunHasOneOwner` with `LocalsFit` (a handler past its spawn has an id and a launch, and the
  launch is for that id) and `LaunchesFit` (a launch that has not happened is nobody's). Without
  these two the owners are not inductive: a spawn could pick a launch that is in the table, and a
  registration could put a run under an id it was not launched for.
* `TypeCorrect`, `StoppedStaysBare`, `OneOwner`: its parts.
* `KilledIsFinal`: from `IndInv`, no step brings a gone id back. The cases that matter are
  `Insert`, whose id is issued and on its way in and so not gone, and `Register`, which looks
  again.
* `NothingUntold`: every step that sets `untold` leaves its author on the way to announce.
* `LossesAreRaces`: `OnlyRacesLose`, for any number of connections. Beside `IndInv` it takes
  `HandsAreNew` (`HandsStep`): the id of a new session or shell on its way in is in no table and in
  no other hand, and a reader about to mark has a dead child; without it an insert might overwrite
  a run. `StillReached` says when a child is not let go of, and `LossStep` goes through the actions:
  only `Register` and the mark can lose a living child, and each in the races named.

That the table implements `SessionLifecycle` and that no child is orphaned are not proved: with more
than one connection neither holds, and that there is but one, or that requests come one at a time,
is nothing the code ensures.

### ClientProofs

Of the macOS link, from `LinkAssumption`, `DaemonStartAssumption` and, in the composition, `ClientsAreProcesses`.

* `LinkInductive`: `LinkInv` is an invariant. It joins `LinkTypeOK`, `OneDialer`, `NoStray`,
  `ToldTheTruth` and `Carried` (`connected` says whether there is a process; a stopped link has
  none). The parts lean on each other: a connect that comes up finds no process to lose because
  `OneDialer` held, `reconnect` finds one to let go because `Carried` did, and only so does
  `NoStray` survive both.
* `OneDialerAlways`, `NoStrayEver`, `AlwaysToldTheTruth`: its parts.
* `DeathIsAlwaysSeen`: on top of `LinkInv`, `Watched` says which callback or teardown each dead
  process still has coming; it gives `DeathIsSeen`.
* `LifeImplementsLink`, `LifeImplementsStart`: `LinkToDaemon` implements both the link and the
  daemons beside one another. A step of a starter or a daemon leaves the link alone or is the start
  or the death of its process, and the other way about.
* `StartInductive`: `StartInv` says that a daemon that did not start beside another is the only one
  starting (`LoneStart`), and that while one of those serves the socket is its own and everyone
  who starts has yet to probe it (`LoneServer`). `ServedStaysReachable` and `AgentStaysReal` follow.
* `LifeKeepsLink`, `LifeKeepsDaemons`: so the promises of both hold in the composition.

Of the tree of folders, from `HomeAssumption` alone:

* `TreeShowsAll`: for any list of sessions in any folders and any set of folds, every session is on
  one row, right below its own folder, and the folders shown are all but those that hold no session
  and lie below a fold. Neither recursion of the definition is in the way: `FlattenSeq` counts its
  argument and `Walk` the segments of a path, and each is a function that some set of its arguments
  is shown to exhaust (`UpTo`). First that the recursion has a solution at all (`FlattenIs`,
  `WalkIs`), then what it is: where the parts of a flattened list begin (`FlattenPlaces`), and from
  the deepest folders up that the rows of a folder are `Grouped`, each folder once with its sessions
  behind it, and `Named`, which folders those are (`WalkAre`). An elided row is followed by
  what it stands before, so no list ends on one.
* `SortedIs`: what is sorted by an order of a finite set has each element once, the lesser first.
  `InOrder` and `Ascending` rest on it, and `BeforeOrders` says that the order of paths is one.
* `TreeAbove`: a fold leaves the rows above the folder as they are, and the folder itself.

Of the terminal client, from `AppAssumption`. `AppInv` joins `SessionsOk` (types of what was
listed), `BuiltOk` (the rows were built from the list, the folds and, unless one is being typed,
the filter of now, and `sel` is a row), `PanesOk` and `DoneOk`. Without `BuiltOk` none of the three
promises is inductive: a fold rebuilds the rows from everything there is now, and moves the
selection unless nothing but that one fold is new to them. `SideEnds`, that the rows never end on
an elided row, is why a step past the last one stays off it.

* `AppNothingDangles`, `AppFoldsHideNoSession`: of every reachable state. The second takes
  `TreeShowsAll` for each machine, and that a session is of one machine (`SideSessions`).
* `AppSelectionHolds`: of every step. That the selection stays on a folder that is folded or
  unfolded is `TreeAbove`, carried over the rows of the machines before it (`SideAbove`).

### RecordsProofs

Of `state.json`, from `StateFileAssumption` and `ConvAssumption`:

* `LoneSavesHeal`: `LoneSaveHeals`, for any number of threads that save at any time and wherever the
  daemon dies. `HealInv` joins the types with `LoneFits` (a save that has had no other beside it has
  the empty `state.tmp` to itself while it writes, and its own snapshot there when it renames) and
  `StateKept` (while the latest rename was of such a one, the file parses, nobody writes to it, and
  what it lacks of the table is still to be saved). Nothing is assumed of how saves are timed.
* `ConvImplementsStateFile`, `ConvKeepsStateFile`: scans, agents and sessions are a client of
  `StateFile`, so that holds of `Conversations` too.
* `TurnsAreRemembered`: `TurnIsRemembered` for any number of savers. A scan that has read and not
  yet written has read the conversation its process is in (`ReadIsCurrent`).

Of a session's log, from `LogAssumption`, which orders `REPLAY_BYTES`, `LOG_KEEP` and `LOG_MAX` as
the code does and leaves them otherwise open:

* `LastPlace`, `ModeOfIs`: the mode is what the last sequence says, and there is a last one: had from
  the least element of a set of numbers, not by induction over the file.
* `SoundIsCollected`: where no sequence is broken off, `mode_prelude` finds all there are.
* `SplitIs`, `SplitTells`: a file cut at any place tells the same by its two halves, prelude before
  tail, unless the cut is through its last sequence (`CutThrough`). `BothTell` and `BothEnd` are the
  same for what is put together: of two parts the later has the say where it tells anything, and a
  sequence may begin in the one and end in the other.
* `RestoredTell`, `KeptTells`: so a replay, and the log after a trim, tell what the log told.
* `LogInductive`: in `LogInv`, the log goes on as the output does, so a sequence that is begun in both
  ends in both (`EndFits`); what waits in the `.trim` file was made of the log as it still is
  (`TrimFits`); and an attach between its looks has modes that go with the window it will see unless
  more is logged first (`LookFits`). `ModesAreRestored` follows.

Of what is sent of it and of the channel, from `AttachAssumption`. `AttachInductive`: `AttachInv` ties the log, the channel, each forwarder
and each client's queue together: how far the channel may be from the log in each place of the
reader, that an old forwarder is told to stop and the current one ends only after Exited
(`ForwarderFits`), and that what a client has from each of its forwarders, the stale ones included,
is in order and ends before that forwarder's next (`QueueFits`). Where the Run is moves nothing else
(`RunMoves`).
`LiveComesAfterReplay` and `EndIsTold` follow.

### ActivityTrackerProofs

From `TrackerAssumption`, `WindowAssumption` and `ScreenAssumption`.

* `ScreensCanBeSliced`: on any screen each region is a slice of it, so no rule slices out of
  bounds, however short the screen.
* `HistoryChangesNothing`: a line of conversation above a live prompt changes no verdict, on any
  screen. Lines the rules look for on the whole screen are excepted; the attempt to prove it
  without the exception showed that Codex has one such rule more than was written down.
* `EveryScreenIsRead`: both, of every screen an agent paints.
* `TrackerTyped`, `TableTellsTheTruth`, `GapsAreHeld`: `TrackerInv` says whom the scanner may still
  be carrying a reading of while the run in the table changes, and that a Watch that waits has
  waited no longer than nothing has read working. `TableFollows` and `NoFlicker` follow.

### AttachFeedProofs

From `AttachFeed`'s `FeedAssumption`. `FeedInductive`: `FeedInv` joins the types with `GridFits`
(which grid the surface has, has been asked for and has told, in each stage of a resize),
`PtyFits` (what the PTY of a streamed run was told last), `FlowFits` (the order of the answers to
Attach on the wire and which terminal each is for), `OrderFits` (what is parsed, waits for the
parser or is held back are one sequence) and `OpenFits` (how far the opening of a terminal has
got). `FeedTyped`, `FeedStaysInOrder`, `DefaultGridStaysUnseen`, `HistoryStaysUnanswered`,
`PtyKeepsTheGrid` and `ReplayGetsShown` follow.

### SessionFeedProofs

From `SessionFeed`'s `FeedAssumption` (the sessions are finitely many, so that a list names each
once) and `NoneAssumption`. `FeedInductive`: `FeedInv` joins the types, and that changes and tellings
still due stay within the bound, with

* `WiresFit`, `HoldingsFit`: what may be on the wires and in the link's hands while it is up, down
  or about to notice;
* `KillsFit`, `ListsFit`: a session told as gone is gone from the table, and no list of this
  connection names one that was gone before it;
* `AttachedFit`: what the client is attached to the daemon streams to it, or an Attach is queued;
* `ListedFit`: until a list of this connection is heard one is on its way, and from then on the
  client is attached to every session it knows;
* `RestartsFit`, `AnswersFit`: each restart in the queue is of a session the user awaits or an
  Attach follows it, and the run that answers the user's request is streamed, about to be, or
  awaited with a list on its way.

`AttachedAnew` and `RestartGetsSeen` follow. The list's many Attach requests come in an order the
code leaves to a hash map; `SeqOfSet` says all a proof needs of one, that it names each once.

### ShellPanelProofs

From `ShellPanel`'s `PanelAssumption` (shell ids are finitely many numbers, so that each set of tabs
has a first and a last) and `NoneAssumption`. Each method of `AppModel` has a lemma that says what
it leaves of a client (`RevealIs`, `ShowIs`, `CloseShellTabIs`, `AdoptIs`, ...), and
`PanelInductive`'s `PanelInv` joins

* `Sound`, `Revealed`: of the client alone, that it has forgotten what is not listed, that while it
  awaits a shell there is none yet that it could be, and that it has left no focus pending behind a
  shell that runs;
* `OrderFit`: the client's list, those under way and the table are in the order of the daemon's
  states, in which no shell comes back (`Before`) or changes its session (`Past`);
* `KillsFit`: only a shell that has been listed is killed. With `OrderFit` and `Sound` it follows
  that a kill never takes a shell that is still awaited;
* `SyncFit`: unless something was lost, the latest list has the sessions of the table, or another
  is to come;
* `AwaitFit`: unless one was refused or lost, a shell that is awaited is asked for or made, or its
  session is gone.

`PanelTyped`, `PanelAlwaysForgets` and `ShellGetsKeyboard` follow.

### MacSidebarProofs

From `MacSidebar`'s `SidebarAssumption`. A lemma per method says what it leaves of the client
(`MovedKeeps`, `ClaimCreatedKeeps`, `PruneKeeps`, `ForgetIs`, `ReadActivityIs`, and `OnSessionsIs` of
all a list does), and one per kind of step what becomes of a session's `Stream`: the events a
machine has sent and the client has yet to hear, with the answer its handler has in hand at the end
(`QuietFit`, `FewerFit`, `MoreFit`, `HeardOfFit`, ...). `SidebarInductive`: `SidebarInv` joins the
types, `OneHome` and, for each session,

* `HeardFit`: while it is in the table, whoever has heard of it, the client or an earlier list, goes
  on hearing of it in every list but those that come late, and by its name;
* `UnheardFit`: an id that has not been given out is in no list and no space, and in no reading;
* `TurnsFit`: each list can be dated by the stretches of work that were over when it was read, and
  the client's banners by the last list that counts for it, so that a list that shows the session
  at work and a later one that does not have a stretch ending between them. The dates are the
  invariant's own: there are some, which is all that is said of them;
* `DotsFit`: a dot is on a session that is listed and idle, and was so when it was last read.

`BannersPerTurn` follows from the dates. So does `FiledAlwaysStay` from `HeardFit`: a list that does
not come late and lacks a session that is filed, and so known, means that its daemon has it no more.
`SidebarTyped` adds to `SidebarInv` that the space shown, or the pseudo view, is one that exists.

### What proving changed

`HubSessions!ProcOf` was a `CASE` two of whose guards hold of a living child that is in the table;
TLC took the first, the definition allowed either, and it is an `IF` now. `FeedKeepsOrder`
says by places what it said by a filter, which a prover cannot unfold. `WholeScreen("Codex")` has
the phrase that its proof attempt found missing. `MacSidebar!ClaimCreated` says by ranks, who is
the first to ask and who the first to come, what it said by a fold over the list, of which nothing
can be proved for lists of any length. The other additions are assumptions that a model
value is not a member of the sets it stands for the absence of, and that ids, which the code writes
as two 64-bit numbers, are finitely many.

`SidebarTree!Sorted` took the order as an operator, and takes it as a set of pairs now, since a
lemma about every order cannot be stated of an operator; `At` says by places what it said by a filter. What a
working directory is (`Cwds`) was left to the configuration and is an assumption now. `VMLink` and
`DaemonStart` had names that `TerminalApp` has too, and have others.

### What is only model-checked

Liveness (`DeathIsListed`, `KillReachesChild`, `ForwardersEnd`, `TableCatchesUp`, `ComesToRest`):
fairness and `ENABLED` are beyond the prover. Of the rest, what holds only of an instance: `NoOrphan`
and `KeepsLifecycle` with one connection. The other invariants and action properties that a run
checks are theorems. The prover's induction theorems cannot be used, as they take an operator: where
a proof needs the first place at which something happens it takes a least counterexample
(`LeastPlace`), and where it needs an induction the set of numbers up to which all is well (`UpTo`).

## Not modelled

Frames as JSON, PTYs as devices and terminal emulation; the views of both clients, which draw what
is modelled and keep no state a property is about; configuration and setup, which run once. Of the
terminal client, the fields of the New dialog and the encoding of keys and mouse for the PTY; of
the macOS client, folds and favourites of its sidebar, completion of a half-typed directory, drops
of folders, settings and status lines; of `LineReader`, everything but a line that is too long.
`spawn` is one step: that it can fail after the child has been launched is a hazard without a model.

## Plan

Modelling that is left: `LineReader` and the completion as operators against reference
definitions; the terminal client's `reconcile` with the sizes that go with an Attach.
