------------------------------- MODULE AttachFeed -------------------------------
(***************************************************************************)
(* One session's terminal in the macOS client: the feed that holds what    *)
(* the daemon sends until the surface has its grid, and keeps the answers  *)
(* to history from the PTY (src/macos/Sources/AgentsHubCore/AttachFeed     *)
(* .swift), with its hosts (TerminalSession, TerminalRouter and AppModel   *)
(* in src/macos/Sources/AgentsHub).                                        *)
(*                                                                         *)
(* The link's queue, the main actor, ghostty's IO thread, its parser and a *)
(* timer meet at the feed's lock: a step is what one of them does under    *)
(* it, or between two looks.  A terminal that is replaced is freed, and    *)
(* only the last one is kept here.  The daemon is reduced to one session's *)
(* streams and lists.  Ghostty is external: what is assumed of it is said  *)
(* where it is used.                                                       *)
(***************************************************************************)
EXTENDS Naturals, Sequences

CONSTANTS
  Grid,      \* what a view can lay out
  Saved,     \* the one the app was left with
  Default,   \* the grid a surface starts at
  Limit,     \* backlogLimit, in chunks
  MaxEvents, \* bound on chunks of live output, launches, lost connections, drags and closed windows
  None

ASSUME FeedAssumption ==
  /\ Saved \in Grid /\ Default \notin Grid /\ None \notin Grid \cup {Default}
  /\ Limit \in Nat \ {0} /\ MaxEvents \in Nat

VARIABLES
  daemon,   \* the session's run, whether it is up, a list that is due
  stream,   \* the connection's forwarder: whose Attach it answers, its run, what it has to send
  frames,   \* what is on its way from the daemon to the feed and to the main actor
  reports,  \* grids the main actor has yet to hear of
  known,    \* SessionRegistry.known, of this session
  attached, \* whether it is in SessionRegistry.attached
  window,   \* open, and a redial to come
  pane,     \* AppModel.pane
  made,     \* terminals so far, the last one being the router's sink
  feed,     \* its AttachFeed, with the host's steps around it
  session,  \* its ghostty session: what waits for the parser, and what has been parsed
  surface,  \* its surface, None when there is no window
  pty,      \* the grid the PTY has been told last
  leaked,   \* an answer to history reached the PTY from a feed that had not settled early
  events    \* what happened so far of all that MaxEvents bounds

netVars == <<daemon, stream, frames>>
appVars == <<reports, known, attached, window, pane, made>>
termVars == <<feed, session, surface>>
feedVars == <<netVars, appVars, termVars, pty, leaked, events>>

--------------------------------------------------------------------------------
NewFeed ==
  [backlog |-> <<>>, held |-> TRUE, exit |-> None, laidOut |-> None, reported |-> None,
   sized |-> FALSE, arrived |-> FALSE, open |-> FALSE,
   timer |-> "off",      \* the beat between sized and release
   opening |-> "no",     \* settled, and the host's wait for the parser before it opens
   reporting |-> None,   \* what laidOut told the main actor to report
   crossed |-> FALSE,    \* ghostty reported another grid before it did
   answered |-> FALSE,   \* the Attach it was made for was answered
   early |-> FALSE,      \* settled before that
   got |-> 0]            \* chunks received

NewSession ==
  [input |-> <<>>, parsed |-> <<>>,
   narrow |-> FALSE,     \* something was parsed at the default grid
   answers |-> FALSE]    \* what the parser answered to history is in ghostty's mailbox

NewSurface ==
  [grid |-> Default,
   resizes |-> <<Default>>, \* what the IO thread has yet to take up
   resizing |-> None,       \* what it has reported and not yet applied
   laid |-> FALSE,          \* the view was laid out
   sizes |-> <<>>]          \* sizes it has yet to publish

NoStream == [term |-> 0, run |-> 0, queue |-> <<>>]

\* The variables have these types in every reachable state.
FeedTypeOK ==
  /\ daemon \in [run : 1..(MaxEvents + 1), up : BOOLEAN, due : BOOLEAN]
  /\ known \in {None, "Running", "Stopped"} /\ attached \in BOOLEAN
  /\ window \in [open : BOOLEAN, redial : BOOLEAN]
  /\ made \in Nat /\ stream.term \in 0..made /\ events \in 0..MaxEvents
  /\ feed.laidOut \in Grid \cup {None} /\ feed.reported \in Grid \cup {Default, None}
  /\ feed.timer \in {"off", "armed", "ripe"} /\ feed.opening \in {"no", "settled", "parsed"}
  /\ pane \in Grid /\ pty \in Grid \cup {Default} /\ leaked \in BOOLEAN

Init ==
  /\ daemon = [run |-> 1, up |-> TRUE, due |-> TRUE]
  /\ stream = NoStream /\ frames = <<>>
  /\ reports = <<>> /\ known = None /\ attached = FALSE
  /\ window = [open |-> TRUE, redial |-> FALSE]
  /\ pane = Saved /\ made = 0
  /\ feed = NewFeed /\ session = NewSession /\ surface = None
  /\ pty = pane /\ leaked = FALSE /\ events = 0

--------------------------------------------------------------------------------
Happens == events < MaxEvents /\ events' = events + 1

--------------------------------------------------------------------------------
(* The feed, under its lock. *)

\* settle: fires once, when something has arrived and nothing is held.
Settled_Unarrived(f) ==
  IF ~f.held /\ f.opening = "no" THEN [f EXCEPT !.opening = "settled"] ELSE f
Settled(f) ==
  IF f.arrived /\ ~f.held /\ f.opening = "no"
    THEN [f EXCEPT !.opening = "settled", !.early = ~f.answered] ELSE f

Capped(held) == IF Len(held) > Limit THEN Tail(held) ELSE held

Piece(kind, n) == [kind |-> kind, n |-> n]

\* receive. Chunks are numbered as they come.
Receive_HeldUntilSized(chunk) ==
  LET piece == Piece(chunk.kind, feed.got + 1) IN
  /\ feed' = Settled([feed EXCEPT
       !.arrived = TRUE, !.got = @ + 1, !.answered = @ \/ chunk.term = made,
       !.backlog = IF feed.sized THEN @ ELSE Capped(Append(@, piece))])
  /\ session' = IF feed.sized THEN [session EXCEPT !.input = Append(@, piece)] ELSE session
Receive(chunk) ==
  LET piece == Piece(chunk.kind, feed.got + 1) IN
  /\ feed' = Settled([feed EXCEPT
       !.arrived = TRUE, !.got = @ + 1, !.answered = @ \/ chunk.term = made,
       !.backlog = IF feed.held THEN Capped(Append(@, piece)) ELSE @])
  /\ session' = IF feed.held THEN session ELSE [session EXCEPT !.input = Append(@, piece)]

\* finish, of the stream that answers the terminal's Attach or of one before it.
Finish(term) ==
  LET piece == Piece(IF term = made THEN "exit" ELSE "old exit", 0) IN
  /\ feed' = Settled([feed EXCEPT !.arrived = TRUE, !.exit = IF feed.held THEN piece ELSE @])
  /\ session' = IF feed.held THEN session ELSE [session EXCEPT !.input = Append(@, piece)]

\* matchIfLaidOut, and sized, which starts the beat that has to outlast a resize that has
\* been reported and not applied.
Matched(f, busy) ==
  IF ~f.sized /\ f.reported # None /\ f.reported = f.laidOut
    THEN [f EXCEPT !.sized = TRUE, !.timer = IF busy THEN "armed" ELSE "ripe"] ELSE f

\* release
Release ==
  /\ feed.timer = "ripe" /\ feed.held
  /\ feed' = Settled([feed EXCEPT !.held = FALSE, !.backlog = <<>>, !.exit = None])
  /\ session' = [session EXCEPT !.input =
       @ \o feed.backlog \o IF feed.exit = None THEN <<>> ELSE <<feed.exit>>]
  /\ UNCHANGED <<netVars, appVars, surface, pty, leaked, events>>

--------------------------------------------------------------------------------
(* The daemon. *)

Frame(kind, term) == [kind |-> kind, term |-> term]
List == Frame(IF daemon.up THEN "Running" ELSE "Stopped", 0)

Prints ==
  /\ daemon.up /\ stream.run = daemon.run /\ Happens
  /\ stream' = [stream EXCEPT !.queue = Append(@, "live")]
  /\ UNCHANGED <<daemon, frames, appVars, termVars, pty, leaked>>

Exits ==
  /\ daemon.up /\ Happens
  /\ daemon' = [daemon EXCEPT !.up = FALSE, !.due = TRUE]
  /\ stream' = IF stream.run = daemon.run THEN [stream EXCEPT !.queue = Append(@, "exited")] ELSE stream
  /\ UNCHANGED <<frames, appVars, termVars, pty, leaked>>

\* Whoever asked for it had a grid of its own.
Restart ==
  /\ ~daemon.up /\ Happens
  /\ daemon' = [daemon EXCEPT !.run = @ + 1, !.up = TRUE, !.due = TRUE]
  /\ pty' \in Grid
  /\ UNCHANGED <<stream, frames, appVars, termVars, leaked>>

\* The forwarder and the feed of the lists are tasks of their own.
Forward ==
  /\ stream.queue # <<>>
  /\ frames' = Append(frames, Frame(Head(stream.queue), stream.term))
  /\ stream' = [stream EXCEPT !.queue = Tail(@)]
  /\ UNCHANGED <<daemon, appVars, termVars, pty, leaked, events>>

Tell ==
  /\ daemon.due
  /\ daemon' = [daemon EXCEPT !.due = FALSE]
  /\ frames' = Append(frames, List)
  /\ UNCHANGED <<stream, appVars, termVars, pty, leaked, events>>

\* The handler. Requests are handled as they are sent: what is under way to the client by
\* then is in frames.
Sends(req, left) ==
  IF req.kind = "list"
    THEN frames' = Append(left, List) /\ UNCHANGED <<stream, pty>>
    ELSE /\ frames' = Append(left, Frame("replay", req.term))
         /\ stream' = [term |-> req.term, run |-> IF daemon.up THEN daemon.run ELSE 0, queue |-> <<>>]
         /\ pty' = IF daemon.up THEN req.grid ELSE pty

SendsNone(left) == frames' = left /\ UNCHANGED <<stream, pty>>

Daemon == Forward \/ Tell

--------------------------------------------------------------------------------
(* The link's queue. *)

IsOutput(frame) == frame.kind \in {"replay", "live"}

\* AppModel.handle: output goes to the sink at once, all else waits for the main actor, so
\* that output overtakes it.
Deliver ==
  /\ \E i \in DOMAIN frames :
       /\ IsOutput(frames[i]) /\ \A j \in 1..(i - 1) : ~IsOutput(frames[j])
       /\ IF made = 0 THEN UNCHANGED <<feed, session>> ELSE Receive(frames[i])
       /\ frames' = SubSeq(frames, 1, i - 1) \o SubSeq(frames, i + 1, Len(frames))
  /\ UNCHANGED <<daemon, stream, appVars, surface, pty, leaked, events>>

\* The connection is lost, or given up for another: what has not come by then is lost.
Reconnects ==
  /\ stream' = NoStream
  /\ \E n \in 0..Len(frames) :
       /\ \A i \in 1..n : ~IsOutput(frames[i])
       /\ frames' = Append(SubSeq(frames, 1, n), Frame("up", 0))
  /\ daemon' = [daemon EXCEPT !.due = FALSE]
  /\ UNCHANGED <<reports, known, attached, pane, made, termVars, pty, leaked>>

Drop == Happens /\ Reconnects /\ UNCHANGED window
Redial == window.redial /\ Reconnects /\ UNCHANGED events /\ window' = [window EXCEPT !.redial = FALSE]

--------------------------------------------------------------------------------
(* The main actor. *)

Ready == feed.reporting = None

\* makeTerminal: a feed and a session, and a surface where there is a window.
MakeTerminal_SameView ==
  /\ made' = made + 1 /\ feed' = NewFeed /\ session' = NewSession
  /\ surface' = IF ~window'.open THEN None ELSE IF surface = None THEN NewSurface ELSE surface
MakeTerminal ==
  /\ made' = made + 1 /\ feed' = NewFeed /\ session' = NewSession
  /\ surface' = IF window'.open THEN NewSurface ELSE None

\* connected
OnUp ==
  /\ Head(frames).kind = "up"
  /\ attached' = FALSE
  /\ Sends([kind |-> "list"], Tail(frames))
  /\ UNCHANGED <<known, made, feed, session, surface>>

\* sessions: a session that is not attached, or that was restarted, gets a new terminal.
OnList ==
  /\ Head(frames).kind \in {"Running", "Stopped"}
  /\ known' = Head(frames).kind
  /\ IF attached /\ ~(known = "Stopped" /\ known' = "Running")
       THEN SendsNone(Tail(frames)) /\ UNCHANGED <<attached, made, feed, session, surface>>
       ELSE /\ attached' = TRUE
            /\ MakeTerminal
            /\ Sends([kind |-> "attach", term |-> made + 1, grid |-> pane], Tail(frames))

OnExited ==
  /\ Head(frames).kind = "exited"
  /\ IF made = 0 THEN UNCHANGED <<feed, session>> ELSE Finish(Head(frames).term)
  /\ SendsNone(Tail(frames)) /\ UNCHANGED <<known, attached, made, surface>>

OnFrame ==
  /\ Ready /\ frames # <<>> /\ ~IsOutput(Head(frames))
  /\ UNCHANGED <<window>>
  /\ OnUp \/ OnList \/ OnExited
  /\ UNCHANGED <<daemon, reports, pane, leaked, events>>

\* report's two tasks: the Resize is sent, and the pane is that size from now on.
OnGrid ==
  /\ Ready /\ reports # <<>>
  /\ reports' = Tail(reports)
  /\ pane' = Head(reports)
  /\ pty' = IF daemon.up THEN Head(reports) ELSE pty
  /\ UNCHANGED <<netVars, known, attached, window, made, termVars, leaked, events>>

\* What the view publishes goes to laidOut; a grid that ghostty reported first is reported
\* by the caller, out of the lock.
LaidOut_Silent ==
  /\ Ready /\ surface # None /\ surface.sizes # <<>>
  /\ surface' = [surface EXCEPT !.sizes = Tail(@)]
  /\ feed' = Matched([feed EXCEPT !.laidOut = Head(surface.sizes)], surface.resizing # None)
  /\ UNCHANGED <<netVars, appVars, session, pty, leaked, events>>
LaidOut ==
  /\ Ready /\ surface # None /\ surface.sizes # <<>>
  /\ surface' = [surface EXCEPT !.sizes = Tail(@)]
  /\ LET f == Matched([feed EXCEPT !.laidOut = Head(surface.sizes)], surface.resizing # None) IN
       feed' = [f EXCEPT !.reporting = IF f.sized /\ ~feed.sized THEN f.laidOut ELSE None]
  /\ UNCHANGED <<netVars, appVars, session, pty, leaked, events>>

Report ==
  /\ ~Ready
  /\ reports' = Append(reports, feed.reporting)
  /\ feed' = [feed EXCEPT !.reporting = None]
  /\ UNCHANGED <<netVars, known, attached, window, pane, made, session, surface, pty, leaked, events>>

\* replayParsed: the parser is waited for, and then a grace in which what it answered leaves
\* ghostty's mailbox.
Waited ==
  /\ Ready /\ feed.opening = "settled" /\ session.input = <<>>
  /\ feed' = [feed EXCEPT !.opening = "parsed"]
  /\ UNCHANGED <<netVars, appVars, session, surface, pty, leaked, events>>

OpenWriteback ==
  /\ Ready /\ feed.opening = "parsed" /\ ~feed.open /\ ~session.answers
  /\ feed' = [feed EXCEPT !.open = TRUE]
  /\ UNCHANGED <<netVars, appVars, session, surface, pty, leaked, events>>

\* windowClosed: every surface goes, and each terminal starts over.
WindowClosed_KeepsFeeds ==
  /\ Ready /\ window.open /\ made > 0 /\ Happens
  /\ window' = [window EXCEPT !.open = FALSE]
  /\ surface' = None
  /\ UNCHANGED <<netVars, reports, known, attached, pane, made, feed, session, pty, leaked>>
WindowClosed ==
  /\ Ready /\ window.open /\ made > 0 /\ Happens
  /\ window' = [window EXCEPT !.open = FALSE]
  /\ MakeTerminal
  /\ UNCHANGED <<netVars, reports, known, attached, pane, pty, leaked>>

\* windowAppeared
WindowAppeared ==
  /\ Ready /\ ~window.open
  /\ window' = [window EXCEPT !.open = TRUE, !.redial = TRUE]
  /\ surface' = NewSurface
  /\ UNCHANGED <<netVars, reports, known, attached, pane, made, feed, session, pty, leaked, events>>

Main == OnFrame \/ OnGrid \/ LaidOut \/ Report \/ Waited \/ OpenWriteback

--------------------------------------------------------------------------------
(* Ghostty. *)

\* The view is laid out: the size goes to the IO thread, and is published.
LayOut(again) ==
  /\ Ready /\ surface # None /\ surface.laid = again
  /\ IF again THEN Happens ELSE UNCHANGED events
  /\ \E g \in Grid :
       surface' = [surface EXCEPT !.laid = TRUE, !.resizes = Append(@, g), !.sizes = Append(@, g)]
  /\ UNCHANGED <<netVars, appVars, feed, session, pty, leaked>>

\* resized, just before the grid is resized: what it does not withhold is reported.
Resized ==
  /\ surface # None /\ surface.resizing = None /\ surface.resizes # <<>>
  /\ LET g == Head(surface.resizes)
         f == Matched([feed EXCEPT !.reported = g], TRUE) IN
       /\ surface' = [surface EXCEPT !.resizes = Tail(@), !.resizing = g]
       /\ feed' = [f EXCEPT !.crossed = @ \/ (f.sized /\ ~Ready)]
       /\ reports' = IF f.sized THEN Append(reports, g) ELSE reports
  /\ UNCHANGED <<netVars, known, attached, window, pane, made, session, pty, leaked, events>>

Applies ==
  /\ surface # None /\ surface.resizing # None
  /\ surface' = [surface EXCEPT !.grid = surface.resizing, !.resizing = None]
  /\ feed' = [feed EXCEPT !.timer = IF @ = "armed" THEN "ripe" ELSE @]
  /\ UNCHANGED <<netVars, appVars, session, pty, leaked, events>>

\* Everything in history asks a question.
Parses ==
  /\ surface # None /\ session.input # <<>>
  /\ LET piece == Head(session.input) IN
       session' = [input |-> Tail(session.input), parsed |-> Append(session.parsed, piece),
                   narrow |-> session.narrow \/ surface.grid = Default,
                   answers |-> session.answers \/ piece.kind = "replay"]
  /\ UNCHANGED <<netVars, appVars, feed, surface, pty, leaked, events>>

\* allowsWriteback
Answers ==
  /\ session.answers
  /\ session' = [session EXCEPT !.answers = FALSE]
  /\ leaked' = (leaked \/ (feed.open /\ ~feed.early))
  /\ UNCHANGED <<netVars, appVars, feed, surface, pty, events>>

Io == Resized \/ Applies
Parser == Parses \/ Answers

Next ==
  \/ Prints \/ Exits \/ Restart \/ Daemon
  \/ Deliver \/ Drop \/ Redial
  \/ Main \/ WindowClosed \/ WindowAppeared
  \/ LayOut(FALSE) \/ LayOut(TRUE) \/ Release \/ Io \/ Parser

Spec == Init /\ [][Next]_feedVars

--------------------------------------------------------------------------------
\* What a terminal parses is what its feed received, in that order and all of it but the
\* oldest of what was held beyond the limit; the end of its run comes after its output.
FeedKeepsOrder ==
  LET all == session.parsed \o session.input \o feed.backlog
      chunks == {i \in DOMAIN all : all[i].n > 0} IN
  /\ \A i, j \in chunks : i < j => all[i].n < all[j].n
  /\ \E first \in 1..(feed.got + 1) :
       /\ {all[i].n : i \in chunks} = first..feed.got
       /\ first = 1 \/ feed.got - first + 1 >= Limit
  /\ \A i \in DOMAIN all : all[i].kind = "exit" => i = Len(all)

\* "Bytes are held until ghostty reports the grid the view laid out" (AttachFeed.swift): none
\* is parsed at the default grid, and the PTY is never told that one, over restarts,
\* reconnects and windows that are closed and opened again.
DefaultGridUnseen == ~session.narrow /\ pty # Default

\* No answer to a question buried in history reaches the live PTY as if typed, unless
\* something that was not the answer to the terminal's Attach made its feed settle.
HistoryUnanswered == ~leaked

\* When all is quiet the PTY has the grid of the surface, however it was dragged and
\* whichever of ghostty and the view told it first; unless ghostty reported a grid in the
\* moment between laidOut and the report of what it matched.
Quiet ==
  /\ frames = <<>> /\ reports = <<>> /\ stream.queue = <<>> /\ ~daemon.due
  /\ ~window.redial /\ Ready
  /\ surface # None /\ surface.laid
  /\ surface.resizes = <<>> /\ surface.resizing = None /\ surface.sizes = <<>>

PtyHasTheGrid == Quiet /\ daemon.up /\ stream.run = daemon.run /\ ~feed.crossed => pty = surface.grid

\* A terminal whose Attach was answered is never left holding its replay "forever behind a
\* blank pane" (TerminalPane.swift), nor with the keyboard cut off: when nothing is left to
\* happen by itself, it takes what is typed.
Idle ==
  /\ Quiet
  /\ feed.timer = "off" \/ ~feed.held
  /\ session.input = <<>> /\ ~session.answers
  /\ feed.opening = "no" \/ feed.open

ReplayIsShown == Idle /\ feed.answered => feed.open
================================================================================
