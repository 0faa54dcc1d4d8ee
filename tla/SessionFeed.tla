------------------------------ MODULE SessionFeed ------------------------------
(***************************************************************************)
(* What one client knows of the sessions and which of them it is attached  *)
(* to: the table with its announcements, the change feed and the handler   *)
(* of one connection (serve_conn, src/src/server.rs), and a client of      *)
(* either kind over a link that drops and comes back.                      *)
(*                                                                         *)
(* The macOS client is SessionRegistry with the part of AppModel that      *)
(* applies its effects (src/macos/Sources); what it sends while the link   *)
(* is down is lost.  The terminal client is App::reconcile and on_msg      *)
(* (src/src/tui) with the task of its link (link.rs), whose queue of       *)
(* requests outlives the connections.                                      *)
(*                                                                         *)
(* The feed and the handler are tasks of their own that each list the      *)
(* table and then send what they listed.  A session's streams are reduced  *)
(* to the run the daemon's forwarder is subscribed to, and a forwarder to  *)
(* the news that the run has ended.                                        *)
(***************************************************************************)
EXTENDS Naturals, Sequences, SequencesExt

CONSTANTS
  Sid,         \* session ids
  MaxChanges,  \* bound on the changes of the table
  MaxLinks,    \* bound on the connections the client makes
  MaxAsked,    \* bound on the restarts the user asks for
  None

ASSUME FeedAssumption == {MaxChanges, MaxLinks, MaxAsked} \subseteq Nat /\ IsFiniteSet(Sid)

VARIABLES
  client,    \* which of the two clients this is
  table,     \* the entry of each session: its latest run, whether that is up, over but not
             \* yet marked, or down, and whether it is this client that asked for it
  changes,   \* changes of the table so far
  telling,   \* announcements that have yet to reach the channel
  links,     \* connections so far
  up,        \* there is one now
  due,       \* notifications the connection's feed has not received
  feed,      \* the list the feed is about to send, or None
  reply,     \* the list a List is about to be answered with, or None
  pending,   \* the queue of the terminal client's link
  requests,  \* on their way to the daemon
  events,    \* what the link has told the client: up, down, lists and exits
  streams,   \* the run each of the connection's forwarders follows, None before an Attach
  owed,      \* forwarders that have yet to say that their run has ended
  known,     \* SessionRegistry.known, VmState.sessions
  attached,  \* SessionRegistry.attached, App.attached
  terminals, \* sessions the client keeps a terminal for
  asked,     \* restarts the user has asked for
  killedOn   \* during which connection, or after it, a session was killed

daemonVars == <<table, changes, telling, killedOn>>
feedOnly == <<due, feed>>
connVars == <<feedOnly, reply, streams, owed>>
wireVars == <<pending, requests, events>>
clientVars == <<known, attached, terminals, asked>>
linkVars == <<links, up>>
feedVars == <<client, daemonVars, connVars, wireVars, clientVars, linkVars>>

Run == 0..(MaxChanges + 1)
Entry == [run : Run, state : {"up", "over", "down"}, asked : BOOLEAN]
Listing == [Sid -> {"Running", "Stopped", "absent"}]
Event == [kind : {"up", "down", "sessions", "exited"}, list : Listing]
Request == [kind : {"list", "attach", "restart"}, sid : Sid \cup {None}]

ASSUME NoneAssumption == None \notin Nat \cup Sid \cup Entry \cup Listing

\* The variables have these types in every reachable state.
FeedTypeOK ==
  /\ client \in {"macos", "terminal"}
  /\ table \in [Sid -> Entry \cup {None}]
  /\ changes \in 0..MaxChanges /\ telling \in 0..MaxChanges
  /\ links \in 0..MaxLinks /\ up \in BOOLEAN /\ asked \in 0..MaxAsked
  /\ due \in 0..MaxChanges
  /\ feed \in Listing \cup {None} /\ reply \in Listing \cup {None}
  /\ {pending, requests} \subseteq Seq(Request) /\ events \in Seq(Event)
  /\ streams \in [Sid -> Run \cup {None}]
  /\ known \in Listing
  /\ {owed, attached, terminals} \subseteq SUBSET Sid
  /\ killedOn \in [Sid -> 0..MaxLinks \cup {None}]

--------------------------------------------------------------------------------
Up(s) == table[s] # None /\ table[s].state = "up"
Down(s) == table[s] # None /\ table[s].state = "down"

\* Hub::list: a run that is over is Running until it is marked.
List == [s \in Sid |-> IF table[s] = None THEN "absent"
                       ELSE IF Down(s) THEN "Stopped" ELSE "Running"]
Told(kind, l) == [kind |-> kind, list |-> l]
Absent == [s \in Sid |-> "absent"]
Alive(l) == {s \in Sid : l[s] # "absent"}
NoStreams == [s \in Sid |-> None]

Init ==
  /\ client \in {"macos", "terminal"}
  /\ table \in [Sid -> {None} \cup [run : {1}, state : {"up", "down"}, asked : {FALSE}]]
  /\ changes = 0 /\ telling = 0
  /\ links = 0 /\ up = FALSE
  /\ due = 0 /\ feed = None /\ reply = None
  /\ pending = <<>> /\ requests = <<>> /\ events = <<>>
  /\ streams = NoStreams /\ owed = {}
  /\ known = Absent /\ attached = {} /\ terminals = {}
  /\ asked = 0
  /\ killedOn = NoStreams

--------------------------------------------------------------------------------
\* Whoever changes the table goes on to save it and only then tells the channel.
ChangeTable(s, entry) ==
  /\ changes < MaxChanges
  /\ table' = [table EXCEPT ![s] = entry]
  /\ changes' = changes + 1
  /\ telling' = telling + 1

Launched(own) == [run |-> changes + 2, state |-> "up", asked |-> own]

\* Create, Shell, and a restart on some other connection.
Launch(s) ==
  /\ table[s] = None \/ Down(s)
  /\ killedOn[s] = None
  /\ ChangeTable(s, Launched(FALSE))
  /\ UNCHANGED <<client, killedOn, connVars, wireVars, clientVars, linkVars>>

\* The run's forwarder will hear of its end, if it follows it. What the macOS client does
\* with that is no business of its registry.
Owing(s) == owed \cup {t \in {s} : client = "terminal" /\ streams[t] = table[t].run}

\* The process ends and its channel is told, before its reader...
End(s) ==
  /\ Up(s)
  /\ table' = [table EXCEPT ![s].state = "over"]
  /\ owed' = Owing(s)
  /\ UNCHANGED <<client, changes, telling, killedOn, feedOnly, reply, streams, wireVars, clientVars, linkVars>>

\* ... gets to mark_stopped.
Stop(s) ==
  /\ table[s] # None /\ table[s].state = "over"
  /\ ChangeTable(s, [table[s] EXCEPT !.state = "down"])
  /\ UNCHANGED <<client, killedOn, connVars, wireVars, clientVars, linkVars>>

Kill(s) ==
  /\ table[s] # None
  /\ owed' = IF Up(s) THEN Owing(s) ELSE owed
  /\ ChangeTable(s, None)
  /\ killedOn' = [killedOn EXCEPT ![s] = links]
  /\ UNCHANGED <<client, feedOnly, reply, streams, wireVars, clientVars, linkVars>>

\* The end of announce: every connection's feed has one more notification.
Announce ==
  /\ telling > 0
  /\ telling' = telling - 1
  /\ due' = IF up THEN due + 1 ELSE due
  /\ UNCHANGED <<client, table, changes, killedOn, feed, reply, streams, owed, wireVars, clientVars, linkVars>>

--------------------------------------------------------------------------------
\* The feed is woken and lists the table as it is by now...
FeedList ==
  /\ due > 0 /\ feed = None
  /\ due' = due - 1
  /\ feed' = List
  /\ UNCHANGED <<client, daemonVars, reply, streams, owed, wireVars, clientVars, linkVars>>

\* ... and sends that.
FeedSend ==
  /\ feed # None
  /\ events' = Append(events, Told("sessions", feed))
  /\ feed' = None
  /\ UNCHANGED <<client, daemonVars, due, reply, streams, owed, pending, requests, clientVars, linkVars>>

\* A forwarder passes on that its run has ended.
Forward ==
  /\ \E s \in owed :
       /\ owed' = owed \ {s}
       /\ events' = Append(events, Told("exited", [Absent EXCEPT ![s] = "Stopped"]))
  /\ UNCHANGED <<client, daemonVars, feedOnly, reply, streams, pending, requests, clientVars, linkVars>>

\* The handler takes the next request. A List is listed here and answered next.
Handles(kind) ==
  /\ reply = None /\ requests # <<>> /\ Head(requests).kind = kind
  /\ requests' = Tail(requests)

HandleList ==
  /\ Handles("list")
  /\ reply' = List
  /\ UNCHANGED <<client, daemonVars, feedOnly, streams, owed, pending, events, clientVars, linkVars>>

ReplyList ==
  /\ reply # None
  /\ events' = Append(events, Told("sessions", reply))
  /\ reply' = None
  /\ UNCHANGED <<client, daemonVars, feedOnly, streams, owed, pending, requests, clientVars, linkVars>>

\* An Attach ends the session's forwarder and subscribes to the run that is there, if there
\* is one.
HandleAttach ==
  /\ Handles("attach")
  /\ LET s == Head(requests).sid IN
       /\ streams' = [streams EXCEPT ![s] = IF table[s] # None /\ ~Down(s) THEN table[s].run ELSE 0]
       /\ owed' = owed \ {s}
  /\ UNCHANGED <<client, daemonVars, feedOnly, reply, pending, events, clientVars, linkVars>>

\* A Restart of a session that has a run is ignored; the launch may fail.
HandleRestart ==
  /\ Handles("restart")
  /\ LET s == Head(requests).sid IN
       \/ Down(s) /\ ChangeTable(s, Launched(TRUE))
       \/ UNCHANGED <<table, changes, telling>>
  /\ UNCHANGED <<client, killedOn, connVars, pending, events, clientVars, linkVars>>

--------------------------------------------------------------------------------
\* The link connects: the daemon's new connection has its feed, and the client will hear.
NewConnection ==
  /\ links < MaxLinks
  /\ links' = links + 1
  /\ requests' = <<>>
  /\ due' = 0 /\ feed' = None /\ reply' = None /\ streams' = NoStreams /\ owed' = {}
  /\ events' = Append(events, Told("up", Absent))

LinkUp ==
  /\ ~up /\ up' = TRUE
  /\ NewConnection
  /\ UNCHANGED <<client, daemonVars, pending, clientVars>>

\* VMLink.reconnect, when the window comes back: a live link is redialled at once, and
\* nobody is told that it went down.
Redial ==
  /\ client = "macos"
  /\ up /\ NewConnection
  /\ UNCHANGED <<client, daemonVars, pending, clientVars, up>>

\* pump moves the oldest request of the queue to the connection, whichever the user or the
\* client was looking at when it was queued.
Pump ==
  /\ up /\ pending # <<>>
  /\ requests' = Append(requests, Head(pending))
  /\ pending' = Tail(pending)
  /\ UNCHANGED <<client, daemonVars, connVars, events, clientVars, linkVars>>

\* The link drops with what the daemon has yet to read or to send. If it is a write that
\* finds out, the request is lost with it.
LinkDown ==
  /\ up /\ up' = FALSE
  /\ pending' \in {pending} \cup {Tail(q) : q \in {pending} \ {<<>>}}
  /\ requests' = <<>>
  /\ due' = 0 /\ feed' = None /\ reply' = None /\ streams' = NoStreams /\ owed' = {}
  /\ events' = Append(events, Told("down", Absent))
  /\ UNCHANGED <<client, daemonVars, clientVars, links>>

--------------------------------------------------------------------------------
\* VMLink.send goes to the connection there is now, whichever one the event it answers was
\* of, and nowhere while there is none. App::send queues.
SendAll(batch) ==
  IF client = "terminal"
    THEN pending' = pending \o batch /\ UNCHANGED requests
    ELSE requests' = (IF up THEN requests \o batch ELSE requests) /\ UNCHANGED pending

ListRequest == [kind |-> "list", sid |-> None]

Hears(kind) == events # <<>> /\ Head(events).kind = kind /\ events' = Tail(events)

\* Every attachment is void and the sessions are listed again; what was known is kept.
Voided_Kept == UNCHANGED <<attached, known>>
Voided == attached' = {} /\ UNCHANGED known

Connected ==
  /\ Hears("up")
  /\ Voided
  /\ SendAll(<<ListRequest>>)
  /\ UNCHANGED <<client, daemonVars, connVars, terminals, asked, linkVars>>

\* Ui::Down changes nothing but the machine's "(offline)".
Disconnected ==
  /\ Hears("down")
  /\ attached' = IF client = "macos" THEN {} ELSE attached
  /\ UNCHANGED <<client, daemonVars, connVars, pending, requests, known, terminals, asked, linkVars>>

\* Sessions that are not listed any more are forgotten; one that went from Stopped to
\* Running has lost its attachment; each one that is not attached gets a fresh terminal and
\* an Attach. Nobody asks for another list.
Restarted_BySelf(l) == {}
Restarted(l) == {s \in Sid : known[s] = "Stopped" /\ l[s] = "Running"}
Kept(l) == (attached \cap Alive(l)) \ Restarted(l)
Fresh(l) == Alive(l) \ Kept(l)
Attaching(ss) == [i \in DOMAIN SetToSeq(ss) |-> [kind |-> "attach", sid |-> SetToSeq(ss)[i]]]

Asks_ListAgain(l) == Attaching(Fresh(l)) \o <<ListRequest>>
Asks(l) == Attaching(Fresh(l))

Sessions ==
  /\ Hears("sessions")
  /\ LET l == Head(events).list
         gone == IF client = "macos" THEN Alive(known) \ Alive(l) ELSE Sid \ Alive(l) IN
       /\ known' = l
       /\ attached' = Alive(l)
       /\ terminals' = (terminals \ gone) \cup Fresh(l)
       /\ SendAll(Asks(l))
  /\ UNCHANGED <<client, daemonVars, connVars, asked, linkVars>>

\* The terminal client takes a session for stopped before a list says so.
Exited ==
  /\ Hears("exited")
  /\ known' = [s \in Sid |-> IF Head(events).list[s] = "Stopped" /\ known[s] # "absent"
                               THEN "Stopped" ELSE known[s]]
  /\ UNCHANGED <<client, daemonVars, connVars, pending, requests, attached, terminals, asked, linkVars>>

\* The user restarts what is shown as stopped.
AskRestart(s) ==
  /\ asked < MaxAsked
  /\ known[s] = "Stopped"
  /\ asked' = asked + 1
  /\ SendAll(<<[kind |-> "restart", sid |-> s]>>)
  /\ UNCHANGED <<client, daemonVars, connVars, events, known, attached, terminals, linkVars>>

--------------------------------------------------------------------------------
Table == \E s \in Sid : Launch(s) \/ End(s) \/ Stop(s) \/ Kill(s)
Feed == FeedList \/ FeedSend
Link == LinkUp \/ Redial \/ LinkDown
Client == Connected \/ Disconnected \/ Sessions \/ Exited
Handler == HandleList \/ ReplyList \/ HandleAttach \/ HandleRestart
User == \E s \in Sid : AskRestart(s)

Next == Table \/ Announce \/ Feed \/ Forward \/ Handler \/ Pump \/ Link \/ Client \/ User

Spec == Init /\ [][Next]_feedVars

\* The daemon's tasks and the client's are scheduled; nothing makes the table change, the
\* user ask, or the link come up, drop or stay.
FairSpec ==
  /\ Spec
  /\ WF_feedVars(Announce) /\ WF_feedVars(Feed) /\ WF_feedVars(Forward) /\ WF_feedVars(Handler)
  /\ WF_feedVars(Pump) /\ WF_feedVars(Client)

--------------------------------------------------------------------------------
\* Nothing is on its way any more.
AtRest ==
  /\ telling = 0 /\ due = 0 /\ feed = None /\ reply = None /\ owed = {}
  /\ requests = <<>> /\ events = <<>>
  /\ up => pending = <<>>

\* Every connection is given the attachments anew: once it is at rest, the daemon has
\* served an Attach on it for each session the client shows, and no terminal is kept for a
\* session killed while the client was away, or told of it too late.
ReattachedAfterReconnect ==
  up /\ AtRest =>
    /\ \A s \in Alive(known) : s \in attached /\ streams[s] # None
    /\ \A s \in Sid : killedOn[s] # None /\ killedOn[s] < links
                       => known[s] = "absent" /\ s \notin terminals

\* The restart a user asks for is never silent, however the stop, the restart and the lists
\* between them are told, and on whichever connection it was served: at rest, the run that
\* answers it streams to the client.
RestartIsSeen ==
  up /\ AtRest => \A s \in Sid : Up(s) /\ table[s].asked => streams[s] = table[s].run

\* Frames and requests do not feed each other: when the table, the link and the user leave
\* it alone, all comes to rest.
ComesToRest == []<>AtRest \/ []<><<Table \/ Link>>_feedVars
================================================================================
