------------------------------ MODULE HubSessions ------------------------------
(***************************************************************************)
(* The session table of the daemon (src/src/server.rs): the map behind     *)
(* Hub.sessions, the PTY processes with their reader threads, the          *)
(* connections that serve Create, Restart, Shell and Kill, and the         *)
(* scanner.                                                                *)
(*                                                                         *)
(* The daemon runs on a multi-thread runtime and a reader is a thread of   *)
(* its own, so an action here is one critical section: what happens        *)
(* between two acquisitions of Hub.sessions' mutex.  A handler that        *)
(* checks, unlocks, spawns and locks again is as many actions, and its     *)
(* locals wait in conn in between.                                         *)
(*                                                                         *)
(* Left to other modules: what a save puts on disk (StateFile), the bytes  *)
(* of the log and of the live stream (AttachStream), the reading of one    *)
(* screen (Tracker).  Conversation ids are abstracted: no property here    *)
(* tells two of them apart.                                                *)
(***************************************************************************)
EXTENDS Naturals, FiniteSets

CONSTANTS
  Sid,   \* session ids that new_id can return
  Rid,   \* launches: a PTY, its child and its reader thread
  Conn,  \* client connections
  Reading, \* what a screen can show an agent to be doing: Idle, Working, Blocked
  None   \* Option::None

ASSUME NoneAssumption == None \notin Sid \cup Rid
ASSUME ReadingAssumption == "Unknown" \notin Reading

VARIABLES
  sessions,  \* Hub.sessions: the entry of each id, or None
  issued,    \* ids new_id has returned
  procs,     \* each launch: its session, its child, its reader thread
  logs,      \* ids with a log file on disk
  conn,      \* where each connection's handler stands, and its locals
  scanner,   \* the scanner task and the readings it is about to apply
  untold     \* the table changed and changed.send has not been called since

vars == <<sessions, issued, procs, logs, conn, scanner, untold>>

Entry == [status   : {"Running", "Stopped"},
          activity : Reading \cup {"Unknown"},
          run      : Rid \cup {None},
          parent   : Sid \cup {None}]

ASSUME EntryAssumption == None \notin Entry

Proc == [sid    : Sid \cup {None},
         child  : {"none", "alive", "dead"},
         reader : {"none", "start", "read", "wait", "mark", "announce", "done"}]

Victim == [sid : Sid, run : Rid \cup {None}]

Handler == [at      : {"idle", "create", "openShell", "shell", "restart",
                       "relaunch", "register", "kill", "announce"},
            sid     : Sid \cup {None},
            run     : Rid \cup {None},
            parent  : Sid \cup {None},
            victims : SUBSET Victim]

Moved == [sid : Sid, run : Rid, activity : Reading]

\* The variables have these types in every reachable state.
TypeOK ==
  /\ sessions \in [Sid -> Entry \cup {None}]
  /\ issued \in SUBSET Sid
  /\ procs \in [Rid -> Proc]
  /\ logs \in SUBSET Sid
  /\ conn \in [Conn -> Handler]
  /\ scanner \in [at : {"idle", "apply", "send"}, moved : SUBSET Moved]
  /\ untold \in BOOLEAN

--------------------------------------------------------------------------------
Listed == {s \in Sid : sessions[s] # None}
Shells(p) == {s \in Listed : sessions[s].parent = p}
ParentOf(s) == IF s \in Listed THEN sessions[s].parent ELSE None

\* A handler at a stage, with the locals that stage needs.
Stage(a, s, r, p) == [at |-> a, sid |-> s, run |-> r, parent |-> p, victims |-> {}]
Idle == Stage("idle", None, None, None)

Fresh(s) == s \in Sid \ issued

(***************************************************************************)
(* Hub::new: nothing survives the daemon dying, so every restored session  *)
(* is stopped; a restored shell's parent is restored with it.              *)
(***************************************************************************)
Restored(s, p) == [status |-> "Stopped", activity |-> "Unknown", run |-> None, parent |-> p]

RestoredTable(known, parentOf) ==
  /\ \A s \in known : parentOf[s] = None \/ (parentOf[s] \in known /\ parentOf[parentOf[s]] = None)
  /\ issued = known
  /\ logs = known
  /\ sessions = [s \in Sid |-> IF s \in known THEN Restored(s, parentOf[s]) ELSE None]

Init ==
  /\ \E known \in SUBSET Sid, parentOf \in [Sid -> Sid \cup {None}] :
        RestoredTable(known, parentOf)
  /\ procs = [r \in Rid |-> [sid |-> None, child |-> "none", reader |-> "none"]]
  /\ conn = [c \in Conn |-> Idle]
  /\ scanner = [at |-> "idle", moved |-> {}]
  /\ untold = FALSE

--------------------------------------------------------------------------------
(***************************************************************************)
(* Hub::spawn starts the child and its reader thread, and only then        *)
(* returns the Run to a caller that has yet to register it.                *)
(***************************************************************************)
Spawn(r, s) ==
  /\ procs[r].child = "none"
  /\ procs' = [procs EXCEPT ![r] = [sid |-> s, child |-> "alive", reader |-> "start"]]

Launched(r, p) == [status |-> "Running", activity |-> "Unknown", run |-> r, parent |-> p]

\* The last thing a handler that wrote the table does is announce it.
ThenAnnounce_Forgets(c) == conn' = [conn EXCEPT ![c] = Idle]
ThenAnnounce(c) == conn' = [conn EXCEPT ![c] = Stage("announce", None, None, None)]

\* Create: a new id and a launch; the session is not in the table yet.
Create(c) ==
  /\ conn[c].at = "idle"
  /\ \E s \in Sid, r \in Rid :
        /\ Fresh(s)
        /\ Spawn(r, s)
        /\ issued' = issued \cup {s}
        /\ conn' = [conn EXCEPT ![c] = Stage("create", s, r, None)]
  /\ UNCHANGED <<sessions, logs, scanner, untold>>

\* Shell, under the lock: the parent has to be listed and not itself a shell. An
\* existing shell is restarted unless a second one was asked for.
ShellCheck(c) ==
  /\ conn[c].at = "idle"
  /\ \E p \in Listed, new \in BOOLEAN :
        /\ sessions[p].parent = None
        /\ \/ /\ ~new
              /\ \E s \in Shells(p) :
                    conn' = [conn EXCEPT ![c] = Stage("restart", s, None, None)]
           \/ /\ new \/ Shells(p) = {}
              /\ conn' = [conn EXCEPT ![c] = Stage("openShell", None, None, p)]
  /\ UNCHANGED <<sessions, issued, procs, logs, scanner, untold>>

\* Shell, after the check and outside the lock; a launch that fails ends the request.
ShellSpawn(c) ==
  /\ conn[c].at = "openShell"
  /\ \/ \E s \in Sid, r \in Rid :
          /\ Fresh(s)
          /\ Spawn(r, s)
          /\ issued' = issued \cup {s}
          /\ conn' = [conn EXCEPT ![c] = Stage("shell", s, r, conn[c].parent)]
     \/ /\ conn' = [conn EXCEPT ![c] = Idle]
        /\ UNCHANGED <<issued, procs>>
  /\ UNCHANGED <<sessions, logs, scanner, untold>>

\* The insert that ends Create and Shell: nothing is looked at again.
Insert(c) ==
  /\ conn[c].at \in {"create", "shell"}
  /\ sessions' = [sessions EXCEPT ![conn[c].sid] = Launched(conn[c].run, conn[c].parent)]
  /\ ThenAnnounce(c)
  /\ untold' = TRUE
  /\ UNCHANGED <<issued, procs, logs, scanner>>

\* What restart relaunches: a session that is listed and has no run.
Restartable_Running(s) == s \in Listed
Restartable(s) == s \in Listed /\ sessions[s].run = None

\* restart, under the lock: asked for by the client or by Shell. A session that is gone is
\* an error and a running one is left alone; either ends the request.
RestartCheck(c) ==
  /\ \E s \in Sid :
        /\ conn[c].at = "idle" \/ (conn[c].at = "restart" /\ conn[c].sid = s)
        /\ IF Restartable(s)
             THEN conn' = [conn EXCEPT ![c] = Stage("relaunch", s, None, None)]
             ELSE conn' = [conn EXCEPT ![c] = Idle]
  /\ UNCHANGED <<sessions, issued, procs, logs, scanner, untold>>

\* restart, outside the lock.
Relaunch(c) ==
  /\ conn[c].at = "relaunch"
  /\ \/ \E r \in Rid :
          /\ Spawn(r, conn[c].sid)
          /\ conn' = [conn EXCEPT ![c] = Stage("register", conn[c].sid, r, None)]
     \/ /\ conn' = [conn EXCEPT ![c] = Idle]
        /\ UNCHANGED procs
  /\ UNCHANGED <<sessions, issued, logs, scanner, untold>>

\* The second look of restart at the table.
StillListed_Assumed(s) == s \in Sid
StillListed(s) == s \in Listed

\* restart, under the lock again: the Run replaces whatever is there, and is dropped
\* without a kill if the session has gone.
Register(c) ==
  /\ conn[c].at = "register"
  /\ LET s == conn[c].sid IN
       IF StillListed(s)
         THEN /\ sessions' = [sessions EXCEPT ![s] = Launched(conn[c].run, ParentOf(s))]
              /\ untold' = TRUE
         ELSE UNCHANGED <<sessions, untold>>
  /\ ThenAnnounce(c)
  /\ UNCHANGED <<issued, procs, logs, scanner>>

\* What a Kill of s takes: the session and its shells.
Doomed(s) == ({s} \cap Listed) \cup Shells(s)

\* The table without them.
Without_Own(gone) == [s \in Sid |-> IF s \in gone /\ ParentOf(s) = None THEN None ELSE sessions[s]]
Without(gone) == [s \in Sid |-> IF s \in gone THEN None ELSE sessions[s]]

\* The walk over what was removed goes in the order the map had it, which is any: whose turn
\* is next is settled before anything is known of that child's mutex.
Upcoming(vs) == IF vs = {} THEN {None} ELSE {v.sid : v \in vs}

\* Kill, under the lock: the session and its shells leave the table together.
Kill(c) ==
  /\ conn[c].at = "idle"
  /\ \E s \in issued :
       LET vs == {[sid |-> t, run |-> sessions[t].run] : t \in Doomed(s)} IN
       /\ sessions' = Without(Doomed(s))
       /\ \E n \in Upcoming(vs) :
            conn' = [conn EXCEPT ![c] =
                       [at |-> "kill", sid |-> n, run |-> None, parent |-> None, victims |-> vs]]
       /\ untold' = (untold \/ Doomed(s) # {})
  /\ UNCHANGED <<issued, procs, logs, scanner>>

\* A reader that waits for its child holds the child's mutex while it does.
ChildUnlocked_OutOfLoop(r) == procs[r].reader \notin {"read", "wait"}
ChildUnlocked(r) == procs[r].reader # "wait"

\* The child of a run that was removed is killed, under its mutex.
KillChild_TryLock(r) ==
  procs' = IF ChildUnlocked(r) THEN [procs EXCEPT ![r].child = "dead"] ELSE procs
KillChild(r) ==
  /\ ChildUnlocked(r)
  /\ procs' = [procs EXCEPT ![r].child = "dead"]

\* Kill, outside the lock, one removed session at a time: the one whose turn it is loses its
\* child, if it had a run, and then its log. A mutex that is held stops the walk, and those
\* behind wait with it.
KillOne(c) ==
  /\ conn[c].at = "kill"
  /\ \E v \in conn[c].victims :
        LET rest == conn[c].victims \ {v} IN
        /\ v.sid = conn[c].sid
        /\ IF v.run = None THEN UNCHANGED procs ELSE KillChild(v.run)
        /\ logs' = logs \ {v.sid}
        /\ \E n \in Upcoming(rest) : conn' = [conn EXCEPT ![c].victims = rest, ![c].sid = n]
  /\ UNCHANGED <<sessions, issued, scanner, untold>>

\* Hub::announce, which ends Create, Restart, Shell and Kill.
Announce(c) ==
  /\ \/ conn[c].at = "announce"
     \/ conn[c].at = "kill" /\ conn[c].victims = {}
  /\ conn' = [conn EXCEPT ![c] = Idle]
  /\ untold' = FALSE
  /\ UNCHANGED <<sessions, issued, procs, logs, scanner>>

--------------------------------------------------------------------------------
\* The child ends on its own.
ChildExit(r) ==
  /\ procs[r].child = "alive"
  /\ procs' = [procs EXCEPT ![r].child = "dead"]
  /\ UNCHANGED <<sessions, issued, logs, conn, scanner, untold>>

\* SessionLog::open, when the thread starts and again when append rotates the log.
ReaderOpen(r) ==
  /\ procs[r].reader \in {"start", "read"}
  /\ procs' = [procs EXCEPT ![r].reader = "read"]
  /\ logs' = logs \cup {procs[r].sid}
  /\ UNCHANGED <<sessions, issued, conn, scanner, untold>>

\* The PTY closes: the child is dead, or has closed its terminal and lives on. The thread
\* takes the child's mutex and waits.
ReaderEof(r) ==
  /\ procs[r].reader = "read"
  /\ procs' = [procs EXCEPT ![r].reader = "wait"]
  /\ UNCHANGED <<sessions, issued, logs, conn, scanner, untold>>

\* child.wait returns once the child is dead.
Reaped_AtEof(r) == TRUE
Reaped(r) == procs[r].child = "dead"

\* child.wait returns and Exited goes out to whoever is attached.
ReaderExited(r) ==
  /\ procs[r].reader = "wait"
  /\ Reaped(r)
  /\ procs' = [procs EXCEPT ![r].reader = "mark"]
  /\ UNCHANGED <<sessions, issued, logs, conn, scanner, untold>>

\* What mark_stopped leaves of an entry.
Ended_KeepsRun(e) == [e EXCEPT !.status = "Stopped", !.activity = "Unknown"]
Ended(e) == [e EXCEPT !.status = "Stopped", !.activity = "Unknown", !.run = None]

\* mark_stopped: it finds the session by its id, not by the run that ended.
MarkStopped(r) ==
  /\ procs[r].reader = "mark"
  /\ LET s == procs[r].sid IN
       IF s \in Listed
         THEN /\ sessions' = [sessions EXCEPT ![s] = Ended(@)]
              /\ untold' = TRUE
         ELSE UNCHANGED <<sessions, untold>>
  /\ procs' = [procs EXCEPT ![r].reader = "announce"]
  /\ UNCHANGED <<issued, logs, conn, scanner>>

ReaderAnnounce(r) ==
  /\ procs[r].reader = "announce"
  /\ procs' = [procs EXCEPT ![r].reader = "done"]
  /\ untold' = FALSE
  /\ UNCHANGED <<sessions, issued, logs, conn, scanner>>

--------------------------------------------------------------------------------
\* Hub::scan: the running agents under the lock, then each screen on its own. Shells have
\* no watch. A tick in which nothing moved ends here.
ScanLook ==
  /\ scanner.at = "idle"
  /\ \E agents \in SUBSET {s \in Listed : sessions[s].run # None /\ ParentOf(s) = None} :
       \E shown \in [agents -> Reading] :
         /\ agents # {}
         /\ scanner' = [at |-> "apply",
                        moved |-> {[sid |-> s, run |-> sessions[s].run, activity |-> shown[s]] : s \in agents}]
  /\ UNCHANGED <<sessions, issued, procs, logs, conn, untold>>

\* The sessions a reading may be written to.
HasRun_Listed(s) == s \in Listed
HasRun(s) == s \in Listed /\ sessions[s].run # None

\* What the screens said goes to the sessions that (still, or again) have a run.
ScanApply ==
  /\ scanner.at = "apply"
  /\ LET hit == {m \in scanner.moved : HasRun(m.sid)} IN
       /\ sessions' = [s \in Sid |->
                         IF \E m \in hit : m.sid = s
                           THEN [sessions[s] EXCEPT !.activity = (CHOOSE m \in hit : m.sid = s).activity]
                           ELSE sessions[s]]
       /\ untold' = (untold \/ hit # {})
  /\ scanner' = [at |-> "send", moved |-> {}]
  /\ UNCHANGED <<issued, procs, logs, conn>>

ScanSend ==
  /\ scanner.at = "send"
  /\ scanner' = [at |-> "idle", moved |-> {}]
  /\ untold' = FALSE
  /\ UNCHANGED <<sessions, issued, procs, logs, conn>>

--------------------------------------------------------------------------------
Handle(c) ==
  \/ Create(c) \/ ShellCheck(c) \/ ShellSpawn(c) \/ Insert(c)
  \/ RestartCheck(c) \/ Relaunch(c) \/ Register(c)
  \/ Kill(c) \/ KillOne(c) \/ Announce(c)

Reader(r) ==
  \/ ReaderOpen(r) \/ ReaderEof(r) \/ ReaderExited(r)
  \/ MarkStopped(r) \/ ReaderAnnounce(r)

Scan == ScanLook \/ ScanApply \/ ScanSend

Next ==
  \/ \E c \in Conn : Handle(c)
  \/ \E r \in Rid : Reader(r) \/ ChildExit(r)
  \/ Scan

Spec == Init /\ [][Next]_vars

(***************************************************************************)
(* A handler runs on to its end once it has begun, a reader thread until   *)
(* its child is reaped, the scanner until its tick is over.  Nothing makes *)
(* a client send a request or a child exit.                                *)
(***************************************************************************)
Continue(c) == conn[c].at # "idle" /\ Handle(c)
ReadOn(r) ==
  \/ procs[r].reader = "start" /\ ReaderOpen(r)
  \/ procs[r].child = "dead" /\ ReaderEof(r)
  \/ ReaderExited(r) \/ MarkStopped(r) \/ ReaderAnnounce(r)

FairSpec ==
  /\ Spec
  /\ \A c \in Conn : WF_vars(Continue(c))
  /\ \A r \in Rid : WF_vars(ReadOn(r))
  /\ WF_vars(ScanApply \/ ScanSend)

--------------------------------------------------------------------------------
\* A listed session shows what it has: Running exactly when it has a run, and an activity
\* only then. The scan that read a screen before the session stopped must not bring its
\* activity back (the filter on run in scan).
StoppedIsBare ==
  \A s \in Listed :
    /\ sessions[s].status = "Running" <=> sessions[s].run # None
    /\ sessions[s].run = None => sessions[s].activity = "Unknown"

\* The session of this id has been killed: issued, not in the table and not on its way in.
Gone(s) ==
  /\ s \in issued
  /\ s \notin Listed
  /\ \A c \in Conn : ~(conn[c].at \in {"create", "shell"} /\ conn[c].sid = s)

\* A killed session never comes back, whatever a restart of it or its reader were about to
\* write: both look the id up again and let go when it is not there.
KilledStaysKilled == [][\A s \in Sid : Gone(s) => Gone(s)']_vars

\* A run is in one place: the table entry of the session it was launched for, the hands of
\* one handler that will register it, or the list of one Kill. Two owners would write to,
\* resize or kill a PTY that is not theirs.
Holders(r) == {c \in Conn : conn[c].run = r}
Killers(r) == {c \in Conn : \E v \in conn[c].victims : v.run = r}
Keepers(r) == {s \in Listed : sessions[s].run = r}

RunHasOneOwner ==
  \A r \in Rid :
    /\ \A s \in Keepers(r) : s = procs[r].sid
    /\ \A c, d \in Holders(r) \cup Killers(r) : c = d
    /\ Keepers(r) = {} \/ Holders(r) \cup Killers(r) = {}
    /\ Holders(r) = {} \/ Killers(r) = {}

\* A change of the table that clients have not been told of has someone on the way to tell
\* them: every path that writes the table ends in announce, or in the scanner's send.
UntoldHasTeller ==
  untold => \/ \E c \in Conn : conn[c].at \in {"announce", "kill"}
            \/ \E r \in Rid : procs[r].reader = "announce"
            \/ scanner.at = "send"

(***************************************************************************)
(* What makes these inductive: a handler has the locals its stage needs,   *)
(* and a launch that has not happened is nobody's.                         *)
(***************************************************************************)
LocalsFit ==
  \A c \in Conn :
    /\ conn[c].at \in {"create", "shell", "register"} =>
         /\ conn[c].sid \in Sid
         /\ conn[c].run \in Rid
         /\ procs[conn[c].run].sid = conn[c].sid
    /\ conn[c].at \in {"create", "shell"} => conn[c].sid \in issued
    /\ conn[c].at = "relaunch" => conn[c].sid \in Sid
    /\ conn[c].at \notin {"create", "shell", "register"} => conn[c].run = None
    /\ conn[c].at # "kill" => conn[c].victims = {}

LaunchesFit ==
  \A r \in Rid :
    /\ procs[r].reader = "none" <=> procs[r].child = "none"
    /\ procs[r].child # "none" => procs[r].sid \in Sid
    /\ procs[r].child = "none" => Keepers(r) = {} /\ Holders(r) \cup Killers(r) = {}

IndInv == TypeOK /\ LocalsFit /\ LaunchesFit /\ StoppedIsBare /\ RunHasOneOwner

\* A handler that is about to insert a new session has an id of its own, and a reader that
\* says its run is over has seen the child dead.
HandsAreNew ==
  /\ Listed \subseteq issued
  /\ \A c \in Conn :
       conn[c].at \in {"create", "shell"} =>
         /\ conn[c].sid \notin Listed
         /\ \A d \in Conn : conn[d].at \in {"create", "shell"} /\ conn[d].sid = conn[c].sid => d = c
  /\ \A r \in Rid : procs[r].reader \in {"mark", "announce", "done"} => procs[r].child = "dead"

--------------------------------------------------------------------------------
\* A child that lives can be reached: its run is in the table, or with a handler that is
\* about to register or to kill it. So it is while requests come from one connection.
Reached(r) == Keepers(r) # {} \/ Holders(r) \cup Killers(r) # {}
NoOrphan == \A r \in Rid : procs[r].child = "alive" => Reached(r)

(***************************************************************************)
(* With more connections there are three ways to lose a living child, each *)
(* a race of a restart: a Kill took the session while its relaunch was     *)
(* under way, a second relaunch is registered over the first, or the       *)
(* reader of another run of the session marks it stopped.                  *)
(***************************************************************************)
LetGo(r) == Reached(r) /\ ~Reached(r)' /\ procs'[r].child = "alive"
KilledMeanwhile(r) ==
  \E c \in Conn : conn[c].at = "register" /\ conn[c].run = r /\ conn[c].sid \notin Listed
RelaunchedTwice(r) ==
  \E c \in Conn : /\ conn[c].at = "register" /\ conn[c].run # r
                  /\ conn[c].sid \in Listed /\ sessions[conn[c].sid].run = r
MarkedByAnother(r) ==
  \E q \in Rid \ {r} : /\ procs[q].reader = "mark" /\ procs[q].sid = procs[r].sid
                       /\ Keepers(r) = {procs[q].sid}

\* Whatever the connections, the readers and the scanner race one another to do, a living
\* child is let go of in these three ways only: not by a Kill, which kills what it removes,
\* not by the insert of a new session and not by the end of its own reader.
OnlyRacesLose ==
  [][\A r \in Rid : LetGo(r) => KilledMeanwhile(r) \/ RelaunchedTwice(r) \/ MarkedByAnother(r)]_vars

\* The end of a child is noticed: a session whose run has a dead child does not keep that
\* run, once the reader of the run has yet to say so.
DeathIsListed ==
  \A s \in Sid, r \in Rid :
    (/\ s \in Listed /\ sessions[s].run = r
     /\ procs[r].child = "dead" /\ procs[r].reader \in {"start", "read", "wait", "mark"})
      ~> (s \notin Listed \/ sessions[s].run # r)

\* A child that has closed its terminal and lives on, with its reader waiting for it.
Lingers(r) == procs[r].reader = "wait" /\ procs[r].child = "alive"

\* Every child that Kill has taken from the table ends, behind whatever others the walk has to
\* wait, if no child of any session lingers for ever: one that does stops the walk.
KillReachesChild ==
  (\A q \in Rid : []<>~Lingers(q)) =>
    \A r \in Rid : (Killers(r) # {}) ~> (procs[r].child = "dead")

--------------------------------------------------------------------------------
(***************************************************************************)
(* With one connection the table keeps the promise of SessionLifecycle.    *)
(***************************************************************************)
PhaseOf(s) ==
  CASE s \in Listed -> IF sessions[s].run # None THEN "running" ELSE "stopped"
    [] Gone(s)      -> "gone"
    [] OTHER        -> "absent"

ProcOf(s) ==
  LET mine == {r \in Rid : procs[r].sid = s} IN
    IF \E r \in mine : procs[r].child = "alive" THEN "alive"
    ELSE IF \E r \in mine : Keepers(r) # {} \/ Holders(r) # {} THEN "dead"
    ELSE "none"

Lifecycle == INSTANCE SessionLifecycle WITH
  Session <- Sid,
  phase   <- [s \in Sid |-> PhaseOf(s)],
  proc    <- [s \in Sid |-> ProcOf(s)],
  parent  <- [s \in Sid |-> ParentOf(s)]

\* Every step of the table is a step of the promised life of a session, or none of it.
KeepsLifecycle == Lifecycle!LifeSpec
================================================================================
