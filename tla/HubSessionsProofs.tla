---------------------------- MODULE HubSessionsProofs ----------------------------
(***************************************************************************)
(* Theorems of HubSessions, for every set of ids, launches and connections.*)
(***************************************************************************)
EXTENDS HubSessions, TLAPS

\* A daemon starts in a well-formed state, whatever table it restores.
LEMMA TypeInit == Init => TypeOK
<1> SUFFICES ASSUME Init PROVE TypeOK
  OBVIOUS
<1>1. PICK known \in SUBSET Sid, parentOf \in [Sid -> Sid \cup {None}] : RestoredTable(known, parentOf)
  BY DEF Init
<1>2. \A s \in Sid : Restored(s, parentOf[s]) \in Entry
  BY DEF Restored, Entry
<1>3. sessions \in [Sid -> Entry \cup {None}] /\ issued \in SUBSET Sid /\ logs \in SUBSET Sid
  BY <1>1, <1>2 DEF RestoredTable
<1>4. procs \in [Rid -> Proc] /\ conn \in [Conn -> Handler]
  BY DEF Init, Proc, Handler, Idle, Stage
<1>5. QED
  BY <1>3, <1>4 DEF Init, TypeOK

LEMMA LaunchedType == \A r \in Rid, p \in Sid \cup {None} : Launched(r, p) \in Entry
BY DEF Launched, Entry

\* Whose turn is next in a Kill's walk is one of those it has left.
LEMMA UpcomingType == \A vs \in SUBSET Victim : Upcoming(vs) \subseteq Sid \cup {None}
BY DEF Upcoming, Victim

\* What a Kill of s takes from the table, each with its run.
Taken(s) == {[sid |-> t, run |-> sessions[t].run] : t \in Doomed(s)}

\* Every critical section keeps the state well formed.
LEMMA TypeStep == TypeOK /\ LocalsFit /\ LaunchesFit /\ [Next]_vars => TypeOK'
<1> SUFFICES ASSUME TypeOK, LocalsFit, LaunchesFit, [Next]_vars PROVE TypeOK'
  OBVIOUS
<1> USE DEF TypeOK
<1>1. ASSUME NEW c \in Conn, Create(c) PROVE TypeOK'
  BY <1>1 DEF Create, Fresh, Spawn, Proc, Stage, Handler
<1>2. ASSUME NEW c \in Conn, ShellCheck(c) PROVE TypeOK'
  BY <1>2 DEF ShellCheck, Listed, Shells, Stage, Handler
<1>3. ASSUME NEW c \in Conn, ShellSpawn(c) PROVE TypeOK'
  BY <1>3 DEF ShellSpawn, Fresh, Spawn, Proc, Idle, Stage, Handler
<1>4. ASSUME NEW c \in Conn, Insert(c) \/ Register(c) PROVE TypeOK'
  <2>1. conn[c].run \in Rid /\ conn[c].sid \in Sid
    BY <1>4 DEF Insert, Register, LocalsFit
  <2>2. Launched(conn[c].run, conn[c].parent) \in Entry /\ Launched(conn[c].run, ParentOf(conn[c].sid)) \in Entry
    BY <2>1, LaunchedType DEF Handler, ParentOf, Listed, Entry
  <2>3. sessions' \in [Sid -> Entry \cup {None}]
    BY <1>4, <2>1, <2>2 DEF Insert, Register
  <2>4. conn' \in [Conn -> Handler]
    BY <1>4 DEF Insert, Register, ThenAnnounce, Stage, Handler
  <2>5. QED
    BY <1>4, <2>3, <2>4 DEF Insert, Register
<1>5. ASSUME NEW c \in Conn, RestartCheck(c) PROVE TypeOK'
  BY <1>5 DEF RestartCheck, Idle, Stage, Handler
<1>6. ASSUME NEW c \in Conn, Relaunch(c) PROVE TypeOK'
  <2>1. conn[c].sid \in Sid \cup {None}
    BY DEF Handler
  <2>2. procs' \in [Rid -> Proc]
    BY <1>6, <2>1 DEF Relaunch, Spawn, Proc
  <2>3. conn' \in [Conn -> Handler]
    BY <1>6, <2>1 DEF Relaunch, Idle, Stage, Handler
  <2>4. QED
    BY <1>6, <2>2, <2>3 DEF Relaunch
<1>7. ASSUME NEW c \in Conn, Kill(c) PROVE TypeOK'
  <2>1. PICK s \in issued :
          /\ sessions' = Without(Doomed(s))
          /\ \E n \in Upcoming(Taken(s)) :
               conn' = [conn EXCEPT ![c] = [at |-> "kill", sid |-> n, run |-> None, parent |-> None,
                                            victims |-> Taken(s)]]
          /\ untold' = (untold \/ Doomed(s) # {})
    BY <1>7 DEF Kill, Taken
  <2>2. \A t \in Doomed(s) : t \in Sid /\ sessions[t] \in Entry
    BY DEF Doomed, Listed, Shells
  <2>3. Taken(s) \in SUBSET Victim
    BY <2>2 DEF Victim, Entry, Taken
  <2>4. conn' \in [Conn -> Handler]
    BY <2>1, <2>3, UpcomingType DEF Handler
  <2>5. QED
    BY <1>7, <2>1, <2>4 DEF Kill, Without
<1>8. ASSUME NEW c \in Conn, KillOne(c) PROVE TypeOK'
  <2>1. PICK v \in conn[c].victims :
          /\ \/ v.run = None /\ UNCHANGED procs
             \/ v.run # None /\ procs' = [procs EXCEPT ![v.run].child = "dead"]
          /\ logs' = logs \ {v.sid}
          /\ \E n \in Upcoming(conn[c].victims \ {v}) :
               conn' = [conn EXCEPT ![c].victims = conn[c].victims \ {v}, ![c].sid = n]
    BY <1>8 DEF KillOne, KillChild
  <2>2. conn[c] \in Handler
    OBVIOUS
  <2>3. v.run \in Rid \cup {None}
    BY <2>1, <2>2 DEF Handler, Victim
  <2>4. procs' \in [Rid -> Proc]
    BY <2>1, <2>3 DEF Proc
  <2>5. conn' \in [Conn -> Handler]
    <3>1. conn[c].victims \ {v} \in SUBSET Victim
      BY <2>2 DEF Handler
    <3>2. PICK n \in Sid \cup {None} :
            conn' = [conn EXCEPT ![c].victims = conn[c].victims \ {v}, ![c].sid = n]
      BY <2>1, <3>1, UpcomingType
    <3>3. QED
      BY <2>2, <3>1, <3>2 DEF Handler
  <2>6. QED
    BY <1>8, <2>1, <2>4, <2>5 DEF KillOne
<1>9. ASSUME NEW c \in Conn, Announce(c) PROVE TypeOK'
  BY <1>9 DEF Announce, Idle, Stage, Handler
<1>10. ASSUME NEW r \in Rid, MarkStopped(r) PROVE TypeOK'
  <2>1. procs' \in [Rid -> Proc]
    BY <1>10 DEF MarkStopped, Proc
  <2>2. sessions' \in [Sid -> Entry \cup {None}]
    <3> DEFINE s == procs[r].sid
    <3>1. CASE s \in Listed
      <4>1. Ended(sessions[s]) \in Entry
        BY <3>1 DEF Ended, Entry, Listed
      <4>2. QED
        BY <1>10, <3>1, <4>1 DEF MarkStopped
    <3>2. CASE s \notin Listed
      BY <1>10, <3>2 DEF MarkStopped
    <3>3. QED
      BY <3>1, <3>2
  <2>3. QED
    BY <1>10, <2>1, <2>2 DEF MarkStopped
<1>11. ASSUME NEW r \in Rid, ReaderOpen(r) PROVE TypeOK'
  BY <1>11 DEF ReaderOpen, Proc, LaunchesFit
<1>12. ASSUME NEW r \in Rid, ReaderEof(r) \/ ReaderExited(r) \/ ReaderAnnounce(r) \/ ChildExit(r)
       PROVE TypeOK'
  <2>1. procs' \in [Rid -> Proc]
    BY <1>12 DEF ReaderEof, ReaderExited, ReaderAnnounce, ChildExit, Proc
  <2>2. QED
    BY <1>12, <2>1 DEF ReaderEof, ReaderExited, ReaderAnnounce, ChildExit
<1>13. ASSUME ScanLook PROVE TypeOK'
  <2>1. PICK agents \in SUBSET {s \in Listed : sessions[s].run # None /\ ParentOf(s) = None} :
          \E shown \in [agents -> Reading] :
            scanner' = [at |-> "apply",
                        moved |-> {[sid |-> s, run |-> sessions[s].run, activity |-> shown[s]] : s \in agents}]
    BY <1>13 DEF ScanLook
  <2>2. PICK shown \in [agents -> Reading] :
          scanner' = [at |-> "apply",
                      moved |-> {[sid |-> s, run |-> sessions[s].run, activity |-> shown[s]] : s \in agents}]
    BY <2>1
  <2>3. \A s \in agents : s \in Sid /\ sessions[s].run \in Rid /\ shown[s] \in Reading
    BY <2>1, <2>2 DEF Listed, Entry
  <2>4. {[sid |-> s, run |-> sessions[s].run, activity |-> shown[s]] : s \in agents} \in SUBSET Moved
    BY <2>3 DEF Moved
  <2>5. QED
    BY <1>13, <2>2, <2>4 DEF ScanLook
<1>14. ASSUME ScanApply PROVE TypeOK'
  <2> DEFINE hit == {m \in scanner.moved : HasRun(m.sid)}
             what(s) == CHOOSE m \in hit : m.sid = s
  <2>1. \A m \in hit : m.activity \in Reading
    BY DEF Moved
  <2>2. \A s \in Sid : (\E m \in hit : m.sid = s) => what(s) \in hit /\ what(s).sid = s
    OBVIOUS
  <2>3. \A s \in Sid : (\E m \in hit : m.sid = s) =>
                         [sessions[s] EXCEPT !.activity = what(s).activity] \in Entry
    BY <2>1, <2>2 DEF HasRun, Listed, Entry
  <2>4. sessions' = [s \in Sid |->
                       IF \E m \in hit : m.sid = s
                         THEN [sessions[s] EXCEPT !.activity = what(s).activity]
                         ELSE sessions[s]]
    BY <1>14 DEF ScanApply
  <2>5. sessions' \in [Sid -> Entry \cup {None}]
    BY <2>3, <2>4
  <2>6. QED
    BY <1>14, <2>5 DEF ScanApply
<1>15. ASSUME ScanSend PROVE TypeOK'
  BY <1>15 DEF ScanSend
<1>16. ASSUME UNCHANGED vars PROVE TypeOK'
  BY <1>16 DEF vars
<1>17. QED
  BY <1>1, <1>2, <1>3, <1>4, <1>5, <1>6, <1>7, <1>8, <1>9, <1>10, <1>11, <1>12, <1>13, <1>14,
     <1>15, <1>16 DEF Next, Handle, Reader, Scan

\* A stopped session stays bare: a reading is written only to a session that has a run.
LEMMA BareStep == TypeOK /\ LocalsFit /\ StoppedIsBare /\ [Next]_vars => StoppedIsBare'
<1> SUFFICES ASSUME TypeOK, LocalsFit, StoppedIsBare, [Next]_vars PROVE StoppedIsBare'
  OBVIOUS
<1> USE DEF StoppedIsBare, Listed
<1>1. CASE UNCHANGED sessions
  BY <1>1
<1>2. ASSUME NEW c \in Conn, Insert(c) \/ Register(c) PROVE StoppedIsBare'
  <2>1. conn[c].run \in Rid
    BY <1>2 DEF Insert, Register, LocalsFit
  <2>2. conn[c].run # None
    BY <2>1, NoneAssumption
  <2>3. CASE UNCHANGED sessions
    BY <2>3
  <2>4. CASE \E s \in Sid, p \in Sid \cup {None} : sessions' = [sessions EXCEPT ![s] = Launched(conn[c].run, p)]
    BY <2>2, <2>4 DEF Launched, TypeOK
  <2>5. QED
    BY <1>2, <2>3, <2>4 DEF Insert, Register, LocalsFit, TypeOK, Handler, ParentOf, Entry
<1>3. ASSUME NEW c \in Conn, Kill(c) PROVE StoppedIsBare'
  BY <1>3 DEF Kill, Without
<1>4. ASSUME NEW r \in Rid, MarkStopped(r) PROVE StoppedIsBare'
  <2>1. CASE UNCHANGED sessions
    BY <2>1
  <2>2. CASE procs[r].sid \in Listed /\ sessions' = [sessions EXCEPT ![procs[r].sid] = Ended(@)]
    <3>1. /\ Ended(sessions[procs[r].sid]).status = "Stopped"
          /\ Ended(sessions[procs[r].sid]).run = None
          /\ Ended(sessions[procs[r].sid]).activity = "Unknown"
      BY <2>2 DEF Ended, TypeOK, Entry
    <3>2. QED
      BY <2>2, <3>1 DEF TypeOK
  <2>3. QED
    BY <1>4, <2>1, <2>2 DEF MarkStopped
<1>5. ASSUME ScanApply PROVE StoppedIsBare'
  <2> SUFFICES ASSUME NEW s \in Sid, sessions'[s] # None
               PROVE /\ sessions'[s].status = "Running" <=> sessions'[s].run # None
                     /\ sessions'[s].run = None => sessions'[s].activity = "Unknown"
    OBVIOUS
  <2> DEFINE hit == {m \in scanner.moved : HasRun(m.sid)}
             what == CHOOSE m \in hit : m.sid = s
  <2>1. sessions'[s] = IF \E m \in hit : m.sid = s
                         THEN [sessions[s] EXCEPT !.activity = what.activity]
                         ELSE sessions[s]
    BY <1>5 DEF ScanApply
  <2>2. CASE \E m \in hit : m.sid = s
    <3>0. HasRun(s)
      BY <2>2
    <3>1. s \in Listed /\ sessions[s] \in Entry /\ sessions[s].run # None
      BY <3>0 DEF HasRun, TypeOK
    <3>2. sessions'[s] = [sessions[s] EXCEPT !.activity = what.activity]
      BY <2>1, <2>2
    <3>3. sessions'[s].status = sessions[s].status /\ sessions'[s].run = sessions[s].run
      BY <3>1, <3>2 DEF Entry
    <3>4. QED
      BY <3>1, <3>3
  <2>3. CASE ~\E m \in hit : m.sid = s
    BY <2>1, <2>3
  <2>4. QED
    BY <2>2, <2>3
<1>6. QED
  BY <1>1, <1>2, <1>3, <1>4, <1>5
     DEF Next, Handle, Reader, Scan, vars, Create, ShellCheck, ShellSpawn, RestartCheck, Relaunch,
         KillOne, Announce, ReaderOpen, ReaderEof, ReaderExited, ReaderAnnounce, ChildExit,
         ScanLook, ScanSend

\* Handlers keep the locals their stages need.
LEMMA LocalsStep == TypeOK /\ LocalsFit /\ LaunchesFit /\ [Next]_vars => LocalsFit'
<1> SUFFICES ASSUME TypeOK, LocalsFit, LaunchesFit, [Next]_vars PROVE LocalsFit'
  OBVIOUS
<1> USE DEF TypeOK, LocalsFit
<1>1. CASE UNCHANGED <<issued, procs, conn>>
  BY <1>1
<1>2. ASSUME NEW c \in Conn, Create(c) PROVE LocalsFit'
  BY <1>2, NoneAssumption DEF Create, Fresh, Spawn, Stage, LaunchesFit, Holders
<1>3. ASSUME NEW c \in Conn, ShellCheck(c) PROVE LocalsFit'
  BY <1>3 DEF ShellCheck, Stage
<1>4. ASSUME NEW c \in Conn, ShellSpawn(c) PROVE LocalsFit'
  BY <1>4, NoneAssumption DEF ShellSpawn, Fresh, Spawn, Stage, Idle, LaunchesFit, Holders
<1>5. ASSUME NEW c \in Conn, Insert(c) \/ Register(c) PROVE LocalsFit'
  BY <1>5 DEF Insert, Register, ThenAnnounce, Stage
<1>6. ASSUME NEW c \in Conn, RestartCheck(c) PROVE LocalsFit'
  BY <1>6 DEF RestartCheck, Stage, Idle
<1>7. ASSUME NEW c \in Conn, Relaunch(c) PROVE LocalsFit'
  <2>1. CASE conn' = [conn EXCEPT ![c] = Idle] /\ UNCHANGED procs
    BY <1>7, <2>1 DEF Relaunch, Stage, Idle
  <2>2. CASE \E r \in Rid : /\ Spawn(r, conn[c].sid)
                            /\ conn' = [conn EXCEPT ![c] = Stage("register", conn[c].sid, r, None)]
    <3>1. PICK r \in Rid : /\ Spawn(r, conn[c].sid)
                           /\ conn' = [conn EXCEPT ![c] = Stage("register", conn[c].sid, r, None)]
      BY <2>2
    <3>2. \A d \in Conn : conn[d].run # r
      BY <3>1 DEF Spawn, LaunchesFit, Holders
    <3>3. procs' = [procs EXCEPT ![r] = [sid |-> conn[c].sid, child |-> "alive", reader |-> "start"]]
      BY <3>1 DEF Spawn
    <3>4. conn[c].sid \in Sid
      BY <1>7 DEF Relaunch
    <3>5. QED
      BY <1>7, <3>1, <3>2, <3>3, <3>4, NoneAssumption DEF Relaunch, Stage
  <2>3. QED
    BY <1>7, <2>1, <2>2 DEF Relaunch
<1>8. ASSUME NEW c \in Conn, Kill(c) \/ KillOne(c) \/ Announce(c) PROVE LocalsFit'
  <2>1. CASE Kill(c)
    BY <2>1 DEF Kill
  <2>2. CASE KillOne(c)
    <3>1. \A r \in Rid : procs'[r].sid = procs[r].sid
      BY <2>2 DEF KillOne, KillChild, Proc
    <3>2. /\ conn[c].at = "kill" /\ conn'[c].at = "kill" /\ conn'[c].run = conn[c].run
          /\ \A d \in Conn : d # c => conn'[d] = conn[d]
      BY <2>2 DEF KillOne, Handler
    <3>3. QED
      BY <2>2, <3>1, <3>2 DEF KillOne
  <2>3. CASE Announce(c)
    BY <2>3 DEF Announce, Stage, Idle
  <2>4. QED
    BY <1>8, <2>1, <2>2, <2>3
<1>9. ASSUME NEW r \in Rid, Reader(r) \/ ChildExit(r) PROVE LocalsFit'
  BY <1>9 DEF Reader, ReaderOpen, ReaderEof, ReaderExited, MarkStopped, ReaderAnnounce, ChildExit, Proc
<1>10. QED
  BY <1>1, <1>2, <1>3, <1>4, <1>5, <1>6, <1>7, <1>8, <1>9
     DEF Next, Handle, Scan, vars, ScanLook, ScanApply, ScanSend

\* Ownership of runs, over the table and the handlers: who keeps a run is told by sessions
\* and conn alone, and whose session it is by the first field of procs.
LEMMA OwnerFrame ==
  ASSUME TypeOK, LaunchesFit, RunHasOneOwner, UNCHANGED <<sessions, conn>>,
         \A r \in Rid : /\ procs'[r].sid = procs[r].sid
                        /\ procs'[r].reader = "none" <=> procs[r].reader = "none"
                        /\ procs'[r].child = "none" <=> procs[r].child = "none"
  PROVE  LaunchesFit' /\ RunHasOneOwner'
BY DEF LaunchesFit, RunHasOneOwner, Keepers, Holders, Killers, Listed


\* Runs keep one owner, and an unlaunched run none.
LEMMA OwnerStep ==
  TypeOK /\ LocalsFit /\ LaunchesFit /\ RunHasOneOwner /\ [Next]_vars => LaunchesFit' /\ RunHasOneOwner'
<1> SUFFICES ASSUME TypeOK, LocalsFit, LaunchesFit, RunHasOneOwner, [Next]_vars
             PROVE  LaunchesFit' /\ RunHasOneOwner'
  OBVIOUS
<1> DEFINE Done == LaunchesFit' /\ RunHasOneOwner'
<1> USE DEF LaunchesFit, RunHasOneOwner, Keepers, Holders, Killers
\* A launch: r was nobody's and becomes the handler's.
<1>1. ASSUME NEW c \in Conn, NEW s \in Sid, NEW r \in Rid, NEW a, NEW p, Spawn(r, s),
             conn[c].run = None, conn[c].victims = {},
             conn' = [conn EXCEPT ![c] = Stage(a, s, r, p)], UNCHANGED sessions
      PROVE  Done
  <2>1. \A q \in Rid : q # r => procs'[q] = procs[q]
    BY <1>1 DEF Spawn, TypeOK
  <2>2. procs'[r].sid = s /\ procs'[r].child = "alive" /\ procs'[r].reader = "start"
    BY <1>1 DEF Spawn, TypeOK
  <2>3. \A d \in Conn : d # c => conn'[d] = conn[d]
    BY <1>1 DEF TypeOK
  <2>4. conn'[c].run = r /\ conn'[c].victims = {}
    BY <1>1 DEF TypeOK, Stage
  <2>5. \A q \in Rid : q # r => /\ Holders(q)' = Holders(q) /\ Killers(q)' = Killers(q)
                                /\ Keepers(q)' = Keepers(q)
    BY <1>1, <2>3, <2>4, NoneAssumption DEF Listed
  <2>6. Holders(r)' = {c} /\ Killers(r)' = {} /\ Keepers(r)' = {}
    BY <1>1, <2>3, <2>4 DEF Spawn, Listed
  <2>7. QED
    BY <2>1, <2>2, <2>5, <2>6
<1>2. ASSUME NEW c \in Conn, Create(c) \/ ShellSpawn(c) \/ Relaunch(c), ~UNCHANGED procs PROVE Done
  <2>1. conn[c].run = None /\ conn[c].victims = {}
    BY <1>2 DEF Create, ShellSpawn, Relaunch, LocalsFit
  <2>2. \E s \in Sid, r \in Rid, a \in {"create", "shell", "register"}, p \in Sid \cup {None} :
          Spawn(r, s) /\ conn' = [conn EXCEPT ![c] = Stage(a, s, r, p)]
    <3>1. conn[c].sid \in Sid \/ conn[c].at # "relaunch"
      BY DEF LocalsFit
    <3>2. conn[c].parent \in Sid \cup {None}
      BY DEF TypeOK, Handler
    <3>3. QED
      BY <1>2, <3>1, <3>2 DEF Create, ShellSpawn, Relaunch
  <2>3. UNCHANGED sessions
    BY <1>2 DEF Create, ShellSpawn, Relaunch
  <2>4. PICK s \in Sid, r \in Rid, a \in {"create", "shell", "register"}, p \in Sid \cup {None} :
          Spawn(r, s) /\ conn' = [conn EXCEPT ![c] = Stage(a, s, r, p)]
    BY <2>2
  <2>5. QED
    BY <1>1, <2>1, <2>3, <2>4
\* A handler that holds nothing moves to a stage in which it holds nothing.
<1>3. ASSUME NEW c \in Conn, UNCHANGED <<sessions, procs>>, conn[c].run = None, conn[c].victims = {},
             NEW h, conn' = [conn EXCEPT ![c] = h], h.run = None, h.victims = {}
      PROVE  Done
  <2>1. \A d \in Conn : conn'[d].run = conn[d].run /\ conn'[d].victims = conn[d].victims
    <3>1. \A d \in Conn : conn'[d] = IF d = c THEN h ELSE conn[d]
      BY <1>3 DEF TypeOK
    <3>2. QED
      BY <1>3, <3>1
  <2>2. \A q \in Rid : Holders(q)' = Holders(q) /\ Killers(q)' = Killers(q) /\ Keepers(q)' = Keepers(q)
    BY <1>3, <2>1 DEF Listed
  <2>3. QED
    BY <1>3, <2>2
<1>4. ASSUME NEW c \in Conn, ShellCheck(c) \/ RestartCheck(c) \/ Announce(c) PROVE Done
  <2>1. UNCHANGED <<sessions, procs>>
    BY <1>4 DEF ShellCheck, RestartCheck, Announce
  <2>2. conn[c].run = None /\ conn[c].victims = {}
    BY <1>4 DEF ShellCheck, RestartCheck, Announce, LocalsFit
  <2>3. PICK a, s, p : conn' = [conn EXCEPT ![c] = Stage(a, s, None, p)]
    BY <1>4 DEF ShellCheck, RestartCheck, Announce, Idle
  <2>4. Stage(a, s, None, p).run = None /\ Stage(a, s, None, p).victims = {}
    BY DEF Stage
  <2>5. QED
    BY <1>3, <2>1, <2>2, <2>3, <2>4
\* A failed launch.
<1>5. ASSUME NEW c \in Conn, Create(c) \/ ShellSpawn(c) \/ Relaunch(c), UNCHANGED procs PROVE Done
  <2>1. conn[c].run = None /\ conn[c].victims = {}
    BY <1>5 DEF Create, ShellSpawn, Relaunch, LocalsFit
  <2>2. CASE conn' = [conn EXCEPT ![c] = Idle]
    <3>1. UNCHANGED sessions /\ Idle.run = None /\ Idle.victims = {}
      BY <1>5 DEF Create, ShellSpawn, Relaunch, Idle, Stage
    <3>2. QED
      BY <1>3, <1>5, <2>1, <2>2, <3>1
  <2>3. CASE \E s \in Sid \cup {None}, r \in Rid : Spawn(r, s)
    BY <1>5, <2>3 DEF Spawn, TypeOK
  <2>4. QED
    BY <1>5, <2>2, <2>3 DEF Create, ShellSpawn, Relaunch, TypeOK, Handler
\* Registration: the run goes from the handler's hands to the table.
<1>6. ASSUME NEW c \in Conn, Insert(c) \/ Register(c) PROVE Done
  <2> DEFINE r == conn[c].run
             s == conn[c].sid
  <2>1. r \in Rid /\ s \in Sid /\ procs[r].sid = s /\ c \in Holders(r) /\ UNCHANGED procs
    BY <1>6 DEF Insert, Register, LocalsFit
  <2>2. conn[c].victims = {}
    BY <1>6 DEF Insert, Register, LocalsFit
  <2>3. \A d \in Conn : d # c => conn'[d] = conn[d]
    BY <1>6 DEF Insert, Register, ThenAnnounce, TypeOK
  <2>4. conn'[c].run = None /\ conn'[c].victims = {}
    BY <1>6 DEF Insert, Register, ThenAnnounce, Stage, TypeOK
  <2>5. Holders(r) = {c} /\ Keepers(r) = {} /\ Killers(r) = {}
    BY <2>1
  <2>6. \A q \in Rid : /\ Killers(q)' = Killers(q)
                       /\ Holders(q)' = IF q = r THEN {} ELSE Holders(q)
    BY <2>2, <2>3, <2>4, <2>5, NoneAssumption
  <2>7. \A t \in Sid : t # s => sessions'[t] = sessions[t]
    BY <1>6 DEF Insert, Register, TypeOK
  <2>8. sessions'[s] = sessions[s] \/ sessions'[s].run = r
    BY <1>6, <2>1 DEF Insert, Register, Launched, TypeOK
  <2>9. \A q \in Rid : Keepers(q)' \subseteq Keepers(q) \/ (q = r /\ Keepers(q)' \subseteq {s})
    BY <2>1, <2>5, <2>7, <2>8 DEF Listed
  <2>10. QED
    BY <2>1, <2>5, <2>6, <2>9
\* Kill: the runs of the doomed go from the table to the handler's list.
<1>7. ASSUME NEW c \in Conn, Kill(c) PROVE Done
  <2>1. PICK s \in issued :
          /\ sessions' = Without(Doomed(s))
          /\ \E n : conn' = [conn EXCEPT ![c] = [at |-> "kill", sid |-> n, run |-> None, parent |-> None,
                                                victims |-> Taken(s)]]
    BY <1>7 DEF Kill, Taken
  <2>2. conn[c].run = None /\ conn[c].victims = {} /\ UNCHANGED procs
    BY <1>7 DEF Kill, LocalsFit
  <2>3. \A d \in Conn : d # c => conn'[d] = conn[d]
    BY <2>1 DEF TypeOK
  <2>4. /\ conn'[c].run = None
        /\ conn'[c].victims = {[sid |-> t, run |-> sessions[t].run] : t \in Doomed(s)}
    BY <2>1 DEF TypeOK, Taken
  <2>5. Doomed(s) \subseteq Listed
    BY DEF Doomed, Shells, Listed
  <2>6. \A q \in Rid : Keepers(q)' = Keepers(q) \ Doomed(s)
    BY <2>1, <2>5 DEF Without, Listed
  <2>7. \A q \in Rid : Holders(q)' = Holders(q)
    BY <2>2, <2>3, <2>4, NoneAssumption
  <2>8. \A q \in Rid : Killers(q)' = IF Keepers(q) \cap Doomed(s) # {} THEN {c} ELSE Killers(q)
    <3>1. ASSUME NEW q \in Rid
          PROVE  (\E v \in conn'[c].victims : v.run = q) <=> Keepers(q) \cap Doomed(s) # {}
      <4>1. \A t : t \in Keepers(q) \cap Doomed(s) <=> (t \in Doomed(s) /\ sessions[t].run = q)
        BY <2>5
      <4>2. (\E v \in conn'[c].victims : v.run = q) <=> \E t \in Doomed(s) : sessions[t].run = q
        <5> DEFINE V(t) == [sid |-> t, run |-> sessions[t].run]
        <5>1. \A t : V(t).run = sessions[t].run
          OBVIOUS
        <5>2. conn'[c].victims = {V(t) : t \in Doomed(s)}
          BY <2>4
        <5> HIDE DEF V
        <5>3. QED
          BY <5>1, <5>2
      <4>3. QED
        BY <4>1, <4>2
    <3>2. \A q \in Rid : Killers(q)' = (Killers(q) \ {c}) \cup (IF Keepers(q) \cap Doomed(s) # {} THEN {c} ELSE {})
      BY <2>3, <3>1
    <3>3. \A q \in Rid : c \notin Killers(q)
      BY <2>2
    <3>4. \A q \in Rid : Keepers(q) # {} => Killers(q) = {}
      OBVIOUS
    <3>5. QED
      BY <3>2, <3>3, <3>4
  <2>9. \A q \in Rid : \A t, u \in Keepers(q) : t = u
    OBVIOUS
  <2>10. QED
    BY <2>2, <2>6, <2>7, <2>8, <2>9
<1>8. ASSUME NEW c \in Conn, KillOne(c) PROVE Done
  <2>1. PICK v \in conn[c].victims :
          /\ IF v.run = None THEN UNCHANGED procs
                             ELSE procs' = [procs EXCEPT ![v.run].child = "dead"]
          /\ \E n : conn' = [conn EXCEPT ![c].victims = conn[c].victims \ {v}, ![c].sid = n]
    BY <1>8 DEF KillOne, KillChild
  <2>2. v.run \in Rid => Killers(v.run) # {}
    BY <2>1
  <2>3. \A q \in Rid : /\ procs'[q].sid = procs[q].sid
                       /\ procs'[q].reader = procs[q].reader
                       /\ procs'[q].child = "none" <=> procs[q].child = "none"
    <3>1. v.run \in Rid => procs[v.run].child # "none"
      BY <2>2
    <3>2. procs \in [Rid -> Proc]
      BY DEF TypeOK
    <3>3. CASE UNCHANGED procs
      BY <3>3
    <3>4. CASE procs' = [procs EXCEPT ![v.run].child = "dead"]
      BY <3>1, <3>2, <3>4 DEF Proc
    <3>5. QED
      BY <2>1, <3>3, <3>4
  <2>4. UNCHANGED sessions
    BY <1>8 DEF KillOne
  <2>5. \A d \in Conn : conn'[d].run = conn[d].run /\ conn'[d].victims \subseteq conn[d].victims
    BY <2>1 DEF TypeOK, Handler
  <2>6. \A q \in Rid : /\ Keepers(q)' = Keepers(q) /\ Holders(q)' = Holders(q)
                       /\ Killers(q)' \subseteq Killers(q)
    BY <2>4, <2>5 DEF Listed
  <2>7. QED
    BY <2>3, <2>6
<1>9. ASSUME NEW r \in Rid, ReaderOpen(r) \/ ReaderEof(r) \/ ReaderExited(r) \/ ReaderAnnounce(r) \/ ChildExit(r)
      PROVE  Done
  <2>1. UNCHANGED <<sessions, conn>>
    BY <1>9 DEF ReaderOpen, ReaderEof, ReaderExited, ReaderAnnounce, ChildExit
  <2>2. \A q \in Rid : /\ procs'[q].sid = procs[q].sid
                       /\ procs'[q].reader = "none" <=> procs[q].reader = "none"
                       /\ procs'[q].child = "none" <=> procs[q].child = "none"
    BY <1>9 DEF ReaderOpen, ReaderEof, ReaderExited, ReaderAnnounce, ChildExit, TypeOK, Proc
  <2>3. QED
    BY <2>1, <2>2, OwnerFrame
<1>10. ASSUME NEW r \in Rid, MarkStopped(r) PROVE Done
  <2>1. \A q \in Rid : /\ procs'[q].sid = procs[q].sid
                       /\ procs'[q].reader = "none" <=> procs[q].reader = "none"
                       /\ procs'[q].child = procs[q].child
    BY <1>10 DEF MarkStopped, TypeOK, Proc
  <2>2. \A t \in Sid : sessions'[t] = sessions[t] \/ sessions'[t].run = None
    <3>1. CASE UNCHANGED sessions
      BY <3>1
    <3>2. CASE procs[r].sid \in Listed /\ sessions' = [sessions EXCEPT ![procs[r].sid] = Ended(@)]
      <4>1. Ended(sessions[procs[r].sid]).run = None
        BY <3>2 DEF Ended, TypeOK, Entry, Listed
      <4>2. QED
        BY <3>2, <4>1 DEF TypeOK
    <3>3. QED
      BY <1>10, <3>1, <3>2 DEF MarkStopped
  <2>3. \A q \in Rid : Keepers(q)' \subseteq Keepers(q)
    BY <2>2, NoneAssumption DEF Listed
  <2>4. \A q \in Rid : Holders(q)' = Holders(q) /\ Killers(q)' = Killers(q)
    BY <1>10 DEF MarkStopped
  <2>5. QED
    BY <2>1, <2>3, <2>4
<1>11. ASSUME ScanApply PROVE Done
  <2>1. \A t \in Sid : \/ sessions'[t] = sessions[t]
                       \/ sessions[t] # None /\ sessions'[t].run = sessions[t].run
    <3> SUFFICES ASSUME NEW t \in Sid, NEW m \in scanner.moved, HasRun(m.sid), m.sid = t,
                        NEW a, sessions'[t] = [sessions[t] EXCEPT !.activity = a]
                 PROVE  sessions[t] # None /\ sessions'[t].run = sessions[t].run
      BY <1>11 DEF ScanApply
    <3> QED
      BY DEF HasRun, Listed, TypeOK, Entry
  <2>2. \A q \in Rid : Keepers(q)' \subseteq Keepers(q)
    BY <2>1 DEF Listed
  <2>3. \A q \in Rid : Holders(q)' = Holders(q) /\ Killers(q)' = Killers(q) /\ UNCHANGED procs
    BY <1>11 DEF ScanApply
  <2>4. QED
    BY <2>2, <2>3
<1>12. CASE UNCHANGED <<sessions, procs, conn>>
  BY <1>12, OwnerFrame
<1>13. QED
  BY <1>2, <1>4, <1>5, <1>6, <1>7, <1>8, <1>9, <1>10, <1>11, <1>12
     DEF Next, Handle, Reader, Scan, vars, ScanLook, ScanSend

--------------------------------------------------------------------------------
\* The state of the daemon stays inside the inductive invariant.
THEOREM Inductive == Spec => []IndInv
<1>1. Init => IndInv
  <2> SUFFICES ASSUME Init PROVE IndInv
    OBVIOUS
  <2>1. PICK known \in SUBSET Sid, parentOf \in [Sid -> Sid \cup {None}] : RestoredTable(known, parentOf)
    BY DEF Init
  <2>2. \A s \in Listed : sessions[s] = Restored(s, parentOf[s])
    BY <2>1 DEF RestoredTable, Listed
  <2>3. \A s \in Listed : /\ sessions[s].status = "Stopped" /\ sessions[s].activity = "Unknown"
                          /\ sessions[s].run = None
    <3>1. \A s, p : /\ Restored(s, p).status = "Stopped" /\ Restored(s, p).activity = "Unknown"
                    /\ Restored(s, p).run = None
      BY DEF Restored
    <3>2. QED
      BY <2>2, <3>1
  <2>4. StoppedIsBare /\ \A r \in Rid : Keepers(r) = {}
    BY <2>3, NoneAssumption DEF StoppedIsBare, Keepers
  <2>5. \A r \in Rid : Holders(r) = {} /\ Killers(r) = {}
    BY NoneAssumption DEF Init, Holders, Killers, Idle, Stage
  <2>6. LocalsFit
    BY DEF Init, LocalsFit, Idle, Stage
  <2>7. LaunchesFit /\ RunHasOneOwner
    BY <2>4, <2>5 DEF Init, LaunchesFit, RunHasOneOwner
  <2>8. QED
    BY <2>4, <2>6, <2>7, TypeInit DEF IndInv
<1>2. IndInv /\ [Next]_vars => IndInv'
  BY TypeStep, LocalsStep, BareStep, OwnerStep DEF IndInv
<1>3. QED
  BY <1>1, <1>2, PTL DEF Spec

\* The variables of the daemon keep their types.
THEOREM TypeCorrect == Spec => []TypeOK
<1>1. IndInv => TypeOK
  BY DEF IndInv
<1>2. QED
  BY <1>1, Inductive, PTL

\* A session that is not running shows no run and no activity, although the scanner applies
\* its readings long after it took them.
THEOREM StoppedStaysBare == Spec => []StoppedIsBare
<1>1. IndInv => StoppedIsBare
  BY DEF IndInv
<1>2. QED
  BY <1>1, Inductive, PTL

\* However handlers interleave, a run is never in two hands.
THEOREM OneOwner == Spec => []RunHasOneOwner
<1>1. IndInv => RunHasOneOwner
  BY DEF IndInv
<1>2. QED
  BY <1>1, Inductive, PTL

--------------------------------------------------------------------------------
\* A killed session never comes back: a relaunch, a reader or a scan that still had it in
\* hand finds the id gone and writes nothing.
LEMMA GoneStep ==
  ASSUME TypeOK, LocalsFit, [Next]_vars, NEW s \in Sid, Gone(s)
  PROVE  Gone(s)'
<1> DEFINE Away(c) == conn[c].at \in {"create", "shell"} /\ conn[c].sid = s
<1>1. s \in issued /\ sessions[s] = None /\ \A c \in Conn : ~Away(c)
  BY DEF Gone, Listed
<1>2. SUFFICES s \in issued' /\ sessions'[s] = None /\ \A c \in Conn : ~Away(c)'
  BY DEF Gone, Listed
<1>3. s \in issued'
  BY <1>1 DEF Next, Handle, Reader, Scan, vars, Create, ShellCheck, ShellSpawn, Insert, RestartCheck,
     Relaunch, Register, Kill, KillOne, Announce, ReaderOpen, ReaderEof, ReaderExited, MarkStopped,
     ReaderAnnounce, ChildExit, ScanLook, ScanApply, ScanSend
<1>4. sessions'[s] = None
  <2>1. CASE UNCHANGED sessions
    BY <1>1, <2>1
  <2>2. ASSUME NEW c \in Conn, Insert(c) PROVE sessions'[s] = None
    BY <1>1, <2>2 DEF Insert, TypeOK
  <2>3. ASSUME NEW c \in Conn, Register(c) PROVE sessions'[s] = None
    BY <1>1, <2>3 DEF Register, StillListed, Listed, TypeOK
  <2>4. ASSUME NEW c \in Conn, Kill(c) PROVE sessions'[s] = None
    BY <1>1, <2>4 DEF Kill, Without
  <2>5. ASSUME NEW r \in Rid, MarkStopped(r) PROVE sessions'[s] = None
    BY <1>1, <2>5 DEF MarkStopped, Listed, TypeOK
  <2>6. ASSUME ScanApply PROVE sessions'[s] = None
    BY <1>1, <2>6 DEF ScanApply, HasRun, Listed
  <2>7. QED
    BY <2>1, <2>2, <2>3, <2>4, <2>5, <2>6
       DEF Next, Handle, Reader, Scan, vars, Create, ShellCheck, ShellSpawn, RestartCheck, Relaunch,
           KillOne, Announce, ReaderOpen, ReaderEof, ReaderExited, ReaderAnnounce, ChildExit,
           ScanLook, ScanSend
<1>5. ASSUME NEW c \in Conn PROVE ~Away(c)'
  <2>1. CASE UNCHANGED conn
    BY <1>1, <2>1
  <2>2. ASSUME NEW d \in Conn, Handle(d) PROVE ~Away(c)'
    <3>1. CASE c # d
      <4>1. conn'[c] = conn[c]
        BY <2>2, <3>1 DEF Handle, Create, ShellCheck, ShellSpawn, Insert, RestartCheck, Relaunch,
           Register, Kill, KillOne, Announce, ThenAnnounce, TypeOK
      <4>2. QED
        BY <1>1, <4>1
    <3>2. CASE c = d
      <4>1. CASE Create(d) \/ ShellSpawn(d)
        BY <1>1, <3>2, <4>1 DEF Create, ShellSpawn, Fresh, Idle, Stage, TypeOK
      <4>2. CASE ~(Create(d) \/ ShellSpawn(d))
        <5>1. CASE ShellCheck(d) \/ RestartCheck(d) \/ Announce(d)
          BY <3>2, <5>1 DEF ShellCheck, RestartCheck, Announce, Idle, Stage, TypeOK
        <5>2. CASE Relaunch(d)
          BY <3>2, <5>2 DEF Relaunch, Idle, Stage, TypeOK
        <5>3. CASE Insert(d) \/ Register(d)
          BY <3>2, <5>3 DEF Insert, Register, ThenAnnounce, Stage, TypeOK
        <5>4. CASE Kill(d)
          BY <3>2, <5>4 DEF Kill, TypeOK
        <5>5. CASE KillOne(d)
          <6>1. conn'[d].at = "kill"
            BY <5>5 DEF KillOne, TypeOK, Handler
          <6>2. QED
            BY <3>2, <6>1
        <5>6. QED
          BY <2>2, <4>2, <5>1, <5>2, <5>3, <5>4, <5>5 DEF Handle
      <4>3. QED
        BY <4>1, <4>2
    <3>3. QED
      BY <3>1, <3>2
  <2>3. QED
    BY <2>1, <2>2 DEF Next, Reader, Scan, vars, ReaderOpen, ReaderEof, ReaderExited, MarkStopped,
       ReaderAnnounce, ChildExit, ScanLook, ScanApply, ScanSend
<1>6. QED
  BY <1>3, <1>4, <1>5

\* A session that was killed is gone for good (Kill takes it out of the table, and every
\* handler that comes back to it after a wait looks whether it is still there).
THEOREM KilledIsFinal == Spec => KilledStaysKilled
<1>1. IndInv /\ [Next]_vars => [\A s \in Sid : Gone(s) => Gone(s)']_vars
  BY GoneStep DEF IndInv
<1>2. QED
  BY <1>1, Inductive, PTL DEF Spec, KilledStaysKilled

--------------------------------------------------------------------------------
\* No change of the table is forgotten: whoever wrote it is on the way to announce it, or
\* somebody who will look at it later is.
LEMMA TellerStep == TypeOK /\ LaunchesFit /\ UntoldHasTeller /\ [Next]_vars => UntoldHasTeller'
<1> SUFFICES ASSUME TypeOK, LaunchesFit, UntoldHasTeller, [Next]_vars PROVE UntoldHasTeller'
  OBVIOUS
<1> USE DEF UntoldHasTeller
<1>1. ASSUME NEW c \in Conn, Handle(c) PROVE UntoldHasTeller'
  <2>1. CASE Insert(c) \/ Register(c)
    <3>1. conn'[c] = Stage("announce", None, None, None)
      BY <2>1 DEF Insert, Register, ThenAnnounce, TypeOK
    <3>2. conn'[c].at = "announce"
      BY <3>1 DEF Stage
    <3>3. QED
      BY <3>2
  <2>2. CASE Kill(c)
    BY <2>2 DEF Kill, TypeOK
  <2>3. CASE Announce(c)
    BY <2>3 DEF Announce
  <2>4. CASE Create(c) \/ ShellCheck(c) \/ ShellSpawn(c) \/ RestartCheck(c) \/ Relaunch(c)
    <3>1. conn[c].at \notin {"announce", "kill"} /\ UNCHANGED <<untold, scanner>>
      BY <2>4 DEF Create, ShellCheck, ShellSpawn, RestartCheck, Relaunch
    <3>2. \A d \in Conn : d # c => conn'[d] = conn[d]
      BY <2>4 DEF Create, ShellCheck, ShellSpawn, RestartCheck, Relaunch, TypeOK
    <3>3. \A r \in Rid : procs[r].reader = "announce" => procs'[r].reader = "announce"
      <4>1. CASE UNCHANGED procs
        BY <4>1
      <4>2. CASE \E r \in Rid, s \in Sid \cup {None} : Spawn(r, s)
        BY <4>2 DEF Spawn, LaunchesFit, TypeOK, Proc
      <4>3. QED
        BY <2>4, <4>1, <4>2 DEF Create, ShellCheck, ShellSpawn, RestartCheck, Relaunch, TypeOK, Handler
    <3>4. QED
      BY <3>1, <3>2, <3>3
  <2>5. CASE KillOne(c)
    <3>1. \A d \in Conn : conn'[d].at = conn[d].at
      BY <2>5 DEF KillOne, TypeOK, Handler
    <3>2. \A r \in Rid : procs'[r].reader = procs[r].reader
      BY <2>5 DEF KillOne, KillChild, TypeOK, Proc
    <3>3. QED
      BY <2>5, <3>1, <3>2 DEF KillOne
  <2>6. QED
    BY <1>1, <2>1, <2>2, <2>3, <2>4, <2>5 DEF Handle
<1>2. ASSUME NEW r \in Rid, MarkStopped(r) PROVE UntoldHasTeller'
  BY <1>2 DEF MarkStopped, TypeOK, Proc
<1>3. ASSUME NEW r \in Rid, ReaderAnnounce(r) PROVE UntoldHasTeller'
  BY <1>3 DEF ReaderAnnounce
<1>4. ASSUME NEW r \in Rid, ReaderOpen(r) \/ ReaderEof(r) \/ ReaderExited(r) \/ ChildExit(r)
      PROVE  UntoldHasTeller'
  <2>1. \A q \in Rid : procs[q].reader = "announce" => procs'[q].reader = "announce"
    BY <1>4 DEF ReaderOpen, ReaderEof, ReaderExited, ChildExit, TypeOK, Proc
  <2>2. QED
    BY <1>4, <2>1 DEF ReaderOpen, ReaderEof, ReaderExited, ChildExit
<1>5. ASSUME Scan PROVE UntoldHasTeller'
  <2>1. CASE ScanLook
    BY <2>1 DEF ScanLook
  <2>2. CASE ScanApply
    <3>1. scanner'.at = "send"
      BY <2>2 DEF ScanApply
    <3>2. QED
      BY <3>1
  <2>3. CASE ScanSend
    BY <2>3 DEF ScanSend
  <2>4. QED
    BY <1>5, <2>1, <2>2, <2>3 DEF Scan
<1>6. CASE UNCHANGED vars
  BY <1>6 DEF vars
<1>7. QED
  BY <1>1, <1>2, <1>3, <1>4, <1>5, <1>6 DEF Next, Reader

\* A change of the table that no client has been told of has someone who still has to
\* announce it (every path that writes the table ends in announce or in the scanner's send).
THEOREM NothingUntold == Spec => []UntoldHasTeller
<1>1. Init => UntoldHasTeller
  BY DEF Init, UntoldHasTeller
<1>2. IndInv => TypeOK /\ LaunchesFit
  BY DEF IndInv
<1>3. QED
  BY <1>1, <1>2, TellerStep, Inductive, PTL DEF Spec

--------------------------------------------------------------------------------
(***************************************************************************)
(* What a living child is lost by, whatever races what.                    *)
(***************************************************************************)
\* The handlers' steps by what they do to the table and to the ids handed out.
LEMMA HandsStep ==
  ASSUME IndInv, HandsAreNew, [Next]_vars
  PROVE  HandsAreNew'
<1> DEFINE New(c) == conn[c].at \in {"create", "shell"}
<1>0. TypeOK /\ LocalsFit /\ LaunchesFit
  BY DEF IndInv
\* A handler that was not about to insert and is not now, in a table no id of which is new.
<1>1. ASSUME NEW c \in Conn, ~New(c)', \A d \in Conn : d # c => conn'[d] = conn[d],
             Listed' \subseteq Listed \/ (New(c) /\ Listed' \subseteq Listed \cup {conn[c].sid}),
             UNCHANGED issued,
             \A r \in Rid : procs'[r].reader \in {"mark", "announce", "done"} => procs'[r].child = "dead"
      PROVE  HandsAreNew'
  <2>1. \A d \in Conn : New(d)' => d # c /\ New(d) /\ conn'[d].sid = conn[d].sid
    BY <1>1
  <2>2. \A d \in Conn : New(d)' => conn'[d].sid \notin Listed'
    BY <1>1, <2>1 DEF HandsAreNew
  <2>3. Listed' \subseteq issued'
    BY <1>0, <1>1 DEF HandsAreNew, LocalsFit
  <2>4. \A d, e \in Conn : New(d)' /\ New(e)' /\ conn'[e].sid = conn'[d].sid => e = d
    BY <2>1 DEF HandsAreNew
  <2>5. QED
    BY <1>1, <2>2, <2>3, <2>4 DEF HandsAreNew
\* A launch under an id that was never handed out.
<1>2. ASSUME NEW c \in Conn, NEW s \in Sid, NEW r \in Rid, NEW a, NEW p, Fresh(s), Spawn(r, s),
             issued' = issued \cup {s}, conn' = [conn EXCEPT ![c] = Stage(a, s, r, p)],
             UNCHANGED sessions
      PROVE  HandsAreNew'
  <2>1. conn'[c].sid = s /\ \A d \in Conn : d # c => conn'[d] = conn[d]
    BY <1>0, <1>2 DEF TypeOK, Stage
  <2>2. \A d \in Conn : New(d) => conn[d].sid \in issued
    BY <1>0 DEF LocalsFit
  <2>3. s \notin issued /\ Listed' = Listed
    BY <1>2 DEF Fresh, Listed
  <2>4. \A q \in Rid : procs'[q] = procs[q] \/ procs'[q].reader = "start"
    BY <1>0, <1>2 DEF Spawn, TypeOK
  <2>5. QED
    BY <1>2, <2>1, <2>2, <2>3, <2>4 DEF HandsAreNew
\* A step of a reader, a child or the scanner: no handler moves and no id is listed anew.
<1>3. ASSUME UNCHANGED <<conn, issued>>, Listed' \subseteq Listed,
             \A r \in Rid : procs'[r].reader \in {"mark", "announce", "done"} => procs'[r].child = "dead"
      PROVE  HandsAreNew'
  BY <1>3 DEF HandsAreNew
<1>4. ASSUME NEW c \in Conn, Create(c) \/ ShellSpawn(c), ~UNCHANGED procs PROVE HandsAreNew'
  <2>1. PICK s, r, a, p :
          /\ s \in Sid /\ r \in Rid
          /\ Fresh(s) /\ Spawn(r, s) /\ issued' = issued \cup {s}
          /\ conn' = [conn EXCEPT ![c] = Stage(a, s, r, p)]
    BY <1>4 DEF Create, ShellSpawn
  <2>2. UNCHANGED sessions
    BY <1>4 DEF Create, ShellSpawn
  <2>3. QED
    BY <1>2, <2>1, <2>2
<1>5. ASSUME NEW c \in Conn, Handle(c), ~(Create(c) \/ ShellSpawn(c)) PROVE HandsAreNew'
  <2>1. \A d \in Conn : d # c => conn'[d] = conn[d]
    BY <1>0, <1>5 DEF Handle, ShellCheck, Insert, RestartCheck, Relaunch, Register, Kill, KillOne,
       Announce, ThenAnnounce, TypeOK
  <2>2. ~New(c)'
    <3>1. CASE ShellCheck(c) \/ RestartCheck(c) \/ Relaunch(c) \/ Announce(c) \/ Insert(c) \/ Register(c)
      BY <1>0, <3>1 DEF ShellCheck, Insert, RestartCheck, Relaunch, Register, Announce, ThenAnnounce,
         Idle, Stage, TypeOK
    <3>2. CASE Kill(c)
      BY <1>0, <3>2 DEF Kill, TypeOK
    <3>3. CASE KillOne(c)
      <4>1. conn'[c].at = "kill"
        BY <1>0, <3>3 DEF KillOne, TypeOK, Handler
      <4>2. QED
        BY <4>1
    <3>4. QED
      BY <1>5, <3>1, <3>2, <3>3 DEF Handle
  <2>3. UNCHANGED issued
    BY <1>5 DEF Handle, ShellCheck, Insert, RestartCheck, Relaunch, Register, Kill, KillOne, Announce
  <2>4. Listed' \subseteq Listed \/ (New(c) /\ Listed' \subseteq Listed \cup {conn[c].sid})
    <3>1. CASE Insert(c)
      BY <1>0, <3>1 DEF Insert, Listed, TypeOK
    <3>2. CASE Register(c)
      BY <1>0, <3>2 DEF Register, StillListed, Listed, TypeOK
    <3>3. CASE Kill(c)
      BY <1>0, <3>3 DEF Kill, Without, Listed, TypeOK
    <3>4. CASE UNCHANGED sessions
      BY <3>4 DEF Listed
    <3>5. QED
      BY <1>5, <3>1, <3>2, <3>3, <3>4 DEF Handle, ShellCheck, RestartCheck, Relaunch, KillOne, Announce
  <2>5. \A r \in Rid : procs'[r].reader \in {"mark", "announce", "done"} => procs'[r].child = "dead"
    <3>1. CASE UNCHANGED procs
      BY <3>1 DEF HandsAreNew
    <3>2. CASE Relaunch(c)
      <4>1. CASE \E r \in Rid : Spawn(r, conn[c].sid)
        BY <1>0, <4>1 DEF Spawn, TypeOK, HandsAreNew
      <4>2. QED
        BY <3>1, <3>2, <4>1 DEF Relaunch
    <3>3. CASE KillOne(c)
      <4>1. \A r \in Rid : procs'[r] = procs[r] \/ procs'[r].child = "dead"
        BY <1>0, <3>3 DEF KillOne, KillChild, TypeOK, Proc
      <4>2. QED
        BY <4>1 DEF HandsAreNew
    <3>4. QED
      BY <1>5, <3>1, <3>2, <3>3 DEF Handle, ShellCheck, Insert, RestartCheck, Register, Kill, Announce
  <2>6. QED
    BY <1>1, <2>1, <2>2, <2>3, <2>4, <2>5
\* A launch that failed.
<1>6. ASSUME NEW c \in Conn, Create(c) \/ ShellSpawn(c), UNCHANGED procs PROVE HandsAreNew'
  <2>1. CASE conn' = [conn EXCEPT ![c] = Idle] /\ UNCHANGED <<issued, sessions>>
    <3>1. conn'[c].at = "idle" /\ \A d \in Conn : d # c => conn'[d] = conn[d]
      BY <1>0, <2>1 DEF TypeOK, Idle, Stage
    <3>2. Listed' = Listed
      BY <2>1 DEF Listed
    <3>3. \A r \in Rid : procs'[r].reader \in {"mark", "announce", "done"} => procs'[r].child = "dead"
      BY <1>6 DEF HandsAreNew
    <3>4. QED
      BY <1>1, <2>1, <3>1, <3>2, <3>3
  <2>2. CASE \E s \in Sid, r \in Rid : Spawn(r, s)
    BY <1>0, <1>6, <2>2 DEF Spawn, TypeOK
  <2>3. QED
    BY <1>6, <2>1, <2>2 DEF Create, ShellSpawn
<1>7. ASSUME NEW r \in Rid, Reader(r) \/ ChildExit(r) PROVE HandsAreNew'
  <2>1. UNCHANGED <<conn, issued>>
    BY <1>7 DEF Reader, ReaderOpen, ReaderEof, ReaderExited, MarkStopped, ReaderAnnounce, ChildExit
  <2>2. Listed' \subseteq Listed
    BY <1>0, <1>7 DEF Reader, ReaderOpen, ReaderEof, ReaderExited, MarkStopped, ReaderAnnounce, ChildExit,
       Listed, TypeOK
  <2>3. \A q \in Rid : procs'[q].reader \in {"mark", "announce", "done"} => procs'[q].child = "dead"
    BY <1>0, <1>7 DEF Reader, ReaderOpen, ReaderEof, ReaderExited, MarkStopped, ReaderAnnounce, ChildExit,
       Reaped, TypeOK, Proc, HandsAreNew
  <2>4. QED
    BY <1>3, <2>1, <2>2, <2>3
<1>8. ASSUME Scan \/ UNCHANGED vars PROVE HandsAreNew'
  <2>1. UNCHANGED <<conn, issued, procs>>
    BY <1>8 DEF Scan, ScanLook, ScanApply, ScanSend, vars
  <2>2. Listed' \subseteq Listed
    BY <1>8 DEF Scan, ScanLook, ScanApply, ScanSend, vars, HasRun, Listed
  <2>3. QED
    BY <1>3, <2>1, <2>2 DEF HandsAreNew
<1>9. QED
  BY <1>4, <1>5, <1>6, <1>7, <1>8 DEF Next, Handle

\* Who reaches a run is told by the table and by what the handlers hold.
LEMMA StillReached ==
  ASSUME TypeOK, NEW r \in Rid, Reached(r), ~Reached(r)'
  PROVE  \/ \E s \in Sid : sessions[s] # None /\ sessions[s].run = r /\ (sessions'[s] = None \/ sessions'[s].run # r)
         \/ \E c \in Conn : conn[c].run = r /\ conn'[c].run # r
         \/ \E c \in Conn : \E v \in conn[c].victims : v.run = r /\ v \notin conn'[c].victims
BY DEF Reached, Keepers, Holders, Killers, Listed

\* Every step but the three races keeps hold of a child that lives on.
LEMMA LossStep ==
  ASSUME IndInv, HandsAreNew, [Next]_vars, NEW r \in Rid, LetGo(r)
  PROVE  KilledMeanwhile(r) \/ RelaunchedTwice(r) \/ MarkedByAnother(r)
<1> DEFINE Race == KilledMeanwhile(r) \/ RelaunchedTwice(r) \/ MarkedByAnother(r)
           Off(s) == sessions[s] # None /\ sessions[s].run = r /\ (sessions'[s] = None \/ sessions'[s].run # r)
<1>0. TypeOK /\ LocalsFit /\ LaunchesFit /\ RunHasOneOwner
  BY DEF IndInv
<1>1. Reached(r) /\ ~Reached(r)' /\ procs'[r].child = "alive"
  BY DEF LetGo
<1>2. \/ \E s \in Sid : Off(s)
      \/ \E c \in Conn : conn[c].run = r /\ conn'[c].run # r
      \/ \E c \in Conn : \E v \in conn[c].victims : v.run = r /\ v \notin conn'[c].victims
  BY <1>0, <1>1, StillReached
<1>3. ~UNCHANGED <<sessions, conn>>
  BY <1>2
<1>4. ASSUME NEW c \in Conn, Create(c) \/ ShellCheck(c) \/ ShellSpawn(c) \/ RestartCheck(c) \/ Relaunch(c)
                             \/ Announce(c)
      PROVE  FALSE
  <2>1. conn[c].run = None /\ conn[c].victims = {} /\ UNCHANGED sessions
    BY <1>0, <1>4 DEF Create, ShellCheck, ShellSpawn, RestartCheck, Relaunch, Announce, LocalsFit
  <2>2. \A d \in Conn : d # c => conn'[d] = conn[d]
    BY <1>0, <1>4 DEF Create, ShellCheck, ShellSpawn, RestartCheck, Relaunch, Announce, TypeOK
  <2>3. QED
    BY <1>2, <2>1, <2>2, NoneAssumption
\* The insert of a new session: it is not listed, so nothing is replaced.
<1>5. ASSUME NEW c \in Conn, Insert(c) PROVE FALSE
  <2>1. conn[c].sid \in Sid /\ conn[c].sid \notin Listed /\ conn[c].victims = {}
    BY <1>0, <1>5 DEF Insert, LocalsFit, HandsAreNew
  <2>2. sessions'[conn[c].sid] = Launched(conn[c].run, conn[c].parent)
        /\ \A s \in Sid : s # conn[c].sid => sessions'[s] = sessions[s]
    BY <1>0, <1>5, <2>1 DEF Insert, TypeOK
  <2>3. \A d \in Conn : d # c => conn'[d] = conn[d]
    BY <1>0, <1>5 DEF Insert, ThenAnnounce, TypeOK
  <2>4. ~\E s \in Sid : Off(s)
    BY <2>1, <2>2 DEF Listed
  <2>5. conn[c].run = r
    BY <1>2, <2>1, <2>3, <2>4
  <2>6. sessions'[conn[c].sid].run = r /\ sessions'[conn[c].sid] \in Entry
    BY <1>0, <2>2, <2>5, LaunchedType DEF Launched, TypeOK, Handler
  <2>7. conn[c].sid \in Keepers(r)'
    BY <2>1, <2>6, EntryAssumption DEF Keepers, Listed
  <2>8. QED
    BY <1>1, <2>7 DEF Reached
\* A relaunch is registered: over another run, or for a session that has gone.
<1>6. ASSUME NEW c \in Conn, Register(c) PROVE Race
  <2> DEFINE s == conn[c].sid
  <2>1. conn[c].at = "register" /\ s \in Sid /\ conn[c].run \in Rid /\ conn[c].victims = {}
    BY <1>0, <1>6 DEF Register, LocalsFit
  <2>2. \A d \in Conn : d # c => conn'[d] = conn[d]
    BY <1>0, <1>6 DEF Register, ThenAnnounce, TypeOK
  <2>3. CASE s \notin Listed
    <3>1. UNCHANGED sessions
      BY <1>6, <2>3 DEF Register, StillListed
    <3>2. conn[c].run = r
      BY <1>2, <2>1, <2>2, <3>1
    <3>3. QED
      BY <2>1, <2>3, <3>2 DEF KilledMeanwhile
  <2>4. CASE s \in Listed
    <3>1. /\ sessions'[s] = Launched(conn[c].run, ParentOf(s))
          /\ \A t \in Sid : t # s => sessions'[t] = sessions[t]
      BY <1>0, <1>6, <2>1, <2>4 DEF Register, StillListed, TypeOK
    <3>2. CASE conn[c].run = r
      <4>1. ParentOf(s) \in Sid \cup {None}
        BY <1>0, <2>4 DEF ParentOf, TypeOK, Entry, Listed
      <4>2. sessions'[s].run = r /\ sessions'[s] \in Entry
        BY <3>1, <3>2, <4>1, LaunchedType DEF Launched
      <4>3. s \in Keepers(r)'
        BY <2>1, <4>2, EntryAssumption DEF Keepers, Listed
      <4>4. QED
        BY <1>1, <4>3 DEF Reached
    <3>3. CASE conn[c].run # r
      <4>1. \E t \in Sid : Off(t)
        BY <1>2, <2>1, <2>2, <3>3
      <4>2. sessions[s].run = r
        BY <3>1, <4>1
      <4>3. QED
        BY <2>1, <2>4, <3>3, <4>2 DEF RelaunchedTwice
    <3>4. QED
      BY <3>2, <3>3
  <2>5. QED
    BY <2>3, <2>4
\* Kill takes runs from the table into its own list.
<1>7. ASSUME NEW c \in Conn, Kill(c) PROVE FALSE
  <2>1. PICK s \in issued :
          /\ sessions' = Without(Doomed(s))
          /\ \E n : conn' = [conn EXCEPT ![c] = [at |-> "kill", sid |-> n, run |-> None, parent |-> None,
                                                victims |-> Taken(s)]]
    BY <1>7 DEF Kill, Taken
  <2>2. conn[c].run = None /\ conn[c].victims = {} /\ conn'[c].victims = Taken(s)
        /\ \A d \in Conn : d # c => conn'[d] = conn[d]
    BY <1>0, <1>7, <2>1 DEF Kill, LocalsFit, TypeOK
  <2>3. PICK t \in Sid : Off(t)
    BY <1>2, <2>2, NoneAssumption
  <2>4. t \in Doomed(s)
    BY <2>1, <2>3 DEF Without
  <2>5. [sid |-> t, run |-> r] \in conn'[c].victims
    BY <2>2, <2>3, <2>4 DEF Taken
  <2>6. c \in Killers(r)'
    <3>1. [sid |-> t, run |-> r].run = r
      OBVIOUS
    <3>2. QED
      BY <2>5, <3>1 DEF Killers
  <2>7. QED
    BY <1>1, <2>6 DEF Reached
\* The walk kills the child of what it strikes off its list.
<1>8. ASSUME NEW c \in Conn, KillOne(c) PROVE FALSE
  <2>1. PICK v \in conn[c].victims :
          /\ IF v.run = None THEN UNCHANGED procs
                             ELSE procs' = [procs EXCEPT ![v.run].child = "dead"]
          /\ \E n : conn' = [conn EXCEPT ![c].victims = conn[c].victims \ {v}, ![c].sid = n]
    BY <1>8 DEF KillOne, KillChild
  <2>2. UNCHANGED sessions
    BY <1>8 DEF KillOne
  <2>3. \A d \in Conn : /\ conn'[d].run = conn[d].run
                        /\ d # c => conn'[d].victims = conn[d].victims
                        /\ conn'[c].victims = conn[c].victims \ {v}
    BY <1>0, <2>1 DEF TypeOK, Handler
  <2>4. v.run = r
    BY <1>2, <2>2, <2>3
  <2>5. procs'[r].child = "dead"
    BY <1>0, <2>1, <2>4, NoneAssumption DEF TypeOK, Proc
  <2>6. QED
    BY <1>1, <2>5
\* A reader marks its own run only once its child is dead.
<1>9. ASSUME NEW q \in Rid, MarkStopped(q) PROVE Race
  <2>1. UNCHANGED conn /\ procs[q].reader = "mark"
    BY <1>9 DEF MarkStopped
  <2>2. PICK s \in Sid : Off(s)
    BY <1>2, <2>1
  <2>3. s = procs[q].sid
    BY <1>0, <1>9, <2>2 DEF MarkStopped, TypeOK
  <2>4. s \in Keepers(r)
    BY <2>2 DEF Keepers, Listed
  <2>5. procs[r].sid = s /\ Keepers(r) = {s}
    BY <1>0, <2>4 DEF RunHasOneOwner
  <2>6. CASE q = r
    <3>1. procs'[q].child = procs[q].child
      BY <1>0, <1>9 DEF MarkStopped, TypeOK, Proc
    <3>2. procs[q].child = "dead"
      BY <2>1 DEF HandsAreNew
    <3>3. QED
      BY <1>1, <2>6, <3>1, <3>2
  <2>7. CASE q # r
    BY <2>1, <2>3, <2>5, <2>7 DEF MarkedByAnother
  <2>8. QED
    BY <2>6, <2>7
<1>10. ASSUME ScanApply PROVE FALSE
  <2>1. UNCHANGED conn
    BY <1>10 DEF ScanApply
  <2>2. \A t \in Sid : sessions[t] # None => sessions'[t] # None /\ sessions'[t].run = sessions[t].run
    <3> SUFFICES ASSUME NEW t \in Sid, sessions[t] # None
                 PROVE  sessions'[t] # None /\ sessions'[t].run = sessions[t].run
      OBVIOUS
    <3>1. sessions[t] \in Entry
      BY <1>0 DEF TypeOK
    <3> DEFINE hit == {m \in scanner.moved : HasRun(m.sid)}
               what == CHOOSE m \in hit : m.sid = t
    <3>2. CASE \E m \in hit : m.sid = t
      <4>1. what \in scanner.moved
        BY <3>2
      <4>2. what.activity \in Reading
        BY <1>0, <4>1 DEF TypeOK, Moved
      <4>3. sessions'[t] = [sessions[t] EXCEPT !.activity = what.activity]
        BY <1>10, <3>2 DEF ScanApply
      <4>4. sessions'[t] \in Entry /\ sessions'[t].run = sessions[t].run
        BY <3>1, <4>2, <4>3 DEF Entry
      <4>5. QED
        BY <4>4, EntryAssumption
    <3>3. CASE ~ \E m \in hit : m.sid = t
      BY <1>10, <3>3 DEF ScanApply
    <3>4. QED
      BY <3>2, <3>3
  <2>3. QED
    BY <1>2, <2>1, <2>2
<1>11. ASSUME NEW q \in Rid, ReaderOpen(q) \/ ReaderEof(q) \/ ReaderExited(q) \/ ReaderAnnounce(q) \/ ChildExit(q)
       PROVE  FALSE
  BY <1>3, <1>11 DEF ReaderOpen, ReaderEof, ReaderExited, ReaderAnnounce, ChildExit
<1>12. ASSUME ScanLook \/ ScanSend \/ UNCHANGED vars PROVE FALSE
  BY <1>3, <1>12 DEF ScanLook, ScanSend, vars
<1>13. QED
  BY <1>4, <1>5, <1>6, <1>7, <1>8, <1>9, <1>10, <1>11, <1>12 DEF Next, Handle, Reader, Scan

\* A living child is lost in the three races of a restart only: to a Kill of the session
\* while the relaunch was under way, to a second relaunch registered over it, or to the end
\* of another run of the session. Every other step of every handler, reader and scan keeps it
\* in the table or in the hands of whoever will register or kill it.
THEOREM LossesAreRaces == Spec => OnlyRacesLose
<1>1. Init => HandsAreNew
  BY NoneAssumption DEF Init, RestoredTable, HandsAreNew, Listed, Idle, Stage
<1>2. IndInv /\ HandsAreNew /\ [Next]_vars => HandsAreNew'
  BY HandsStep
<1>3. IndInv /\ HandsAreNew /\ [Next]_vars =>
        [\A r \in Rid : LetGo(r) => KilledMeanwhile(r) \/ RelaunchedTwice(r) \/ MarkedByAnother(r)]_vars
  BY LossStep
<1>4. QED
  BY <1>1, <1>2, <1>3, Inductive, PTL DEF Spec, OnlyRacesLose
================================================================================
