------------------------------ MODULE ClientProofs ------------------------------
(***************************************************************************)
(* The safety of the two clients: of the macOS link, alone and with the    *)
(* processes and daemons it starts, and of the terminal application with   *)
(* its tree.                                                               *)
(*                                                                         *)
(* The link, for any number of processes and any bound on the delay, and   *)
(* the daemons that processes start beside one another.  The link keeps    *)
(* its promises whatever daemons and other processes do, and they theirs   *)
(* whatever links do.                                                      *)
(*                                                                         *)
(* The terminal application, for any number of machines, sessions and      *)
(* folders, any filter and any folds.  What the tree shows is proved       *)
(* first, one lemma for each definition of SidebarTree in their order, the *)
(* two recursive ones by induction on the segments and on the rows that    *)
(* are left; then what every event does to the rows, the panes and the     *)
(* list.                                                                   *)
(***************************************************************************)
EXTENDS LinkToDaemon, TerminalApp, SequenceTheorems, FunctionTheorems, FiniteSetTheorems,
        WellFoundedInduction, TLAPS

(***************************************************************************)
(* The macOS link.                                                         *)
(***************************************************************************)

\* connected says whether the link has a process, and a stopped link has none.
Carried ==
  /\ connected <=> proc # NoProc
  /\ stopping => proc = NoProc

LinkInv == LinkTypeOK /\ Carried /\ OneDialer /\ NoStray /\ ToldTheTruth

\* A doubled delay is again one that a retry may have.
LEMMA DelayBound ==
  ASSUME NEW n \in 1..MaxDelay PROVE Doubled(n) \in 1..MaxDelay
BY LinkAssumption DEF Doubled

\* Letting a process go changes nothing about the processes but that it was told to end.
LEMMA LetGoType ==
  ASSUME LinkTypeOK PROVE LetGo(procs) \in [ProcId -> Proc]
BY DEF LinkTypeOK, LetGo, Proc

\* A process that starts is one more of its kind.
LEMMA StartedType ==
  ASSUME NEW ps \in [ProcId -> Proc], NEW p \in ProcId PROVE Started(ps, p) \in [ProcId -> Proc]
BY DEF Started, Proc

\* The link begins with its first attempt queued and nothing started.
LEMMA LinkStarts == LinkInit => LinkInv
<1> SUFFICES ASSUME LinkInit PROVE LinkInv
  OBVIOUS
<1>1. NotStarted \in Proc /\ \A p \in ProcId : procs[p] = NotStarted
  BY DEF LinkInit, NotStarted, Proc
<1>2. procs \in [ProcId -> Proc]
  BY <1>1 DEF LinkInit
<1>3. LinkTypeOK
  <2>1. proc \in ProcId \cup {NoProc} /\ told \in {"none", "up", "down"}
    BY DEF LinkInit
  <2>2. backoff \in 1..MaxDelay /\ timers \in 0..2
    BY LinkAssumption DEF LinkInit
  <2>3. connected \in BOOLEAN /\ stopping \in BOOLEAN
    BY DEF LinkInit
  <2> QED BY <1>2, <2>1, <2>2, <2>3 DEF LinkTypeOK
<1>4. NoStray
  BY <1>1 DEF NoStray, NotStarted
<1> QED
  BY <1>3, <1>4 DEF LinkInit, LinkInv, Carried, OneDialer, ToldTheTruth

\* A retry that is scheduled while no attempt is to come leaves one, unless the link has
\* been stopped.
LEMMA RetryStep ==
  ASSUME LinkTypeOK, NEW left \in Nat, ScheduleRetry(left)
  PROVE  /\ timers' = IF stopping THEN left ELSE left + 1
         /\ backoff' \in 1..MaxDelay
<1>1. backoff \in 1..MaxDelay
  BY DEF LinkTypeOK
<1>2. Doubled(backoff) \in 1..MaxDelay /\ backoff \in 0..MaxDelay
  BY <1>1, DelayBound, LinkAssumption
<1>3. CASE stopping
  BY <1>1, <1>3 DEF ScheduleRetry
<1>4. CASE ~stopping
  BY <1>1, <1>2, <1>4 DEF ScheduleRetry
<1> QED BY <1>3, <1>4

\* A link without a process and without an attempt to come is dialled.
LEMMA DialStep ==
  ASSUME LinkTypeOK, ~stopping, UNCHANGED stopping,
         NEW ps \in [ProcId -> Proc], Dial(ps, 0),
         \A p \in ProcId : ps[p].os = "running" => ps[p].ended
  PROVE  LinkInv'
<1>1. CASE \E p \in ProcId :
             /\ proc' = p
             /\ procs' = Started(ps, p)
             /\ connected' = TRUE /\ backoff' = 1 /\ told' = "up"
             /\ timers' = 0
  <2>1. PICK p \in ProcId :
             /\ proc' = p
             /\ procs' = Started(ps, p)
             /\ connected' = TRUE /\ backoff' = 1 /\ told' = "up"
             /\ timers' = 0
    BY <1>1
  <2>2. LinkTypeOK'
    BY <2>1, StartedType, LinkAssumption DEF LinkTypeOK
  <2>3. Carried' /\ OneDialer' /\ ToldTheTruth'
    BY <2>1, LinkAssumption DEF Carried, OneDialer, ToldTheTruth, ProcId
  <2>4. NoStray'
    BY <2>1 DEF NoStray, Started
  <2> QED BY <2>2, <2>3, <2>4 DEF LinkInv
<1>2. CASE /\ proc' = NoProc /\ procs' = ps
           /\ connected' = FALSE /\ told' = "down"
           /\ ScheduleRetry(0)
  <2>1. timers' = 1 /\ backoff' \in 1..MaxDelay
    BY <1>2, RetryStep
  <2>2. LinkTypeOK'
    <3>1. proc' \in ProcId \cup {NoProc} /\ told' \in {"none", "up", "down"} /\ procs' \in [ProcId -> Proc]
      BY <1>2
    <3>2. connected' \in BOOLEAN
      BY <1>2
    <3>3. stopping' \in BOOLEAN
      BY Zenon DEF LinkTypeOK
    <3>4. timers' \in 0..2
      BY <2>1
    <3> QED BY <2>1, <3>1, <3>2, <3>3, <3>4 DEF LinkTypeOK
  <2>3. NoStray'
    BY <1>2 DEF NoStray
  <2> QED BY <1>2, <2>1, <2>2, <2>3 DEF LinkInv, Carried, OneDialer, ToldTheTruth
<1> QED BY <1>1, <1>2 DEF Dial

\* The teardown of the live process, which leaves one attempt to come.
LEMMA TeardownStep ==
  ASSUME LinkInv, proc # NoProc, UNCHANGED stopping,
         NEW ps \in [ProcId -> Proc], TeardownOf(ps),
         \A p \in ProcId : ps[p].os = procs[p].os /\ ps[p].ended = procs[p].ended
  PROVE  LinkInv'
<1> DEFINE gone == [ps EXCEPT ![proc].ended = TRUE]
<1>1. procs' = gone /\ gone \in [ProcId -> Proc]
  <2>1. procs' = gone
    BY DEF TeardownOf, LetGo
  <2>2. gone \in [ProcId -> Proc]
    BY DEF Proc
  <2> QED BY <2>1, <2>2
<1>2. \A p \in ProcId : procs'[p].os = "running" => procs'[p].ended
  BY <1>1 DEF LinkInv, NoStray, LinkTypeOK
<1>3. timers \in 0..2 /\ (~stopping => timers = 0)
  BY DEF LinkInv, OneDialer, LinkTypeOK
<1>4. /\ timers' = IF stopping THEN timers ELSE timers + 1
      /\ backoff' \in 1..MaxDelay
  BY <1>3, RetryStep DEF TeardownOf, LinkInv
<1>5. /\ proc' = NoProc /\ connected' = FALSE /\ told' = "down"
  BY DEF TeardownOf, ToldDown, LinkInv, Carried
<1>6. LinkTypeOK'
  <2>1. proc' \in ProcId \cup {NoProc} /\ told' \in {"none", "up", "down"} /\ procs' \in [ProcId -> Proc]
    BY <1>1, <1>5
  <2>2. connected' \in BOOLEAN /\ stopping' \in BOOLEAN
    BY <1>5 DEF LinkInv, LinkTypeOK
  <2>3. timers' \in 0..2
    BY <1>3, <1>4
  <2> QED BY <1>4, <2>1, <2>2, <2>3 DEF LinkTypeOK
<1> QED
  BY <1>2, <1>3, <1>4, <1>5, <1>6 DEF LinkInv, Carried, OneDialer, NoStray, ToldTheTruth

\* What a step that touches neither the process nor the timers must keep.
LEMMA QuietStep ==
  ASSUME LinkInv, UNCHANGED <<proc, connected, stopping, backoff, timers, told>>,
         procs' \in [ProcId -> Proc],
         \A p \in ProcId : procs'[p].os = "running" => procs[p].os = "running" /\ procs'[p].ended = procs[p].ended
  PROVE  LinkInv'
<1>1. LinkTypeOK' BY DEF LinkInv, LinkTypeOK
<1>2. NoStray' BY DEF LinkInv, NoStray
<1>3. Carried' /\ OneDialer' /\ ToldTheTruth' BY DEF LinkInv, Carried, OneDialer, ToldTheTruth
<1> QED BY <1>1, <1>2, <1>3 DEF LinkInv

\* Every block of the queue keeps the invariant.
LEMMA LinkSteps == LinkInv /\ [LinkNext]_linkVars => LinkInv'
<1> SUFFICES ASSUME LinkInv, [LinkNext]_linkVars PROVE LinkInv'
  OBVIOUS
<1> USE DEF LinkInv
<1>1. ASSUME Connect PROVE LinkInv'
  <2>1. CASE stopping
    <3>1. LinkTypeOK' BY <1>1, <2>1 DEF Connect, LinkTypeOK
    <3> QED BY <1>1, <2>1, <3>1 DEF Connect, Carried, OneDialer, NoStray, ToldTheTruth
  <2>2. CASE ~stopping
    <3>1. proc = NoProc /\ timers = 1
      BY <1>1, <2>2 DEF Connect, OneDialer, LinkTypeOK
    <3>2. Dial(procs, 0) /\ UNCHANGED stopping
      BY <1>1, <2>2, <3>1 DEF Connect
    <3>3. \A p \in ProcId : procs[p].os = "running" => procs[p].ended
      BY <3>1, LinkAssumption DEF NoStray, ProcId
    <3> QED BY <2>2, <3>2, <3>3, DialStep DEF LinkTypeOK
  <2> QED BY <2>1, <2>2
<1>2. ASSUME Reconnect PROVE LinkInv'
  <2>1. proc # NoProc /\ ~stopping /\ timers = 0
    BY <1>2 DEF Reconnect, MayRedial, Carried, OneDialer, LinkTypeOK
  <2>2. LetGo(procs) \in [ProcId -> Proc]
    BY LetGoType
  <2>3. \A p \in ProcId : LetGo(procs)[p].os = "running" => LetGo(procs)[p].ended
    BY <2>1 DEF LetGo, NoStray, LinkTypeOK
  <2>4. Dial(LetGo(procs), 0) /\ UNCHANGED stopping
    BY <1>2, <2>1 DEF Reconnect
  <2> QED BY <2>1, <2>2, <2>3, <2>4, DialStep
<1>3. ASSUME Stop PROVE LinkInv'
  <2>1. procs' \in [ProcId -> Proc]
    BY <1>3, LetGoType DEF Stop
  <2>2. \A p \in ProcId : procs'[p].os = "running" => procs'[p].ended
    <3>1. CASE proc = NoProc
      BY <1>3, <3>1, LinkAssumption DEF Stop, LetGo, NoStray, ProcId
    <3>2. CASE proc # NoProc
      <4>1. procs' = [procs EXCEPT ![proc].ended = TRUE]
        BY <1>3, <3>2 DEF Stop, LetGo
      <4> QED BY <4>1 DEF NoStray, LinkTypeOK
    <3> QED BY <3>1, <3>2
  <2>3. LinkTypeOK'
    BY <1>3, <2>1 DEF Stop, LinkTypeOK
  <2> QED BY <1>3, <2>2, <2>3 DEF Stop, Carried, OneDialer, NoStray, ToldTheTruth
<1>4. ASSUME SendFails PROVE LinkInv'
  BY <1>4, TeardownStep DEF SendFails, Teardown, Carried, LinkTypeOK
<1>5. ASSUME NEW p \in ProcId, LineTooLong(p) PROVE LinkInv'
  <2>1. proc # NoProc
    BY <1>5, LinkAssumption DEF LineTooLong, Live, ProcId
  <2> QED BY <1>5, <2>1, TeardownStep DEF LineTooLong, Teardown, LinkTypeOK
<1>6. ASSUME NEW p \in ProcId, ChannelDone(p) PROVE LinkInv'
  <2>1. procs' \in [ProcId -> Proc]
    <3>1. Lingers(p) \in BOOLEAN
      BY Zenon DEF Lingers, Live
    <3> QED BY <1>6, <3>1 DEF ChannelDone, LinkTypeOK, Proc
  <2>2. \A q \in ProcId : procs'[q].os = procs[q].os /\ procs'[q].ended = procs[q].ended
    BY <1>6 DEF ChannelDone, LinkTypeOK
  <2> QED BY <1>6, <2>1, <2>2, QuietStep DEF ChannelDone, LinkTypeOK
<1>7. ASSUME NEW p \in ProcId, LateTeardown(p) PROVE LinkInv'
  <2> DEFINE calm == [procs EXCEPT ![p].late = FALSE]
  <2>1. calm \in [ProcId -> Proc]
    BY DEF LinkTypeOK, Proc
  <2>2. \A q \in ProcId : calm[q].os = procs[q].os /\ calm[q].ended = procs[q].ended
    BY DEF LinkTypeOK
  <2>3. CASE Live(p)
    <3>1. proc # NoProc
      BY <2>3, LinkAssumption DEF Live, ProcId
    <3>2. TeardownOf(calm) /\ UNCHANGED stopping
      BY <1>7, <2>3 DEF LateTeardown
    <3> HIDE DEF calm
    <3> QED BY <2>1, <2>2, <3>1, <3>2, TeardownStep
  <2>4. CASE ~Live(p)
    BY <1>7, <2>1, <2>2, <2>4, QuietStep DEF LateTeardown, LinkTypeOK
  <2> QED BY <2>3, <2>4
<1>8. ASSUME NEW p \in ProcId, Exit(p) PROVE LinkInv'
  <2>1. procs' \in [ProcId -> Proc]
    BY <1>8 DEF Exit, LinkTypeOK, Proc
  <2>2. \A q \in ProcId : procs'[q].os = "running" => procs[q].os = "running" /\ procs'[q].ended = procs[q].ended
    BY <1>8 DEF Exit, LinkTypeOK
  <2> QED BY <1>8, <2>1, <2>2, QuietStep DEF Exit, LinkTypeOK
<1>9. ASSUME UNCHANGED linkVars PROVE LinkInv'
  BY <1>9 DEF linkVars, LinkTypeOK, Carried, OneDialer, NoStray, ToldTheTruth
<1> QED
  BY <1>1, <1>2, <1>3, <1>4, <1>5, <1>6, <1>7, <1>8, <1>9 DEF LinkNext

\* The link keeps its types, knows whether it has a process, and keeps the three promises
\* below, which lean on each other.
THEOREM LinkInductive == LinkSpec => []LinkInv
<1>1. LinkInit => LinkInv BY LinkStarts
<1>2. LinkInv /\ [LinkNext]_linkVars => LinkInv' BY LinkSteps
<1> QED BY <1>1, <1>2, PTL DEF LinkSpec

\* Until it is stopped the link has one process or one attempt to come: teardowns, redials,
\* timers and late callbacks neither end the chain of retries nor start a second one.
THEOREM OneDialerAlways == LinkSpec => []OneDialer
<1>1. LinkInv => OneDialer BY DEF LinkInv
<1> QED BY <1>1, LinkInductive, PTL

\* No process is left running that the link has not told to end.
THEOREM NoStrayEver == LinkSpec => []NoStray
<1>1. LinkInv => NoStray BY DEF LinkInv
<1> QED BY <1>1, LinkInductive, PTL

\* What the app last heard of the link is so.
THEOREM AlwaysToldTheTruth == LinkSpec => []ToldTheTruth
<1>1. LinkInv => ToldTheTruth BY DEF LinkInv
<1> QED BY <1>1, LinkInductive, PTL

\* Whatever the link takes for its process still has its end to report.
Watched == \A p \in ProcId : proc = p => procs[p].channel = "open" \/ procs[p].late

\* A link that is let go has no process, and one that is dialled a process whose channel is
\* open.
LEMMA DialWatched ==
  ASSUME NEW ps \in [ProcId -> Proc], NEW left, Dial(ps, left) PROVE Watched'
<1>1. CASE proc' = NoProc
  BY <1>1, LinkAssumption DEF Watched, ProcId
<1>2. CASE \E p \in ProcId : proc' = p /\ procs' = Started(ps, p)
  BY <1>2 DEF Watched, Started
<1> QED BY <1>1, <1>2 DEF Dial

\* No block takes the last report of the link's process away, but the one that takes the
\* process too.
LEMMA WatchedStep == LinkInv /\ Watched /\ [LinkNext]_linkVars => Watched'
<1> SUFFICES ASSUME LinkInv, Watched, [LinkNext]_linkVars PROVE Watched'
  OBVIOUS
<1>1. procs \in [ProcId -> Proc] /\ LetGo(procs) \in [ProcId -> Proc]
  BY LetGoType DEF LinkInv, LinkTypeOK
<1>2. ASSUME proc' = NoProc PROVE Watched'
  BY <1>2, LinkAssumption DEF Watched, ProcId
<1>3. CASE Connect
  BY <1>1, <1>3, DialWatched DEF Connect, Watched
<1>4. CASE Reconnect
  BY <1>1, <1>4, DialWatched DEF Reconnect
<1>5. CASE Stop \/ SendFails
  BY <1>2, <1>5 DEF Stop, SendFails, Teardown, TeardownOf
<1>6. ASSUME NEW p \in ProcId, LineTooLong(p) PROVE Watched'
  BY <1>2, <1>6 DEF LineTooLong, Teardown, TeardownOf
<1>7. ASSUME NEW p \in ProcId, ChannelDone(p) PROVE Watched'
  BY <1>1, <1>7 DEF ChannelDone, Lingers, Live, Watched, Proc
<1>8. ASSUME NEW p \in ProcId, LateTeardown(p) PROVE Watched'
  <2>1. CASE Live(p)
    BY <1>2, <1>8, <2>1 DEF LateTeardown, TeardownOf
  <2>2. CASE ~Live(p)
    BY <1>1, <1>8, <2>2 DEF LateTeardown, Live, Watched
  <2> QED BY <2>1, <2>2
<1>9. ASSUME NEW p \in ProcId, Exit(p) PROVE Watched'
  BY <1>1, <1>9 DEF Exit, Watched
<1>10. CASE UNCHANGED linkVars
  BY <1>10 DEF linkVars, Watched
<1> QED
  BY <1>3, <1>4, <1>5, <1>6, <1>7, <1>8, <1>9, <1>10 DEF LinkNext

\* The death of the link's process is never lost: a callback or a teardown that sees it is
\* always still to come.
THEOREM DeathIsAlwaysSeen == LinkSpec => []DeathIsSeen
<1>1. LinkInit => Watched
  BY LinkAssumption DEF LinkInit, Watched, ProcId
<1>2. Watched => DeathIsSeen
  BY DEF Watched, DeathIsSeen
<1> QED BY <1>1, <1>2, WatchedStep, LinkInductive, PTL DEF LinkSpec

--------------------------------------------------------------------------------
(***************************************************************************)
(* The link's processes are real ones.                                     *)
(***************************************************************************)

\* The link that starts real processes begins as the one of VMLink does.
LEMMA LifeStarts == LifeInit => LinkInit
BY DEF LifeInit

\* Each of its steps is a step of the link or none of its business.
LEMMA LifeSteps == [LifeNext]_lifeVars => [LinkNext]_linkVars
<1> SUFFICES ASSUME [LifeNext]_lifeVars PROVE [LinkNext]_linkVars
  OBVIOUS
<1>1. CASE Links
  BY <1>1 DEF Links, LinkNext
<1>2. ASSUME NEW p \in ProcId, Hears(p) PROVE [LinkNext]_linkVars
  BY <1>2 DEF Hears, LinkNext
<1>3. ASSUME NEW p \in ProcId, Dead(p) PROVE [LinkNext]_linkVars
  BY <1>3 DEF Dead, LinkNext
<1>4. CASE UNCHANGED linkVars
  BY <1>4
<1>5. CASE UNCHANGED lifeVars
  BY <1>5 DEF lifeVars
<1> QED BY <1>1, <1>2, <1>3, <1>4, <1>5 DEF LifeNext

\* The composition implements the link's own specification: VMLink's blocks, on which its
\* promises were proved, are all a link ever does.
THEOREM LifeImplementsLink == LifeSpec => LinkSpec
BY LifeStarts, LifeSteps, PTL DEF LifeSpec, LinkSpec

\* So the link's promises hold when its processes are real ones, and daemons come and go.
THEOREM LifeKeepsLink == LifeSpec => [](OneDialer /\ NoStray /\ ToldTheTruth /\ DeathIsSeen)
BY LifeImplementsLink, OneDialerAlways, NoStrayEver, AlwaysToldTheTruth, DeathIsAlwaysSeen, PTL

--------------------------------------------------------------------------------
(***************************************************************************)
(* The daemons and the processes that look for one, whatever link has      *)
(* started those.                                                          *)
(***************************************************************************)
StartNext ==
  \/ Serves \/ Proxies
  \/ \E d \in Daemon : Dies(d) \/ Boot(d)
  \/ \E c \in Client : Stdio(c) \/ Ends(c)

StartSpec == StartInit /\ [][StartNext]_startVars

\* A step of the composition is a step of the daemons and their clients, or none of theirs.
LEMMA LifeStartSteps == [LifeNext]_lifeVars => [StartNext]_startVars
<1> SUFFICES ASSUME [LifeNext]_lifeVars PROVE [StartNext]_startVars
  OBVIOUS
<1>1. CASE Machine
  BY <1>1, ClientsAreProcesses DEF Machine, Runs, StartNext
<1>2. ASSUME NEW p \in ProcId, Dead(p) PROVE [StartNext]_startVars
  BY <1>2, ClientsAreProcesses DEF Dead, StartNext
<1>3. CASE UNCHANGED startVars
  BY <1>3
<1>4. CASE UNCHANGED lifeVars
  BY <1>4 DEF lifeVars
<1> QED BY <1>1, <1>2, <1>3, <1>4 DEF LifeNext

\* The composition implements the daemons' own specification as well.
THEOREM LifeImplementsStart == LifeSpec => StartSpec
<1>1. LifeInit => StartInit
  BY DEF LifeInit
<1> QED BY <1>1, LifeStartSteps, PTL DEF LifeSpec, StartSpec

\* A daemon that starts alone is the only one that starts; while one serves that did, the
\* socket is its own and whoever starts has yet to find that out.
LoneStart ==
  \A d, x \in Daemon :
    d \in Starting /\ ~daemon[d].overlapped /\ x \in Starting => x = d
LoneServer ==
  \A d \in Serving : ~daemon[d].overlapped =>
    sock = d /\ \A x \in Starting : daemon[x].at = "probe"

StartInv == StartTypeOK /\ LoneStart /\ LoneServer

\* A new or an inherited state directory is a start.
LEMMA StartBegins == StartInit => StartInv
<1> SUFFICES ASSUME StartInit PROVE StartInv
  OBVIOUS
<1>1. Starting = {} /\ Serving = {}
  BY DEF StartInit, Starting, Serving, Unborn
<1>2. StartTypeOK
  BY DEF StartInit, StartTypeOK, Unborn, Env
<1> QED BY <1>1, <1>2 DEF StartInv, LoneStart, LoneServer

\* The variables keep their types.
LEMMA StartTypeStep == StartTypeOK /\ [StartNext]_startVars => StartTypeOK'
<1> SUFFICES ASSUME StartTypeOK, [StartNext]_startVars PROVE StartTypeOK'
  OBVIOUS
<1> USE DEF StartTypeOK
<1>0. ASSUME NEW d \in Daemon, NEW env \in Env, Begins(d, env), UNCHANGED <<sock, agentSock, upstream>>,
             client' \in [Client -> [at : {"new", "unlink", "symlink", "connect", "poll", "in", "gone"}, env : Env]]
      PROVE  StartTypeOK'
  BY <1>0 DEF Begins, Unborn
<1>1. ASSUME NEW d \in Daemon, Probe(d) \/ RemoveSock(d) \/ Bind(d) PROVE StartTypeOK'
  <2>1. Gone \in [at : {"gone"}, env : Env, proxy : {"none"}, overlapped : BOOLEAN]
    BY DEF Gone, Unborn, Env
  <2>2. CASE Probe(d)
    BY <2>1, <2>2 DEF Probe, Passes
  <2>3. CASE RemoveSock(d)
    BY <2>1, <2>3 DEF RemoveSock, Passes
  <2>4. CASE Bind(d)
    BY <2>1, <2>4 DEF Bind, Passes
  <2> QED BY <1>1, <2>2, <2>3, <2>4
<1>2. ASSUME NEW d \in Daemon, ProxyRemoves(d) \/ ProxyBinds(d) PROVE StartTypeOK'
  BY <1>2 DEF ProxyRemoves, ProxyBinds
<1>3. ASSUME NEW d \in Daemon, Dies(d) PROVE StartTypeOK'
  BY <1>3 DEF Dies, Gone, Unborn, Env
<1>4. ASSUME NEW d \in Daemon, Boot(d) PROVE StartTypeOK'
  BY <1>4, <1>0 DEF Boot, Env
<1>5. ASSUME NEW c \in Client, ConnectLocal(c) PROVE StartTypeOK'
  <2>1. client' \in [Client -> [at : {"new", "unlink", "symlink", "connect", "poll", "in", "gone"}, env : Env]]
    BY <1>5 DEF ConnectLocal, Settles, Env
  <2>2. client[c].env \in Env
    OBVIOUS
  <2> QED BY <1>5, <2>1, <2>2, <1>0 DEF ConnectLocal
<1>6. ASSUME NEW c \in Client, Arrives(c) PROVE StartTypeOK'
  BY <1>6 DEF Arrives
<1>7. ASSUME NEW c \in Client, Unlink(c) PROVE StartTypeOK'
  BY <1>7 DEF Unlink, Goes
<1>8. ASSUME NEW c \in Client, Symlink(c) PROVE StartTypeOK'
  BY <1>8 DEF Symlink, Goes, Env
<1>9. ASSUME NEW c \in Client, Poll(c) \/ Ends(c) PROVE StartTypeOK'
  BY <1>9 DEF Poll, Ends, Settles, Env
<1>10. CASE UNCHANGED startVars
  BY <1>10 DEF startVars
<1> QED
  BY <1>1, <1>2, <1>3, <1>4, <1>5, <1>6, <1>7, <1>8, <1>9, <1>10 DEF StartNext, Serves, Proxies, Stdio

\* A start changes who is starting, and marks all of them if they are more than one.
LEMMA BeginsAlone ==
  ASSUME StartInv, NEW d \in Daemon, NEW env \in Env, Begins(d, env), UNCHANGED sock
  PROVE  LoneStart' /\ LoneServer'
<1>1. /\ daemon'[d].at = "probe" /\ daemon'[d].overlapped = (Starting # {})
      /\ \A x \in Daemon \ {d} :
           /\ daemon'[x].at = daemon[x].at
           /\ daemon'[x].overlapped = (daemon[x].overlapped \/ x \in Starting)
  BY DEF Begins, StartInv, StartTypeOK, Starting, Unborn
<1>2. Starting' = Starting \cup {d} /\ Serving' = Serving /\ d \notin Serving
  BY <1>1 DEF Begins, Starting, Serving
<1>3. LoneStart'
  BY <1>1, <1>2 DEF LoneStart
<1>4. LoneServer'
  BY <1>1, <1>2 DEF LoneServer, StartInv, Starting, Serving
<1> QED BY <1>3, <1>4

\* Nothing about the daemons' places changes.
LEMMA StartFrame ==
  ASSUME StartInv, UNCHANGED sock,
         \A x \in Daemon : daemon'[x].at = daemon[x].at /\ daemon'[x].overlapped = daemon[x].overlapped
  PROVE  LoneStart' /\ LoneServer'
BY DEF StartInv, LoneStart, LoneServer, Starting, Serving

LEMMA LoneStep == StartInv /\ [StartNext]_startVars => LoneStart' /\ LoneServer'
<1> SUFFICES ASSUME StartInv, [StartNext]_startVars PROVE LoneStart' /\ LoneServer'
  OBVIOUS
<1>0. daemon \in [Daemon -> [at : {"unborn", "probe", "remove", "bind", "serving", "gone"},
                             env : Env, proxy : {"none", "remove", "bind"}, overlapped : BOOLEAN]]
  BY DEF StartInv, StartTypeOK
<1>1. ASSUME NEW d \in Daemon, Probe(d) PROVE LoneStart' /\ LoneServer'
  <2>1. /\ daemon[d].at = "probe" /\ UNCHANGED sock
        /\ daemon'[d].at \in {"bind", "remove", "gone"}
        /\ Answers => daemon'[d].at \in {"bind", "gone"}
        /\ sock # NoFile /\ Answers => daemon'[d].at = "gone"
        /\ daemon'[d].at # "gone" => daemon'[d].overlapped = daemon[d].overlapped
        /\ \A x \in Daemon \ {d} : daemon'[x] = daemon[x]
    BY <1>0, <1>1 DEF Probe, Passes, Gone, Unborn
  <2>2. Serving' = Serving /\ Starting' \subseteq Starting /\ d \in Starting
    BY <2>1 DEF Serving, Starting
  <2>3. LoneStart'
    BY <2>1, <2>2 DEF LoneStart, StartInv, Starting
  <2>4. ASSUME NEW e \in Serving, ~daemon[e].overlapped PROVE daemon'[d].at = "gone"
    BY <2>1, <2>4, DaemonStartAssumption DEF StartInv, LoneServer, Answers, Serving, Daemon
  <2>5. LoneServer'
    BY <2>1, <2>2, <2>4 DEF LoneServer, StartInv, Starting, Serving
  <2> QED BY <2>3, <2>5
<1>2. ASSUME NEW d \in Daemon, RemoveSock(d) PROVE LoneStart' /\ LoneServer'
  <2>1. /\ daemon[d].at = "remove"
        /\ daemon'[d].at \in {"bind", "gone"}
        /\ daemon'[d].at # "gone" => daemon'[d].overlapped = daemon[d].overlapped
        /\ \A x \in Daemon \ {d} : daemon'[x] = daemon[x]
    BY <1>0, <1>2 DEF RemoveSock, Passes, Gone, Unborn
  <2>2. Serving' = Serving /\ Starting' \subseteq Starting /\ d \in Starting
    BY <2>1 DEF Serving, Starting
  <2>3. LoneStart'
    BY <2>1, <2>2 DEF LoneStart, StartInv, Starting
  <2>4. \A e \in Serving : daemon[e].overlapped
    BY <2>1, <2>2 DEF StartInv, LoneServer
  <2>5. LoneServer'
    BY <2>1, <2>2, <2>4 DEF LoneServer, Serving
  <2> QED BY <2>3, <2>5
<1>3. ASSUME NEW d \in Daemon, Bind(d) PROVE LoneStart' /\ LoneServer'
  <2>1. CASE sock = NoFile
    <3>1. /\ daemon[d].at = "bind" /\ sock' = d /\ daemon'[d].at = "serving"
          /\ daemon'[d].overlapped = daemon[d].overlapped
          /\ \A x \in Daemon \ {d} : daemon'[x] = daemon[x]
      BY <1>0, <1>3, <2>1 DEF Bind
    <3>2. Serving' = Serving \cup {d} /\ Starting' = Starting \ {d} /\ d \in Starting
      BY <3>1 DEF Serving, Starting
    <3>3. LoneStart'
      BY <3>1, <3>2 DEF LoneStart, StartInv, Starting
    <3>4. \A e \in Serving : daemon[e].overlapped
      BY <2>1, DaemonStartAssumption DEF StartInv, LoneServer, Serving, Daemon
    <3>5. ~daemon[d].overlapped => Starting' = {}
      BY <3>2 DEF StartInv, LoneStart, Starting
    <3>6. LoneServer'
      BY <3>1, <3>2, <3>4, <3>5 DEF LoneServer, Serving
    <3> QED BY <3>3, <3>6
  <2>2. CASE sock # NoFile
    <3>1. /\ daemon[d].at = "bind" /\ UNCHANGED sock /\ daemon'[d].at = "gone"
          /\ \A x \in Daemon \ {d} : daemon'[x] = daemon[x]
      BY <1>0, <1>3, <2>2 DEF Bind, Passes, Gone, Unborn
    <3> QED BY <3>1 DEF StartInv, LoneStart, LoneServer, Starting, Serving
  <2> QED BY <2>1, <2>2
<1>4. ASSUME NEW d \in Daemon, ProxyRemoves(d) \/ ProxyBinds(d) PROVE LoneStart' /\ LoneServer'
  <2>1. /\ UNCHANGED sock
        /\ \A x \in Daemon : daemon'[x].at = daemon[x].at /\ daemon'[x].overlapped = daemon[x].overlapped
    BY <1>0, <1>4 DEF ProxyRemoves, ProxyBinds
  <2> QED BY <2>1, StartFrame
<1>5. ASSUME NEW d \in Daemon, Dies(d) PROVE LoneStart' /\ LoneServer'
  <2>1. /\ daemon'[d].at = "gone" /\ \A x \in Daemon \ {d} : daemon'[x] = daemon[x]
        /\ \A x \in Daemon \ {d} : sock = x => sock' = x
    BY <1>0, <1>5 DEF Dies, Gone, Unborn
  <2>2. Serving' = Serving \ {d} /\ Starting' = Starting \ {d}
    BY <2>1 DEF Serving, Starting
  <2>3. LoneStart'
    BY <2>1, <2>2 DEF StartInv, LoneStart, Starting
  <2>4. LoneServer'
    BY <2>1, <2>2 DEF StartInv, LoneServer, Starting, Serving
  <2> QED BY <2>3, <2>4
<1>6. ASSUME NEW d \in Daemon, Boot(d) PROVE LoneStart' /\ LoneServer'
  BY <1>6, BeginsAlone DEF Boot, Env
<1>7. ASSUME NEW c \in Client, ConnectLocal(c) PROVE LoneStart' /\ LoneServer'
  <2>1. CASE Answers
    BY <1>7, <2>1, StartFrame DEF ConnectLocal
  <2>2. CASE ~Answers
    <3>1. client[c].env \in Env
      BY DEF StartInv, StartTypeOK
    <3> QED BY <1>7, <2>2, <3>1, BeginsAlone DEF ConnectLocal
  <2> QED BY <2>1, <2>2
<1>8. ASSUME NEW c \in Client, Arrives(c) \/ Unlink(c) \/ Symlink(c) \/ Poll(c) \/ Ends(c)
      PROVE  LoneStart' /\ LoneServer'
  BY <1>8, StartFrame DEF Arrives, Unlink, Symlink, Poll, Ends
<1>9. CASE UNCHANGED startVars
  BY <1>9, StartFrame DEF startVars
<1> QED
  BY <1>1, <1>2, <1>3, <1>4, <1>5, <1>6, <1>7, <1>8, <1>9 DEF StartNext, Serves, Proxies, Stdio

\* StartInv is an invariant of the daemons and their clients.
THEOREM StartInductive == StartSpec => []StartInv
<1>1. StartInv /\ [StartNext]_startVars => StartInv'
  BY StartTypeStep, LoneStep DEF StartInv
<1> QED BY <1>1, StartBegins, PTL DEF StartSpec

\* A daemon that serves and did not start beside another is the one behind the socket.
THEOREM ServedStaysReachable == StartSpec => []ServedIsReachable
<1>1. StartInv => ServedIsReachable
  BY DEF StartInv, LoneServer, ServedIsReachable
<1> QED BY <1>1, StartInductive, PTL

\* The proxy never forwards to itself, and to an agent if its daemon inherited one.
THEOREM AgentStaysReal == StartSpec => []AgentIsReal
<1>1. StartInv => AgentIsReal
  <2> SUFFICES ASSUME StartInv, NEW d \in Serving, agentSock # NoFile
               PROVE  /\ CurrentAgent(daemon[d].env) # "proxy"
                      /\ daemon[d].env \in Agent => CurrentAgent(daemon[d].env) \in Agent
    BY DEF AgentIsReal
  <2> DEFINE e == daemon[d].env
  <2>1. e \in Agent \cup {"proxy", NoFile} /\ upstream \in Agent \cup {"proxy", NoFile}
    BY DEF StartInv, StartTypeOK, Serving, Env
  <2>2. SameSocket("proxy", "proxy")
    BY DEF SameSocket
  <2>3. \A a \in Agent : a # NoFile /\ ~SameSocket(a, "proxy")
    BY DaemonStartAssumption DEF SameSocket
  <2>4. NoFile # "proxy"
    BY DaemonStartAssumption
  <2> QED BY <2>1, <2>2, <2>3, <2>4, DaemonStartAssumption DEF CurrentAgent
<1> QED BY <1>1, StartInductive, PTL

\* So both hold of the whole way, with the link starting the clients and letting them go.
THEOREM LifeKeepsDaemons == LifeSpec => [](ServedIsReachable /\ AgentIsReal)
BY LifeImplementsStart, ServedStaysReachable, AgentStaysReal, PTL

(***************************************************************************)
(* The terminal application.                                               *)
(***************************************************************************)

\* Some places of a sequence have a first.
LEMMA LeastPlace ==
  ASSUME NEW S \in SUBSET Nat, S # {}
  PROVE  \E m \in S : \A i \in S : m <= i
<1>1. IsWellFoundedOn(OpToRel(<, Nat), Nat)
  BY NatLessThanWellFounded
<1>2. PICK x \in S : \A y \in S : ~(<<y, x>> \in OpToRel(<, Nat))
  BY <1>1, WFMin
<1>3. \A y \in S : ~(y < x)
  BY <1>2 DEF OpToRel
<1> QED
  BY <1>3

\* What holds of 0, and of n + 1 when it does of n, holds of all of 0..n.
LEMMA UpTo ==
  ASSUME NEW n \in Nat, NEW S, 0 \in S, \A i \in 0..n-1 : i \in S => i + 1 \in S
  PROVE  0..n \subseteq S
<1> SUFFICES ASSUME ~(0..n \subseteq S) PROVE FALSE
  OBVIOUS
<1>1. PICK m \in (0..n) \ S : \A i \in (0..n) \ S : m <= i
  <2>1. (0..n) \ S \in SUBSET Nat /\ (0..n) \ S # {}
    OBVIOUS
  <2> QED
    BY <2>1, LeastPlace
<1>2. m # 0 /\ m - 1 \in 0..n-1 /\ m - 1 + 1 = m
  BY <1>1
<1>3. m - 1 \in S
  BY <1>1, <1>2
<1> QED
  BY <1>1, <1>2, <1>3

Flat(s) == CHOOSE f : f = [i \in 1..Len(s) |-> IF i = 1 THEN s[i] ELSE f[i - 1] \o s[i]]

LEMMA FlattenDef ==
  ASSUME NEW s, Len(s) # 0
  PROVE  FlattenSeq(s) = Flat(s)[Len(s)]
  BY DEF FlattenSeq, Flat

LEMMA FlattenStep ==
  ASSUME NEW s, Len(s) \in Nat
  PROVE  \E f : f = [i \in 1..Len(s) |-> IF i = 1 THEN s[i] ELSE f[i - 1] \o s[i]]
<1> DEFINE S == {n \in Nat : \E f : f = [i \in 1..n |-> IF i = 1 THEN s[i] ELSE f[i - 1] \o s[i]]}
<1>1. 0 \in S
  <2>1. <<>> = [i \in 1..0 |-> IF i = 1 THEN s[i] ELSE <<>>[i - 1] \o s[i]]
    OBVIOUS
  <2> QED
    BY <2>1
<1>2. ASSUME NEW n \in Nat, n \in S PROVE n + 1 \in S
  <2>1. PICK f : f = [i \in 1..n |-> IF i = 1 THEN s[i] ELSE f[i - 1] \o s[i]]
    BY <1>2
  <2>2. \A i \in 1..n : f[i] = IF i = 1 THEN s[i] ELSE f[i - 1] \o s[i]
    BY <2>1
  <2>3. PICK g : g = [i \in 1..n+1 |-> IF i \in 1..n THEN f[i] ELSE IF i = 1 THEN s[i] ELSE f[i - 1] \o s[i]]
    OBVIOUS
  <2>4. ASSUME NEW i \in 1..n+1 PROVE g[i] = IF i = 1 THEN s[i] ELSE g[i - 1] \o s[i]
    <3>1. CASE i \in 1..n
      <4>1. g[i] = f[i] /\ (i # 1 => g[i - 1] = f[i - 1])
        BY <2>3, <3>1
      <4> QED
        BY <2>2, <3>1, <4>1
    <3>2. CASE i = n + 1
      <4>1. i # 1 => g[i - 1] = f[i - 1]
        BY <2>3, <3>2
      <4> QED
        BY <2>3, <3>2, <4>1
    <3> QED
      BY <3>1, <3>2
  <2>5. g = [i \in 1..n+1 |-> IF i = 1 THEN s[i] ELSE g[i - 1] \o s[i]]
    <3>1. g = [i \in 1..n+1 |-> g[i]]
      BY <2>3
    <3>2. [i \in 1..n+1 |-> g[i]] = [i \in 1..n+1 |-> IF i = 1 THEN s[i] ELSE g[i - 1] \o s[i]]
      BY <2>4, Zenon
    <3> QED
      BY <3>1, <3>2, Zenon
  <2>6. \E h : h = [i \in 1..n+1 |-> IF i = 1 THEN s[i] ELSE h[i - 1] \o s[i]]
    BY <2>5, Zenon
  <2>7. n + 1 \in Nat
    OBVIOUS
  <2> QED
    BY <2>6, <2>7, Zenon
<1> HIDE DEF S
<1>3. 0..Len(s) \subseteq S
  BY <1>1, <1>2, UpTo
<1>4. Len(s) \in S
  BY <1>3
<1> QED
  BY <1>4 DEF S

\* What FlattenSeq is of: one sequence after the other.
LEMMA FlattenIs ==
  ASSUME NEW s, Len(s) \in Nat \ {0}
  PROVE  \E f : /\ FlattenSeq(s) = f[Len(s)] /\ f[1] = s[1]
                /\ \A i \in 2..Len(s) : f[i] = f[i - 1] \o s[i]
<1>1. Flat(s) = [i \in 1..Len(s) |-> IF i = 1 THEN s[i] ELSE Flat(s)[i - 1] \o s[i]]
  BY FlattenStep DEF Flat
<1>2. \A i \in 1..Len(s) : Flat(s)[i] = IF i = 1 THEN s[i] ELSE Flat(s)[i - 1] \o s[i]
  BY <1>1
<1>3. FlattenSeq(s) = Flat(s)[Len(s)]
  BY FlattenDef
<1>4. PICK f, n : f = Flat(s) /\ n = Len(s) /\ n \in Nat \ {0}
  OBVIOUS
<1>5. \A i \in 1..n : f[i] = IF i = 1 THEN s[i] ELSE f[i - 1] \o s[i]
  BY <1>2, <1>4
<1>6. f[1] = s[1]
  BY <1>4, <1>5
<1>7. ASSUME NEW i \in 2..n PROVE f[i] = f[i - 1] \o s[i]
  <2>1. i \in 1..n /\ i # 1
    BY <1>4
  <2> QED
    BY <1>5, <2>1
<1> QED
  BY <1>3, <1>4, <1>6, <1>7

--------------------------------------------------------------------------------
\* t is the n sequences of s one after the other, the k-th of them after off[k] others.
IsFlat(t, s, n, off) ==
  /\ off \in [1..n+1 -> Nat] /\ off[1] = 0 /\ Len(t) = off[n + 1]
  /\ \A k \in 1..n : off[k + 1] = off[k] + Len(s[k])
  /\ \A k, l \in 1..n : k < l => off[k + 1] <= off[l]
  /\ \A k \in 1..n : \A j \in 1..Len(s[k]) : off[k] + j \in 1..Len(t) /\ t[off[k] + j] = s[k][j]
  /\ \A i \in 1..Len(t) : \E k \in 1..n : i - off[k] \in 1..Len(s[k]) /\ t[i] = s[k][i - off[k]]

LEMMA FlatFirst ==
  ASSUME NEW X, NEW t \in Seq(X), NEW s, s[1] = t
  PROVE  \E off : IsFlat(t, s, 1, off)
<1>1. PICK off : off = [k \in 1..2 |-> IF k = 1 THEN 0 ELSE Len(t)]
  OBVIOUS
<1>2. Len(t) \in Nat
  OBVIOUS
<1>3. off \in [1..2 -> Nat] /\ off[1] = 0 /\ off[2] = Len(t)
  BY <1>1, <1>2
<1>4. \A k \in 1..1 : k = 1
  OBVIOUS
<1> QED
  BY <1>2, <1>3, <1>4 DEF IsFlat

LEMMA FlatNext ==
  ASSUME NEW X, NEW t \in Seq(X), NEW n \in Nat \ {0}, NEW s, NEW off, IsFlat(t, s, n, off),
         s[n + 1] \in Seq(X), \A k \in 1..n : s[k] \in Seq(X)
  PROVE  \E new : IsFlat(t \o s[n + 1], s, n + 1, new)
<1>1. PICK last : last = s[n + 1]
  OBVIOUS
<1>2. PICK u : u = t \o last
  OBVIOUS
<1>3. /\ u \in Seq(X) /\ Len(u) = Len(t) + Len(last) /\ Len(t) \in Nat /\ Len(last) \in Nat
      /\ \A i \in 1..Len(u) : u[i] = IF i <= Len(t) THEN t[i] ELSE last[i - Len(t)]
  BY <1>1, <1>2, ConcatProperties
<1>4. PICK new : new = [k \in 1..n+2 |-> IF k <= n + 1 THEN off[k] ELSE Len(u)]
  OBVIOUS
<1>5. /\ new \in [1..n+2 -> Nat] /\ new[1] = 0 /\ new[n + 2] = Len(u) /\ new[n + 1] = Len(t)
      /\ \A k \in 1..n+1 : new[k] = off[k]
  BY <1>3, <1>4 DEF IsFlat
<1>6. \A k \in 1..n+1 : new[k + 1] = new[k] + Len(s[k])
  <2>1. ASSUME NEW k \in 1..n PROVE new[k + 1] = new[k] + Len(s[k])
    BY <1>5 DEF IsFlat
  <2>2. new[n + 2] = new[n + 1] + Len(s[n + 1])
    BY <1>1, <1>3, <1>5
  <2> QED
    BY <2>1, <2>2
<1>7. \A k \in 1..n+1 : new[k + 1] \in Nat /\ new[k] \in Nat /\ new[k + 1] >= new[k]
  <2> SUFFICES ASSUME NEW k \in 1..n+1 PROVE new[k + 1] \in Nat /\ new[k] \in Nat /\ new[k + 1] >= new[k]
    OBVIOUS
  <2>1. Len(s[k]) \in Nat
    BY <1>1, <1>3
  <2>2. new[k] \in Nat /\ new[k + 1] \in Nat
    BY <1>5
  <2>3. new[k + 1] = new[k] + Len(s[k])
    BY <1>6
  <2> QED
    BY <2>1, <2>2, <2>3
<1>8. \A k, l \in 1..n+1 : k < l => new[k + 1] <= new[l]
  <2> SUFFICES ASSUME NEW k \in 1..n+1, NEW l \in 1..n+1, k < l PROVE new[k + 1] <= new[l]
    OBVIOUS
  <2>1. k \in 1..n /\ new[k + 1] = off[k + 1]
    BY <1>5
  <2>2. CASE l \in 1..n
    BY <1>5, <2>1, <2>2 DEF IsFlat
  <2>3. CASE l = n + 1
    <3>1. CASE k = n
      BY <1>7, <2>3, <3>1
    <3>2. CASE k < n
      <4>1. off[k + 1] <= off[n] /\ new[n] = off[n]
        BY <1>5, <2>1, <3>2 DEF IsFlat
      <4>2. new[n + 1] >= new[n] /\ new[n] \in Nat /\ new[n + 1] \in Nat /\ new[k + 1] \in Nat
        BY <1>7, <2>1
      <4> QED
        BY <2>1, <2>3, <4>1, <4>2
    <3> QED
      BY <2>1, <3>1, <3>2
  <2> QED
    BY <2>2, <2>3
<1>9. \A k \in 1..n+1 : \A j \in 1..Len(s[k]) : new[k] + j \in 1..Len(u) /\ u[new[k] + j] = s[k][j]
  <2> SUFFICES ASSUME NEW k \in 1..n+1, NEW j \in 1..Len(s[k])
               PROVE  new[k] + j \in 1..Len(u) /\ u[new[k] + j] = s[k][j]
    OBVIOUS
  <2>1. CASE k \in 1..n
    <3>1. off[k] + j \in 1..Len(t) /\ t[off[k] + j] = s[k][j] /\ new[k] = off[k]
      BY <1>5, <2>1 DEF IsFlat
    <3> QED
      BY <1>3, <3>1
  <2>2. CASE k = n + 1
    <3>1. j \in 1..Len(last) /\ new[k] = Len(t)
      BY <1>1, <1>5, <2>2
    <3>2. Len(t) + j \in 1..Len(u) /\ ~(Len(t) + j <= Len(t)) /\ Len(t) + j - Len(t) = j
      BY <1>3, <3>1
    <3>3. u[Len(t) + j] = last[j]
      BY <1>3, <3>2
    <3> QED
      BY <1>1, <2>2, <3>1, <3>2, <3>3
  <2> QED
    BY <2>1, <2>2
<1>10. \A i \in 1..Len(u) : \E k \in 1..n+1 : i - new[k] \in 1..Len(s[k]) /\ u[i] = s[k][i - new[k]]
  <2> SUFFICES ASSUME NEW i \in 1..Len(u)
               PROVE  \E k \in 1..n+1 : i - new[k] \in 1..Len(s[k]) /\ u[i] = s[k][i - new[k]]
    OBVIOUS
  <2>1. CASE i <= Len(t)
    <3>1. PICK k \in 1..n : i - off[k] \in 1..Len(s[k]) /\ t[i] = s[k][i - off[k]]
      <4>1. i \in 1..Len(t)
        BY <1>3, <2>1
      <4> QED
        BY <4>1 DEF IsFlat
    <3>2. u[i] = t[i] /\ new[k] = off[k] /\ k \in 1..n+1
      BY <1>3, <1>5, <2>1
    <3> QED
      BY <3>1, <3>2
  <2>2. CASE ~(i <= Len(t))
    <3>1. u[i] = last[i - Len(t)] /\ i - Len(t) \in 1..Len(last)
      BY <1>3, <2>2
    <3>2. n + 1 \in 1..n+1 /\ new[n + 1] = Len(t)
      BY <1>5
    <3> QED
      BY <1>1, <3>1, <3>2
  <2> QED
    BY <2>1, <2>2
<1>11. IsFlat(u, s, n + 1, new)
  <2>1. n + 1 + 1 = n + 2
    OBVIOUS
  <2> QED
    BY <1>5, <1>6, <1>8, <1>9, <1>10, <2>1 DEF IsFlat
<1> QED
  BY <1>1, <1>2, <1>11

\* FlattenSeq puts sequences one after the other.
LEMMA FlattenPlaces ==
  ASSUME NEW X, NEW n \in Nat, NEW s \in [1..n -> Seq(X)]
  PROVE  FlattenSeq(s) \in Seq(X) /\ \E off : IsFlat(FlattenSeq(s), s, n, off)
<1>1. Len(s) = n
  OBVIOUS
<1>2. CASE n = 0
  <2>1. FlattenSeq(s) = s /\ s = <<>>
    BY <1>1, <1>2 DEF FlattenSeq
  <2>2. PICK off : off = [k \in 1..1 |-> 0]
    OBVIOUS
  <2>3. off \in [1..1 -> Nat] /\ off[1] = 0
    BY <2>2
  <2>4. IsFlat(<<>>, s, 0, off)
    BY <2>3 DEF IsFlat
  <2> QED
    BY <1>2, <2>1, <2>4
<1>3. CASE n # 0
  <2>1. PICK f : FlattenSeq(s) = f[n] /\ f[1] = s[1] /\ \A i \in 2..n : f[i] = f[i - 1] \o s[i]
    BY <1>1, <1>3, FlattenIs
  <2> DEFINE S == {m \in 0..n-1 : f[m + 1] \in Seq(X) /\ \E off : IsFlat(f[m + 1], s, m + 1, off)}
  <2>2. 0 \in S
    <3>1. s[1] \in Seq(X) /\ f[1] = s[1]
      BY <1>3, <2>1
    <3>2. \E off : IsFlat(f[1], s, 1, off)
      BY <3>1, FlatFirst
    <3>3. 0 \in 0..n-1 /\ 0 + 1 = 1
      BY <1>3
    <3> QED
      BY <3>1, <3>2, <3>3
  <2>3. ASSUME NEW m \in 0..n-2, m \in S PROVE m + 1 \in S
    <3>1. m + 1 \in Nat \ {0} /\ m + 1 \in 0..n-1 /\ m + 2 \in 2..n /\ m + 1 + 1 = m + 2 /\ m + 2 - 1 = m + 1
      OBVIOUS
    <3>2. PICK off : f[m + 1] \in Seq(X) /\ IsFlat(f[m + 1], s, m + 1, off)
      BY <2>3
    <3>3. f[m + 2] = f[m + 1] \o s[m + 2]
      <4>1. PICK j \in 2..n : j = m + 2
        BY <3>1
      <4>2. f[j] = f[j - 1] \o s[j]
        BY <2>1
      <4>3. j - 1 = m + 1
        BY <4>1
      <4> QED
        BY <4>1, <4>2, <4>3
    <3>4. s[m + 2] \in Seq(X) /\ \A k \in 1..m+1 : s[k] \in Seq(X)
      BY <3>1
    <3>5. \E new : IsFlat(f[m + 1] \o s[m + 2], s, m + 2, new)
      BY <3>1, <3>2, <3>4, FlatNext
    <3>6. f[m + 2] \in Seq(X)
      BY <3>2, <3>3, <3>4
    <3> QED
      BY <3>1, <3>3, <3>5, <3>6
  <2> HIDE DEF S
  <2>4. 0..n-1 \subseteq S
    <3>1. n - 1 \in Nat /\ (n - 1) - 1 = n - 2
      BY <1>3
    <3> QED
      BY <2>2, <2>3, <3>1, UpTo
  <2>5. n - 1 \in S /\ n - 1 + 1 = n
    BY <1>3, <2>4
  <2> QED
    BY <2>1, <2>5 DEF S
<1> QED
  BY <1>2, <1>3

--------------------------------------------------------------------------------
\* R puts the elements of S in a line.
IsOrder(S, R) ==
  /\ \A x \in S : <<x, x>> \notin R
  /\ \A x, y \in S : x # y => <<x, y>> \in R \/ <<y, x>> \in R
  /\ \A x, y, z \in S : <<x, y>> \in R /\ <<y, z>> \in R => <<x, z>> \in R

Lower(S, R, x) == {y \in S : <<y, x>> \in R}

\* Sorted goes through the elements of a finite set, each of them once.
LEMMA SortedIs ==
  ASSUME NEW S, IsFiniteSet(S), NEW R, IsOrder(S, R)
  PROVE  LET n == Cardinality(S)
             t == Sorted(S, R)
         IN  /\ n \in Nat /\ t \in [1..n -> S]
             /\ \A x \in S : \E i \in 1..n : t[i] = x
             /\ \A i, j \in 1..n : t[i] = t[j] => i = j
<1>1. PICK n : n = Cardinality(S) /\ n \in Nat
  BY FS_CardinalityType
<1>2. PICK t : t = Sorted(S, R)
  OBVIOUS
<1>3. \A x \in S : IsFiniteSet(Lower(S, R, x)) /\ Cardinality(Lower(S, R, x)) \in 0..n-1
  <2> SUFFICES ASSUME NEW x \in S
               PROVE  IsFiniteSet(Lower(S, R, x)) /\ Cardinality(Lower(S, R, x)) \in 0..n-1
    OBVIOUS
  <2>1. Lower(S, R, x) \in SUBSET (S \ {x})
    BY DEF Lower, IsOrder
  <2>2. IsFiniteSet(S \ {x}) /\ Cardinality(S \ {x}) = n - 1
    BY <1>1, FS_RemoveElement
  <2>3. IsFiniteSet(Lower(S, R, x)) /\ Cardinality(Lower(S, R, x)) <= n - 1
    BY <2>1, <2>2, FS_Subset
  <2>4. Cardinality(Lower(S, R, x)) \in Nat
    BY <2>3, FS_CardinalityType
  <2> QED
    BY <1>1, <2>3, <2>4
<1>4. \A x, y \in S : <<x, y>> \in R => Cardinality(Lower(S, R, x)) # Cardinality(Lower(S, R, y))
  <2> SUFFICES ASSUME NEW x \in S, NEW y \in S, <<x, y>> \in R
               PROVE  Cardinality(Lower(S, R, x)) # Cardinality(Lower(S, R, y))
    OBVIOUS
  <2>1. Lower(S, R, x) \in SUBSET Lower(S, R, y) /\ x \in Lower(S, R, y) /\ x \notin Lower(S, R, x)
    BY DEF Lower, IsOrder
  <2>2. Lower(S, R, x) # Lower(S, R, y)
    BY <2>1
  <2> QED
    BY <1>3, <2>1, <2>2, FS_Subset
<1>5. \A x, y \in S : x # y => Cardinality(Lower(S, R, x)) # Cardinality(Lower(S, R, y))
  BY <1>4 DEF IsOrder
<1>6. PICK rank : rank = [x \in S |-> Cardinality(Lower(S, R, x)) + 1]
  OBVIOUS
<1>7. rank \in Injection(S, 1..n)
  <2>1. rank \in [S -> 1..n]
    <3>1. ASSUME NEW x \in S PROVE Cardinality(Lower(S, R, x)) + 1 \in 1..n
      BY <1>1, <1>3
    <3> QED
      BY <1>6, <3>1
  <2>2. ASSUME NEW x \in S, NEW y \in S, x # y PROVE rank[x] # rank[y]
    <3>1. /\ Cardinality(Lower(S, R, x)) \in 0..n-1 /\ Cardinality(Lower(S, R, y)) \in 0..n-1
          /\ Cardinality(Lower(S, R, x)) # Cardinality(Lower(S, R, y))
      BY <1>3, <1>5, <2>2
    <3> QED
      BY <1>1, <1>6, <3>1
  <2> QED
    BY <2>1, <2>2 DEF Injection, IsInjective
<1>8. rank \in Surjection(S, 1..n)
  <2>1. IsFiniteSet(1..n) /\ Cardinality(1..n) = n
    <3>1. IsFiniteSet(1..n) /\ Cardinality(1..n) = IF 1 > n THEN 0 ELSE n - 1 + 1
      <4>1. 1 \in Int /\ n \in Int
        BY <1>1
      <4> QED
        BY <4>1, FS_Interval
    <3> QED
      BY <1>1, <3>1
  <2> QED
    BY <1>1, <1>7, <2>1, FS_Injection
<1>9. \A i \in 1..n : \E x \in S : Cardinality(Lower(S, R, x)) = i - 1
  <2> SUFFICES ASSUME NEW i \in 1..n PROVE \E x \in S : Cardinality(Lower(S, R, x)) = i - 1
    OBVIOUS
  <2>1. PICK x \in S : rank[x] = i
    BY <1>8 DEF Surjection
  <2>2. Cardinality(Lower(S, R, x)) + 1 = i /\ Cardinality(Lower(S, R, x)) \in 0..n-1
    BY <1>3, <1>6, <2>1
  <2>3. Cardinality(Lower(S, R, x)) = i - 1
    BY <1>1, <2>2
  <2> QED
    BY <2>3
<1>10. t = [i \in 1..n |-> CHOOSE x \in S : Cardinality(Lower(S, R, x)) = i - 1]
  BY <1>1, <1>2 DEF Sorted, Lower
<1>11. \A i \in 1..n : t[i] \in S /\ Cardinality(Lower(S, R, t[i])) = i - 1
  BY <1>9, <1>10
<1>12. t \in [1..n -> S]
  BY <1>10, <1>11
<1>13. \A x \in S : \E i \in 1..n : t[i] = x
  <2> SUFFICES ASSUME NEW x \in S PROVE \E i \in 1..n : t[i] = x
    OBVIOUS
  <2>1. PICK i \in 1..n : Cardinality(Lower(S, R, x)) = i - 1
    <3>1. Cardinality(Lower(S, R, x)) \in 0..n-1
      BY <1>3
    <3>2. PICK c \in 0..n-1 : Cardinality(Lower(S, R, x)) = c
      BY <3>1
    <3>3. c + 1 \in 1..n /\ c + 1 - 1 = c
      BY <1>1
    <3> QED
      BY <3>2, <3>3
  <2>2. t[i] \in S /\ Cardinality(Lower(S, R, t[i])) = i - 1
    BY <1>11
  <2>3. t[i] = x
    BY <1>5, <2>1, <2>2
  <2> QED
    BY <2>3
<1>14. \A i, j \in 1..n : t[i] = t[j] => i = j
  <2> SUFFICES ASSUME NEW i \in 1..n, NEW j \in 1..n, t[i] = t[j] PROVE i = j
    OBVIOUS
  <2>1. i - 1 = j - 1
    BY <1>11
  <2> QED
    BY <1>1, <2>1
<1> QED
  BY <1>1, <1>2, <1>12, <1>13, <1>14

LEMMA AscendingIs ==
  ASSUME NEW S \in SUBSET Nat, IsFiniteSet(S)
  PROVE  LET n == Cardinality(S)
             t == Ascending(S)
         IN  /\ n \in Nat /\ t \in [1..n -> S]
             /\ \A x \in S : \E i \in 1..n : t[i] = x
             /\ \A i, j \in 1..n : t[i] = t[j] => i = j
<1>1. PICK R : R = {e \in S \X S : e[1] < e[2]}
  OBVIOUS
<1>2. \A x, y \in S : <<x, y>> \in R <=> x < y
  BY <1>1
<1>3. IsOrder(S, R)
  BY <1>2 DEF IsOrder
<1> QED
  BY <1>1, <1>3, SortedIs DEF Ascending

--------------------------------------------------------------------------------
\* Paths, one beginning with the other.
Path == Seq(Nat)

LEMMA SameStart ==
  ASSUME NEW p \in Path, NEW q \in Path, NEW n \in Nat, n <= Len(p), n <= Len(q)
  PROVE  SubSeq(p, 1, n) = SubSeq(q, 1, n) <=> \A i \in 1..n : p[i] = q[i]
<1>1. /\ SubSeq(p, 1, n) \in Seq(Nat) /\ SubSeq(q, 1, n) \in Seq(Nat)
      /\ Len(SubSeq(p, 1, n)) = n /\ Len(SubSeq(q, 1, n)) = n
      /\ \A i \in 1..n : SubSeq(p, 1, n)[i] = p[i] /\ SubSeq(q, 1, n)[i] = q[i]
  <2>1. ASSUME NEW r \in Seq(Nat), n <= Len(r)
        PROVE  /\ SubSeq(r, 1, n) \in Seq(Nat) /\ Len(SubSeq(r, 1, n)) = n
               /\ \A i \in 1..n : SubSeq(r, 1, n)[i] = r[i]
    BY <2>1
  <2> QED
    BY <2>1 DEF Path
<1>2. ASSUME SubSeq(p, 1, n) = SubSeq(q, 1, n) PROVE \A i \in 1..n : p[i] = q[i]
  BY <1>1, <1>2
<1>3. ASSUME \A i \in 1..n : p[i] = q[i] PROVE SubSeq(p, 1, n) = SubSeq(q, 1, n)
  BY <1>1, <1>3, SeqEqual
<1> QED
  BY <1>2, <1>3

LEMMA PrefixIs ==
  ASSUME NEW p \in Path, NEW q \in Path
  PROVE  IsPrefix(p, q) <=> Len(p) <= Len(q) /\ \A i \in 1..Len(p) : p[i] = q[i]
<1>1. Len(p) \in Nat /\ Len(q) \in Nat
  BY DEF Path
<1>2. SubSeq(p, 1, Len(p)) = p
  BY DEF Path
<1>3. CASE Len(p) <= Len(q)
  BY <1>1, <1>2, <1>3, SameStart DEF IsPrefix
<1>4. CASE ~(Len(p) <= Len(q))
  BY <1>4 DEF IsPrefix
<1> QED
  BY <1>3, <1>4

LEMMA SamePath ==
  ASSUME NEW p \in Path, NEW q \in Path, Len(p) = Len(q), \A i \in 1..Len(p) : p[i] = q[i]
  PROVE  p = q
  BY SeqEqual DEF Path

\* p comes before q: at the first place where they differ, or where p ends, p is less.
Differ(p, q, n) ==
  /\ n \in 1..Len(p)+1 /\ n <= Len(q) /\ \A i \in 1..n-1 : p[i] = q[i]
  /\ n <= Len(p) => p[n] < q[n]

LEMMA BeforeIs ==
  ASSUME NEW p \in Path, NEW q \in Path
  PROVE  Before(p, q) <=> \E n \in Nat : Differ(p, q, n)
<1>1. Len(p) \in Nat /\ Len(q) \in Nat
  BY DEF Path
<1>2. ASSUME IsStrictPrefix(p, q) PROVE Differ(p, q, Len(p) + 1)
  <2>1. Len(p) <= Len(q) /\ \A i \in 1..Len(p) : p[i] = q[i]
    BY <1>2, PrefixIs DEF IsStrictPrefix
  <2>2. Len(p) # Len(q)
    BY <1>2, <2>1, SamePath DEF IsStrictPrefix
  <2> QED
    BY <1>1, <2>1, <2>2 DEF Differ
<1>3. ASSUME NEW n \in 1..Len(p), n <= Len(q), SubSeq(p, 1, n - 1) = SubSeq(q, 1, n - 1), p[n] < q[n]
      PROVE  Differ(p, q, n)
  <2>1. n - 1 \in Nat /\ n - 1 <= Len(p) /\ n - 1 <= Len(q)
    BY <1>1, <1>3
  <2>2. \A i \in 1..n-1 : p[i] = q[i]
    BY <1>3, <2>1, SameStart
  <2> QED
    BY <1>1, <1>3, <2>2 DEF Differ
<1>4. ASSUME NEW n \in Nat, Differ(p, q, n) PROVE Before(p, q)
  <2>1. CASE n <= Len(p)
    <3>1. n \in 1..Len(p) /\ n <= Len(q) /\ p[n] < q[n] /\ \A i \in 1..n-1 : p[i] = q[i]
      BY <1>1, <1>4, <2>1 DEF Differ
    <3>2. n - 1 \in Nat /\ n - 1 <= Len(p) /\ n - 1 <= Len(q)
      BY <1>1, <3>1
    <3>3. SubSeq(p, 1, n - 1) = SubSeq(q, 1, n - 1)
      BY <3>1, <3>2, SameStart
    <3> QED
      BY <3>1, <3>3 DEF Before
  <2>2. CASE ~(n <= Len(p))
    <3>1. n = Len(p) + 1 /\ n <= Len(q) /\ \A i \in 1..n-1 : p[i] = q[i]
      BY <1>1, <1>4, <2>2 DEF Differ
    <3>2. Len(p) < Len(q) /\ \A i \in 1..Len(p) : p[i] = q[i]
      BY <1>1, <3>1
    <3>3. IsPrefix(p, q) /\ p # q
      BY <1>1, <3>2, PrefixIs
    <3> QED
      BY <3>3 DEF Before, IsStrictPrefix
  <2> QED
    BY <2>1, <2>2
<1>5. Len(p) + 1 \in Nat /\ 1..Len(p) \subseteq Nat
  BY <1>1
<1> QED
  BY <1>2, <1>3, <1>4, <1>5 DEF Before

\* A set of paths is put in a line by it.
LEMMA BeforeOrders ==
  ASSUME NEW S \in SUBSET Path, NEW R, R = {e \in S \X S : Before(e[1], e[2])}
  PROVE  IsOrder(S, R)
<1>1. \A x, y \in S : <<x, y>> \in R <=> Before(x, y)
  OBVIOUS
<1>2. \A x \in S : Len(x) \in Nat /\ \A i \in 1..Len(x) : x[i] \in Nat
  BY DEF Path
<1>3. ASSUME NEW x \in S PROVE ~Before(x, x)
  <2>1. \A n \in Nat : ~Differ(x, x, n)
    BY <1>2 DEF Differ
  <2> QED
    BY <2>1, BeforeIs
<1>4. ASSUME NEW x \in S, NEW y \in S, x # y PROVE Before(x, y) \/ Before(y, x)
  <2> DEFINE D == {n \in 1..Len(x)+1 : n > Len(y) \/ n > Len(x) \/ x[n] # y[n]}
  <2>1. D \in SUBSET Nat /\ D # {}
    <3>1. Len(x) + 1 \in D
      BY <1>2
    <3> QED
      BY <3>1
  <2>2. PICK n \in D : \A i \in D : n <= i
    BY <2>1, LeastPlace
  <2>3. n \in 1..Len(x)+1 /\ (n > Len(y) \/ n > Len(x) \/ x[n] # y[n])
    BY <2>2
  <2>4. \A i \in 1..n-1 : i <= Len(y) /\ i <= Len(x) /\ x[i] = y[i]
    <3> SUFFICES ASSUME NEW i \in 1..n-1, i \in D PROVE FALSE
      BY <1>2, <2>3
    <3>1. n <= i
      BY <2>2
    <3> QED
      BY <1>2, <2>3, <3>1
  <2> HIDE DEF D
  <2>5. CASE n > Len(x)
    <3>1. n = Len(x) + 1 /\ Len(x) <= Len(y)
      BY <1>2, <2>3, <2>4, <2>5
    <3>2. Len(x) # Len(y)
      BY <1>2, <1>4, <2>4, <3>1, SamePath
    <3>3. Differ(x, y, n)
      BY <1>2, <2>3, <2>4, <3>1, <3>2 DEF Differ
    <3> QED
      BY <1>2, <2>3, <3>3, BeforeIs
  <2>6. CASE n <= Len(x) /\ n > Len(y)
    <3>1. n = Len(y) + 1
      BY <1>2, <2>3, <2>4, <2>6
    <3>2. Differ(y, x, n)
      BY <1>2, <2>4, <2>6, <3>1 DEF Differ
    <3> QED
      BY <1>2, <3>1, <3>2, BeforeIs
  <2>7. CASE n <= Len(x) /\ n <= Len(y)
    <3>1. x[n] # y[n] /\ x[n] \in Nat /\ y[n] \in Nat /\ n \in Nat
      BY <1>2, <2>3, <2>7
    <3>2. Differ(x, y, n) \/ Differ(y, x, n)
      BY <1>2, <2>3, <2>4, <2>7, <3>1 DEF Differ
    <3> QED
      BY <3>1, <3>2, BeforeIs
  <2> QED
    BY <1>2, <2>3, <2>5, <2>6, <2>7
<1>5. ASSUME NEW x \in S, NEW y \in S, NEW z \in S, Before(x, y), Before(y, z) PROVE Before(x, z)
  <2>1. PICK m \in Nat : Differ(x, y, m)
    BY <1>5, BeforeIs
  <2>2. PICK n \in Nat : Differ(y, z, n)
    BY <1>5, BeforeIs
  <2>3. PICK k \in Nat : k = IF m <= n THEN m ELSE n
    OBVIOUS
  <2>4. Differ(x, z, k)
    BY <1>2, <2>1, <2>2, <2>3 DEF Differ
  <2> QED
    BY <2>4, BeforeIs
<1> QED
  BY <1>1, <1>3, <1>4, <1>5 DEF IsOrder

LEMMA InOrderIs ==
  ASSUME NEW S \in SUBSET Path, IsFiniteSet(S)
  PROVE  LET n == Cardinality(S)
             t == InOrder(S)
         IN  /\ n \in Nat /\ t \in [1..n -> S]
             /\ \A x \in S : \E i \in 1..n : t[i] = x
             /\ \A i, j \in 1..n : t[i] = t[j] => i = j
<1>1. PICK R : R = {e \in S \X S : Before(e[1], e[2])}
  OBVIOUS
<1> QED
  BY <1>1, BeforeOrders, SortedIs DEF InOrder

LEMMA PrefixOrder ==
  ASSUME NEW p \in Path, NEW q \in Path, NEW r \in Path
  PROVE  /\ IsPrefix(p, p)
         /\ IsPrefix(p, q) /\ IsPrefix(q, r) => IsPrefix(p, r)
         /\ IsPrefix(p, r) /\ IsPrefix(q, r) /\ Len(p) <= Len(q) => IsPrefix(p, q)
         /\ IsPrefix(p, q) /\ Len(q) <= Len(p) => p = q
         /\ IsPrefix(p, q) => Len(p) <= Len(q)
         /\ IsStrictPrefix(p, q) => IsPrefix(p, q) /\ Len(p) < Len(q)
         /\ IsStrictPrefix(p, q) /\ IsPrefix(q, r) => IsStrictPrefix(p, r)
         /\ IsPrefix(p, q) /\ IsStrictPrefix(q, r) => IsStrictPrefix(p, r)
<1>1. Len(p) \in Nat /\ Len(q) \in Nat /\ Len(r) \in Nat
  BY DEF Path
<1>2. IsPrefix(p, p)
  BY <1>1, PrefixIs
<1>3. IsPrefix(p, q) /\ IsPrefix(q, r) => IsPrefix(p, r)
  <2> SUFFICES ASSUME IsPrefix(p, q), IsPrefix(q, r) PROVE IsPrefix(p, r)
    OBVIOUS
  <2>1. /\ Len(p) <= Len(q) /\ \A i \in 1..Len(p) : p[i] = q[i]
        /\ Len(q) <= Len(r) /\ \A i \in 1..Len(q) : q[i] = r[i]
    BY PrefixIs
  <2>2. \A i \in 1..Len(p) : i \in 1..Len(q)
    BY <1>1, <2>1
  <2>3. \A i \in 1..Len(p) : p[i] = r[i]
    BY <2>1, <2>2
  <2> QED
    BY <1>1, <2>1, <2>3, PrefixIs
<1>4. IsPrefix(p, r) /\ IsPrefix(q, r) /\ Len(p) <= Len(q) => IsPrefix(p, q)
  <2> SUFFICES ASSUME IsPrefix(p, r), IsPrefix(q, r), Len(p) <= Len(q) PROVE IsPrefix(p, q)
    OBVIOUS
  <2>1. (\A i \in 1..Len(p) : p[i] = r[i]) /\ (\A i \in 1..Len(q) : q[i] = r[i])
    BY PrefixIs
  <2>2. \A i \in 1..Len(p) : i \in 1..Len(q)
    BY <1>1
  <2>3. \A i \in 1..Len(p) : p[i] = q[i]
    BY <2>1, <2>2
  <2> QED
    BY <2>3, PrefixIs
<1>5. IsPrefix(p, q) => Len(p) <= Len(q)
  BY PrefixIs
<1>6. IsPrefix(p, q) /\ Len(q) <= Len(p) => p = q
  BY <1>1, PrefixIs, SamePath
<1>7. IsStrictPrefix(p, q) => IsPrefix(p, q) /\ Len(p) < Len(q)
  BY <1>1, <1>5, <1>6 DEF IsStrictPrefix
<1>8. IsStrictPrefix(p, q) /\ IsPrefix(q, r) => IsStrictPrefix(p, r)
  <2> SUFFICES ASSUME IsStrictPrefix(p, q), IsPrefix(q, r) PROVE IsStrictPrefix(p, r)
    OBVIOUS
  <2>1. Len(p) < Len(q) /\ Len(q) <= Len(r) /\ IsPrefix(p, r)
    BY <1>3, <1>7, PrefixIs
  <2> QED
    BY <1>1, <2>1 DEF IsStrictPrefix
<1>9. IsPrefix(p, q) /\ IsStrictPrefix(q, r) => IsStrictPrefix(p, r)
  <2> SUFFICES ASSUME IsPrefix(p, q), IsStrictPrefix(q, r) PROVE IsStrictPrefix(p, r)
    OBVIOUS
  <2>1. IsPrefix(q, r) /\ q # r
    BY DEF IsStrictPrefix
  <2>2. Len(q) <= Len(r)
    BY <2>1, PrefixIs
  <2>3. Len(q) # Len(r)
    BY <2>1, <2>2, PrefixIs, SamePath
  <2>4. Len(p) <= Len(q) /\ IsPrefix(p, r)
    BY <1>3, <1>5, <2>1
  <2> QED
    BY <1>1, <2>2, <2>3, <2>4 DEF IsStrictPrefix
<1> QED
  BY <1>2, <1>3, <1>4, <1>5, <1>6, <1>7, <1>8, <1>9

\* The first names of a path.
LEMMA StartIs ==
  ASSUME NEW q \in Path, NEW n \in 0..Len(q)
  PROVE  /\ SubSeq(q, 1, n) \in Path /\ Len(SubSeq(q, 1, n)) = n /\ IsPrefix(SubSeq(q, 1, n), q)
         /\ \A p \in Path : IsPrefix(p, q) /\ Len(p) = n => p = SubSeq(q, 1, n)
<1>1. SubSeq(q, 1, n) \in Path /\ Len(SubSeq(q, 1, n)) = n /\ \A i \in 1..n : SubSeq(q, 1, n)[i] = q[i]
  BY DEF Path
<1>2. Len(q) \in Nat /\ n \in Nat /\ n <= Len(q)
  BY DEF Path
<1>3. IsPrefix(SubSeq(q, 1, n), q)
  BY <1>1, <1>2, PrefixIs
<1>4. ASSUME NEW p \in Path, IsPrefix(p, q), Len(p) = n PROVE p = SubSeq(q, 1, n)
  <2>1. \A i \in 1..n : p[i] = q[i]
    BY <1>4, PrefixIs
  <2> QED
    BY <1>1, <1>4, <2>1, SamePath
<1> QED
  BY <1>1, <1>3, <1>4

--------------------------------------------------------------------------------
\* A list of sessions, each of them on it once.
Entry(I) == [sid : I, path : Path \ {<<>>}]
Listing(I) ==
  {l \in Seq(Entry(I)) : \A i, j \in DOMAIN l : l[i].sid = l[j].sid => i = j}

LEMMA ListingIs ==
  ASSUME NEW I, NEW l \in Listing(I)
  PROVE  /\ Len(l) \in Nat /\ DOMAIN l = 1..Len(l)
         /\ \A i \in DOMAIN l : /\ l[i] \in Entry(I) /\ l[i].sid \in I /\ l[i].path \in Path
                                /\ l[i].path # <<>> /\ Len(l[i].path) \in Nat \ {0}
         /\ \A i, j \in DOMAIN l : l[i].sid = l[j].sid => i = j
<1>1. l \in Seq(Entry(I)) /\ \A i, j \in DOMAIN l : l[i].sid = l[j].sid => i = j
  BY DEF Listing
<1>2. Len(l) \in Nat /\ DOMAIN l = 1..Len(l) /\ \A i \in DOMAIN l : l[i] \in Entry(I)
  BY <1>1
<1>3. \A p \in Path : p # <<>> => Len(p) \in Nat \ {0}
  BY EmptySeq DEF Path
<1> QED
  BY <1>1, <1>2, <1>3 DEF Entry

\* At is of the sessions of a folder, each of them once.
LEMMA AtIs ==
  ASSUME NEW I, NEW l \in Listing(I), NEW p
  PROVE  LET t == At(l, p)
             n == Cardinality(Places(l, p))
         IN  /\ n \in Nat /\ t \in [1..n -> Entry(I)] /\ Len(t) = n /\ t \in Seq(Entry(I))
             /\ \A k \in 1..n : t[k].path = p /\ \E i \in DOMAIN l : t[k] = l[i]
             /\ \A i \in DOMAIN l : l[i].path = p => \E k \in 1..n : t[k] = l[i]
             /\ \A k, m \in 1..n : t[k].sid = t[m].sid => k = m
             /\ (t = <<>> <=> \A i \in DOMAIN l : l[i].path # p)
<1>1. PICK n, here, t : n = Cardinality(Places(l, p)) /\ here = Ascending(Places(l, p)) /\ t = At(l, p)
  OBVIOUS
<1>2. Places(l, p) \in SUBSET Nat /\ IsFiniteSet(Places(l, p))
  <2>1. Places(l, p) \in SUBSET (1..Len(l)) /\ Len(l) \in Nat
    BY ListingIs DEF Places
  <2>2. Places(l, p) \in SUBSET Nat /\ \A i \in Places(l, p) : i <= Len(l)
    BY <2>1
  <2> QED
    BY <2>1, <2>2, FS_BoundedSetOfNaturals
<1>3. /\ n \in Nat /\ here \in [1..n -> Places(l, p)]
      /\ \A x \in Places(l, p) : \E k \in 1..n : here[k] = x
      /\ \A k, m \in 1..n : here[k] = here[m] => k = m
  BY <1>1, <1>2, AscendingIs
<1>4. t = [k \in 1..n |-> l[here[k]]]
  BY <1>1, <1>3 DEF At
<1>5. \A k \in 1..n : here[k] \in DOMAIN l /\ l[here[k]].path = p
  BY <1>3 DEF Places
<1>6. t \in [1..n -> Entry(I)] /\ \A k \in 1..n : t[k] = l[here[k]]
  BY <1>4, <1>5, ListingIs
<1>7. Len(t) = n /\ t \in Seq(Entry(I))
  BY <1>3, <1>6
<1>8. \A k \in 1..n : t[k].path = p /\ \E i \in DOMAIN l : t[k] = l[i]
  BY <1>5, <1>6
<1>9. \A i \in DOMAIN l : l[i].path = p => \E k \in 1..n : t[k] = l[i]
  BY <1>3, <1>6 DEF Places
<1>10. \A k, m \in 1..n : t[k].sid = t[m].sid => k = m
  BY <1>3, <1>5, <1>6, ListingIs
<1>11. t = <<>> <=> \A i \in DOMAIN l : l[i].path # p
  <2>1. t = <<>> <=> n = 0
    BY <1>3, <1>7
  <2>2. n = 0 => \A i \in DOMAIN l : l[i].path # p
    BY <1>9
  <2>3. n # 0 => \E i \in DOMAIN l : l[i].path = p
    <3> SUFFICES ASSUME n # 0 PROVE \E i \in DOMAIN l : l[i].path = p
      OBVIOUS
    <3>1. 1 \in 1..n
      BY <1>3
    <3> QED
      BY <1>5, <3>1
  <2> QED
    BY <2>1, <2>2, <2>3
<1> QED
  BY <1>1, <1>3, <1>6, <1>7, <1>8, <1>9, <1>10, <1>11

\* The folders are what the paths of the sessions begin with.
LEMMA FoldersAre ==
  ASSUME NEW I, NEW l \in Listing(I)
  PROVE  /\ \A q : q \in Folders(l) <=> q \in Path /\ Len(q) # 0 /\ \E i \in DOMAIN l : IsPrefix(q, l[i].path)
         /\ \A i \in DOMAIN l : l[i].path \in Folders(l)
         /\ \A p \in Path, q \in Folders(l) : Len(p) # 0 /\ IsPrefix(p, q) => p \in Folders(l)
         /\ \A q \in Folders(l) : q \in Path /\ Len(q) \in Nat \ {0}
<1>1. ASSUME NEW q \in Folders(l)
      PROVE  q \in Path /\ Len(q) # 0 /\ \E i \in DOMAIN l : IsPrefix(q, l[i].path)
  <2>1. PICK i \in DOMAIN l : \E n \in 1..Len(l[i].path) : q = SubSeq(l[i].path, 1, n)
    BY <1>1 DEF Folders
  <2>0. PICK n \in 1..Len(l[i].path) : q = SubSeq(l[i].path, 1, n)
    BY <2>1
  <2>2. l[i].path \in Path /\ Len(l[i].path) \in Nat
    BY ListingIs
  <2>3. n \in 0..Len(l[i].path) /\ n # 0
    BY <2>2
  <2> QED
    BY <2>0, <2>2, <2>3, StartIs
<1>2. ASSUME NEW q \in Path, Len(q) # 0, NEW i \in DOMAIN l, IsPrefix(q, l[i].path) PROVE q \in Folders(l)
  <2>1. l[i].path \in Path /\ Len(l[i].path) \in Nat /\ Len(q) \in Nat
    BY ListingIs DEF Path
  <2>2. Len(q) <= Len(l[i].path)
    BY <1>2, <2>1, PrefixIs
  <2>3. Len(q) \in 1..Len(l[i].path) /\ Len(q) \in 0..Len(l[i].path)
    BY <1>2, <2>1, <2>2
  <2>4. q = SubSeq(l[i].path, 1, Len(q))
    BY <1>2, <2>1, <2>3, StartIs
  <2>5. \E n \in 1..Len(l[i].path) : q = SubSeq(l[i].path, 1, n)
    BY <2>3, <2>4
  <2> QED
    BY <2>5 DEF Folders
<1>3. \A q : q \in Folders(l) <=> q \in Path /\ Len(q) # 0 /\ \E i \in DOMAIN l : IsPrefix(q, l[i].path)
  BY <1>1, <1>2
<1>4. \A i \in DOMAIN l : l[i].path \in Folders(l)
  BY <1>2, ListingIs, PrefixOrder
<1>5. ASSUME NEW p \in Path, NEW q \in Folders(l), Len(p) # 0, IsPrefix(p, q) PROVE p \in Folders(l)
  <2>1. PICK i \in DOMAIN l : IsPrefix(q, l[i].path)
    BY <1>1
  <2>2. IsPrefix(p, l[i].path)
    BY <1>1, <1>5, <2>1, ListingIs, PrefixOrder
  <2> QED
    BY <1>2, <1>5, <2>2
<1>6. \A q \in Folders(l) : q \in Path /\ Len(q) \in Nat \ {0}
  BY <1>1 DEF Path
<1> QED
  BY <1>3, <1>4, <1>5, <1>6

\* There are finitely many folders, of a certain depth at most.
LEMMA FoldersFinite ==
  ASSUME NEW I, NEW l \in Listing(I)
  PROVE  IsFiniteSet(Folders(l)) /\ \E m \in Nat : \A q \in Folders(l) : Len(q) <= m
<1> DEFINE Starts(i) == {SubSeq(l[i].path, 1, n) : n \in 1..Len(l[i].path)}
           Of(k) == UNION {Starts(i) : i \in 1..k}
           S == {k \in 0..Len(l) : IsFiniteSet(Of(k)) /\ \E m \in Nat : \A i \in 1..k : Len(l[i].path) <= m}
<1>1. Len(l) \in Nat /\ DOMAIN l = 1..Len(l) /\ \A i \in 1..Len(l) : Len(l[i].path) \in Nat
  BY ListingIs
<1>2. 0 \in S
  <2>1. Of(0) = {}
    OBVIOUS
  <2>2. IsFiniteSet(Of(0))
    BY <2>1, FS_EmptySet
  <2>3. \A i \in 1..0 : Len(l[i].path) <= 0
    OBVIOUS
  <2> QED
    BY <1>1, <2>2, <2>3
<1>3. ASSUME NEW k \in 0..Len(l)-1, k \in S PROVE k + 1 \in S
  <2>1. k + 1 \in 1..Len(l) /\ k + 1 \in 0..Len(l)
    BY <1>1
  <2>2. PICK c \in Nat : c = Len(l[k + 1].path)
    BY <1>1, <2>1
  <2>3. IsFiniteSet(Starts(k + 1))
    <3>1. PICK f : f = [n \in 1..c |-> SubSeq(l[k + 1].path, 1, n)]
      OBVIOUS
    <3>2. f \in Surjection(1..c, Starts(k + 1))
      BY <2>2, <3>1 DEF Surjection
    <3>3. 1 \in Int /\ c \in Int
      BY <2>2
    <3>4. IsFiniteSet(1..c)
      BY <3>3, FS_Interval
    <3> QED
      BY <3>2, <3>4, FS_Surjection
  <2>4. Of(k + 1) = Of(k) \cup Starts(k + 1)
    <3>1. 1..k+1 = (1..k) \cup {k + 1}
      BY <1>1
    <3>2. PICK J : J = 1..k
      OBVIOUS
    <3>3. UNION {Starts(i) : i \in J \cup {k + 1}} = (UNION {Starts(i) : i \in J}) \cup Starts(k + 1)
      OBVIOUS
    <3> QED
      BY <3>1, <3>2, <3>3
  <2>5. IsFiniteSet(Of(k))
    BY <1>3
  <2>6. IsFiniteSet(Of(k + 1))
    <3>1. PICK x, y : x = Of(k) /\ y = Starts(k + 1)
      OBVIOUS
    <3>2. IsFiniteSet(x \cup y)
      BY <2>3, <2>5, <3>1, FS_Union
    <3> QED
      BY <2>4, <3>1, <3>2, Zenon
  <2>7. PICK m \in Nat : \A i \in 1..k : Len(l[i].path) <= m
    BY <1>3
  <2>8. PICK o \in Nat : o = m + c
    OBVIOUS
  <2>9. ASSUME NEW i \in 1..k+1 PROVE Len(l[i].path) <= o
    <3>1. CASE i \in 1..k
      <4>1. Len(l[i].path) \in Nat
        BY <1>1, <3>1
      <4> QED
        BY <2>7, <2>8, <3>1, <4>1
    <3>2. CASE i = k + 1
      BY <2>2, <2>8, <3>2
    <3> QED
      BY <3>1, <3>2
  <2> QED
    BY <2>1, <2>6, <2>9
<1> HIDE DEF S
<1>4. 0..Len(l) \subseteq S
  BY <1>1, <1>2, <1>3, UpTo
<1>5. Len(l) \in S
  BY <1>1, <1>4
<1>6. PICK m \in Nat : \A i \in 1..Len(l) : Len(l[i].path) <= m
  BY <1>5 DEF S
<1>7. Folders(l) = Of(Len(l))
  BY <1>1 DEF Folders
<1>8. ASSUME NEW q \in Folders(l) PROVE Len(q) <= m
  <2>1. PICK i \in DOMAIN l : IsPrefix(q, l[i].path) /\ q \in Path /\ Len(q) \in Nat /\ l[i].path \in Path
    BY FoldersAre, ListingIs
  <2>2. Len(q) <= Len(l[i].path) /\ Len(l[i].path) <= m /\ Len(l[i].path) \in Nat
    BY <1>1, <1>6, <2>1, PrefixIs
  <2> QED
    BY <2>1, <2>2
<1> QED
  BY <1>5, <1>7, <1>8 DEF S

--------------------------------------------------------------------------------
\* What is below a folder is below one of its kids, and below no other.
LEMMA KidsAre ==
  ASSUME NEW I, NEW l \in Listing(I), NEW p \in Path
  PROVE  /\ Kids(l, p) \in SUBSET Path /\ IsFiniteSet(Kids(l, p))
         /\ \A k \in Kids(l, p) : k \in Folders(l) /\ Len(k) = Len(p) + 1 /\ IsPrefix(p, k) /\ IsStrictPrefix(p, k)
         /\ \A q \in Folders(l) : IsStrictPrefix(p, q) => \E k \in Kids(l, p) : IsPrefix(k, q)
         /\ \A j, k \in Kids(l, p), q \in Path : IsPrefix(j, q) /\ IsPrefix(k, q) => j = k
<1>1. Kids(l, p) \in SUBSET Path /\ IsFiniteSet(Kids(l, p))
  <2>1. Kids(l, p) \in SUBSET Folders(l) /\ Folders(l) \in SUBSET Path
    BY FoldersAre DEF Kids
  <2> QED
    BY <2>1, FoldersFinite, FS_Subset
<1>2. Len(p) \in Nat
  BY DEF Path
<1>3. ASSUME NEW k \in Kids(l, p)
      PROVE  k \in Folders(l) /\ Len(k) = Len(p) + 1 /\ IsPrefix(p, k) /\ IsStrictPrefix(p, k)
  BY <1>2 DEF Kids, IsStrictPrefix
<1>4. ASSUME NEW q \in Folders(l), IsStrictPrefix(p, q) PROVE \E k \in Kids(l, p) : IsPrefix(k, q)
  <2>1. q \in Path /\ Len(q) \in Nat /\ Len(p) < Len(q) /\ IsPrefix(p, q)
    BY <1>4, FoldersAre, PrefixOrder
  <2>2. PICK n \in 0..Len(q) : n = Len(p) + 1
    BY <1>2, <2>1
  <2>3. PICK k : k = SubSeq(q, 1, n)
    OBVIOUS
  <2>4. k \in Path /\ Len(k) = n /\ IsPrefix(k, q)
    BY <2>1, <2>3, StartIs
  <2>5. IsPrefix(p, k)
    BY <1>2, <2>1, <2>2, <2>4, PrefixOrder
  <2>6. k \in Folders(l)
    BY <1>2, <2>2, <2>4, FoldersAre
  <2> QED
    BY <2>2, <2>4, <2>5, <2>6 DEF Kids
<1>5. ASSUME NEW j \in Kids(l, p), NEW k \in Kids(l, p), NEW q \in Path, IsPrefix(j, q), IsPrefix(k, q)
      PROVE  j = k
  <2>1. j \in Path /\ k \in Path /\ Len(j) = Len(p) + 1 /\ Len(k) = Len(p) + 1
    BY <1>1, <1>3
  <2>2. Len(j) <= Len(k) /\ Len(k) <= Len(j)
    BY <1>2, <2>1
  <2>3. IsPrefix(j, k)
    BY <1>5, <2>1, <2>2, PrefixOrder
  <2> QED
    BY <2>1, <2>2, <2>3, PrefixOrder
<1> QED
  BY <1>1, <1>3, <1>4, <1>5

\* Whatever is below a folder leads to a folder that holds a session.
LEMMA KeepIs ==
  ASSUME NEW I, NEW l \in Listing(I), NEW p \in Path
  PROVE  /\ Keep(l, p) \in SUBSET Path /\ IsFiniteSet(Keep(l, p))
         /\ \A q : q \in Keep(l, p) <=> q \in Folders(l) /\ IsStrictPrefix(p, q) /\ At(l, q) # <<>>
         /\ Elided(l, p) => Keep(l, p) # {}
<1>1. \A q : q \in Keep(l, p) <=> q \in Folders(l) /\ IsStrictPrefix(p, q) /\ At(l, q) # <<>>
  BY DEF Keep, Below
<1>2. Keep(l, p) \in SUBSET Path /\ IsFiniteSet(Keep(l, p))
  <2>1. Keep(l, p) \in SUBSET Folders(l) /\ Folders(l) \in SUBSET Path
    BY <1>1, FoldersAre
  <2> QED
    BY <2>1, FoldersFinite, FS_Subset
<1>3. ASSUME Elided(l, p) PROVE Keep(l, p) # {}
  <2>1. PICK q \in Folders(l) : IsStrictPrefix(p, q)
    BY <1>3 DEF Elided, Below
  <2>2. PICK i \in DOMAIN l : IsPrefix(q, l[i].path) /\ q \in Path
    BY FoldersAre
  <2>3. l[i].path \in Folders(l) /\ l[i].path \in Path
    BY FoldersAre, ListingIs
  <2>4. IsStrictPrefix(p, l[i].path)
    BY <2>1, <2>2, <2>3, PrefixOrder
  <2>5. At(l, l[i].path) # <<>>
    BY AtIs
  <2> QED
    BY <1>1, <2>3, <2>4, <2>5
<1> QED
  BY <1>1, <1>2, <1>3

--------------------------------------------------------------------------------
\* Walk is the one function that says of a folder what it says of its kids.
Rows(l, folded, w, p) ==
  LET kids == InOrder(Kids(l, p)) IN
  <<FolderRow(p, Len(p) - 1, kids # <<>>)>>
    \o SessionsOf(l, p, Len(p))
    \o IF p \in folded
         THEN Survivors(l, p)
         ELSE FlattenSeq([i \in DOMAIN kids |-> w[kids[i]]])

LEMMA WalkDef ==
  ASSUME NEW l, NEW folded
  PROVE  Walk(l, folded) = CHOOSE w : w = [p \in Folders(l) |-> Rows(l, folded, w, p)]
  BY DEF Walk, Rows

LEMMA RowsOfKids ==
  ASSUME NEW I, NEW l \in Listing(I), NEW folded, NEW p \in Path, NEW w, NEW x, \A k \in Kids(l, p) : w[k] = x[k]
  PROVE  Rows(l, folded, w, p) = Rows(l, folded, x, p)
<1>1. PICK kids : kids = InOrder(Kids(l, p))
  OBVIOUS
<1>2. \A i \in DOMAIN kids : kids[i] \in Kids(l, p)
  <2>1. Kids(l, p) \in SUBSET Path /\ IsFiniteSet(Kids(l, p))
    BY KidsAre
  <2>2. kids \in [1..Cardinality(Kids(l, p)) -> Kids(l, p)]
    BY <1>1, <2>1, InOrderIs
  <2> QED
    BY <2>2
<1>3. [i \in DOMAIN kids |-> w[kids[i]]] = [i \in DOMAIN kids |-> x[kids[i]]]
  BY <1>2
<1> QED
  BY <1>1, <1>3 DEF Rows

LEMMA WalkExists ==
  ASSUME NEW I, NEW l \in Listing(I), NEW folded
  PROVE  \E w : w = [p \in Folders(l) |-> Rows(l, folded, w, p)]
<1>1. PICK m \in Nat : \A q \in Folders(l) : Len(q) <= m
  BY FoldersFinite
<1> DEFINE Deep(k) == {q \in Folders(l) : Len(q) > m - k}
           S == {k \in 0..m : \E w : w = [p \in Deep(k) |-> Rows(l, folded, w, p)]}
<1>2. \A q \in Folders(l) : q \in Path /\ Len(q) \in Nat \ {0}
  BY FoldersAre
<1>3. 0 \in S
  <2>1. Deep(0) = {}
    BY <1>1, <1>2
  <2>2. PICK w : w = [p \in {} |-> Rows(l, folded, <<>>, p)]
    OBVIOUS
  <2>3. w = [p \in {} |-> Rows(l, folded, w, p)]
    BY <2>2
  <2>4. \E x : x = [p \in Deep(0) |-> Rows(l, folded, x, p)]
    BY <2>1, <2>3
  <2>5. 0 \in 0..m
    OBVIOUS
  <2> HIDE DEF Deep
  <2> QED
    BY <2>4, <2>5, Zenon
<1>4. ASSUME NEW k \in 0..m-1, k \in S PROVE k + 1 \in S
  <2>1. PICK w : w = [p \in Deep(k) |-> Rows(l, folded, w, p)]
    BY <1>4
  <2>2. \A p \in Deep(k) : w[p] = Rows(l, folded, w, p)
    BY <2>1
  <2>3. Deep(k) \subseteq Deep(k + 1) /\ \A p \in Deep(k + 1) : \A q \in Kids(l, p) : q \in Deep(k)
    <3>1. ASSUME NEW p \in Deep(k) PROVE p \in Deep(k + 1)
      BY <1>2
    <3>2. ASSUME NEW p \in Deep(k + 1), NEW q \in Kids(l, p) PROVE q \in Deep(k)
      <4>1. q \in Folders(l) /\ Len(q) = Len(p) + 1 /\ Len(p) \in Nat /\ Len(p) > m - (k + 1)
        BY <1>2, KidsAre
      <4> QED
        BY <4>1
    <3> QED
      BY <3>1, <3>2
  <2>4. PICK x : x = [p \in Deep(k + 1) |-> IF p \in Deep(k) THEN w[p] ELSE Rows(l, folded, w, p)]
    OBVIOUS
  <2>5. \A p \in Deep(k) : x[p] = w[p]
    BY <2>3, <2>4
  <2>6. \A p \in Deep(k + 1) : x[p] = Rows(l, folded, w, p)
    BY <2>2, <2>4
  <2>7. \A p \in Deep(k + 1) : Rows(l, folded, w, p) = Rows(l, folded, x, p)
    <3> SUFFICES ASSUME NEW p \in Deep(k + 1) PROVE Rows(l, folded, w, p) = Rows(l, folded, x, p)
      OBVIOUS
    <3>1. \A q \in Kids(l, p) : w[q] = x[q]
      BY <2>3, <2>5
    <3>2. p \in Path
      BY <1>2
    <3> QED
      BY <3>1, <3>2, RowsOfKids
  <2> HIDE DEF Deep
  <2>8. x = [p \in Deep(k + 1) |-> Rows(l, folded, x, p)]
    BY <2>4, <2>6, <2>7
  <2>9. \E y : y = [p \in Deep(k + 1) |-> Rows(l, folded, y, p)]
    BY <2>8, Zenon
  <2>10. k + 1 \in 0..m
    OBVIOUS
  <2> QED
    BY <2>9, <2>10, Zenon
<1> HIDE DEF S
<1>5. 0..m \subseteq S
  BY <1>3, <1>4, UpTo
<1>6. m \in S
  BY <1>5
<1>7. Deep(m) = Folders(l)
  BY <1>2
<1> HIDE DEF Deep
<1>8. \E w : w = [p \in Deep(m) |-> Rows(l, folded, w, p)]
  BY <1>6 DEF S
<1> QED
  BY <1>7, <1>8

LEMMA WalkIs ==
  ASSUME NEW I, NEW l \in Listing(I), NEW folded, NEW p \in Folders(l)
  PROVE  Walk(l, folded)[p] = Rows(l, folded, Walk(l, folded), p)
<1>1. PICK w : w = Walk(l, folded)
  OBVIOUS
<1>2. w = [q \in Folders(l) |-> Rows(l, folded, w, q)]
  BY <1>1, WalkDef, WalkExists
<1>3. w[p] = Rows(l, folded, w, p)
  BY <1>2
<1> QED
  BY <1>1, <1>3

--------------------------------------------------------------------------------
\* The rows of a tree: every folder with its sessions right under it, and no folder twice.
TreeRow(I) ==
  {x \in [kind : {"folder", "elide", "session"}, path : Path, sid : I \cup {None}, depth : Nat,
          hasSub : BOOLEAN] : x.hasSub => x.kind = "folder"}

IsFolder(t, f) == f \in DOMAIN t /\ t[f].kind = "folder"

Grouped(l, t) ==
  /\ \A f : IsFolder(t, f) =>
       \A k \in 1..Len(At(l, t[f].path)) :
          f + k \in DOMAIN t /\ t[f + k] = SessionRow(At(l, t[f].path)[k], t[f].depth + 1)
  /\ \A r \in DOMAIN t : t[r].kind = "session" =>
       \E f : IsFolder(t, f) /\ r - f \in 1..Len(At(l, t[f].path))
  /\ \A f, g : IsFolder(t, f) /\ IsFolder(t, g) /\ t[f].path = t[g].path => f = g
  /\ \A r \in DOMAIN t : t[r].kind # "session" => t[r].sid = None

Named(t) == {t[f].path : f \in {i \in DOMAIN t : t[i].kind = "folder"}}

\* Lists of rows that hold different folders...
AllGrouped(l, s, n) ==
  /\ \A k \in 1..n : Grouped(l, s[k])
  /\ \A j, k \in 1..n : j # k => Named(s[j]) \cap Named(s[k]) = {}

\* ... one after the other.
GroupedFrom(l, t, s, n) ==
  /\ Grouped(l, t)
  /\ \A q : q \in Named(t) <=> \E k \in 1..n : q \in Named(s[k])

LEMMA FlatGrouped ==
  ASSUME NEW I, NEW l \in Listing(I), NEW n \in Nat, NEW s \in [1..n -> Seq(TreeRow(I))],
         NEW t \in Seq(TreeRow(I)), NEW off, IsFlat(t, s, n, off), AllGrouped(l, s, n)
  PROVE  GroupedFrom(l, t, s, n)
<1>0. /\ \A k \in 1..n : Grouped(l, s[k])
      /\ \A j, k \in 1..n : j # k => Named(s[j]) \cap Named(s[k]) = {}
  BY DEF AllGrouped
<1>1. DOMAIN t = 1..Len(t) /\ Len(t) \in Nat /\ \A k \in 1..n : DOMAIN s[k] = 1..Len(s[k]) /\ Len(s[k]) \in Nat
  OBVIOUS
<1>2. \A k \in 1..n : off[k] \in Nat
  BY DEF IsFlat
<1>3. \A k \in 1..n : \A j \in DOMAIN s[k] : off[k] + j \in DOMAIN t /\ t[off[k] + j] = s[k][j]
  BY <1>1 DEF IsFlat
<1>4. \A i \in DOMAIN t : \E k \in 1..n : \E j \in DOMAIN s[k] : i = off[k] + j /\ t[i] = s[k][j]
  <2> SUFFICES ASSUME NEW i \in DOMAIN t
               PROVE  \E k \in 1..n : \E j \in DOMAIN s[k] : i = off[k] + j /\ t[i] = s[k][j]
    OBVIOUS
  <2>1. PICK k \in 1..n : i - off[k] \in 1..Len(s[k]) /\ t[i] = s[k][i - off[k]]
    BY <1>1 DEF IsFlat
  <2>2. i = off[k] + (i - off[k])
    BY <1>1, <1>2
  <2> QED
    BY <1>1, <2>1, <2>2
<1>5. \A f : IsFolder(t, f) => \E k \in 1..n : \E j : f = off[k] + j /\ IsFolder(s[k], j) /\ t[f] = s[k][j]
  BY <1>4 DEF IsFolder
<1>6. \A k \in 1..n : \A j : IsFolder(s[k], j) => IsFolder(t, off[k] + j) /\ t[off[k] + j] = s[k][j]
  BY <1>3 DEF IsFolder
<1>7. ASSUME NEW f, IsFolder(t, f), NEW m \in 1..Len(At(l, t[f].path))
      PROVE  f + m \in DOMAIN t /\ t[f + m] = SessionRow(At(l, t[f].path)[m], t[f].depth + 1)
  <2>1. PICK k \in 1..n : \E j : f = off[k] + j /\ IsFolder(s[k], j) /\ t[f] = s[k][j]
    BY <1>5, <1>7
  <2>2. PICK j : f = off[k] + j /\ IsFolder(s[k], j) /\ t[f] = s[k][j]
    BY <2>1
  <2>3. j + m \in DOMAIN s[k] /\ s[k][j + m] = SessionRow(At(l, t[f].path)[m], t[f].depth + 1)
    BY <1>0, <1>7, <2>2 DEF Grouped
  <2>4. j \in Nat /\ m \in Nat /\ off[k] \in Nat
    <3>1. j \in DOMAIN s[k]
      BY <2>2 DEF IsFolder
    <3>2. Len(At(l, t[f].path)) \in Nat
      BY AtIs
    <3> QED
      BY <1>1, <1>2, <3>1, <3>2
  <2>5. f + m = off[k] + (j + m)
    BY <2>2, <2>4
  <2> QED
    BY <1>3, <2>3, <2>5
<1>8. ASSUME NEW r \in DOMAIN t, t[r].kind = "session"
      PROVE  \E f : IsFolder(t, f) /\ r - f \in 1..Len(At(l, t[f].path))
  <2>1. PICK k \in 1..n : \E j \in DOMAIN s[k] : r = off[k] + j /\ t[r] = s[k][j]
    BY <1>4
  <2>2. PICK j \in DOMAIN s[k] : r = off[k] + j /\ t[r] = s[k][j]
    BY <2>1
  <2>3. PICK f : IsFolder(s[k], f) /\ j - f \in 1..Len(At(l, s[k][f].path))
    BY <1>0, <1>8, <2>2 DEF Grouped
  <2>4. IsFolder(t, off[k] + f) /\ t[off[k] + f] = s[k][f]
    BY <1>6, <2>3
  <2>5. r - (off[k] + f) = j - f
    BY <1>1, <1>2, <2>2, <2>3 DEF IsFolder
  <2> QED
    BY <2>3, <2>4, <2>5
<1>9. ASSUME NEW f, NEW g, IsFolder(t, f), IsFolder(t, g), t[f].path = t[g].path PROVE f = g
  <2>1. PICK k \in 1..n : \E j : f = off[k] + j /\ IsFolder(s[k], j) /\ t[f] = s[k][j]
    BY <1>5, <1>9
  <2>2. PICK j : f = off[k] + j /\ IsFolder(s[k], j) /\ t[f] = s[k][j]
    BY <2>1
  <2>3. PICK h \in 1..n : \E i : g = off[h] + i /\ IsFolder(s[h], i) /\ t[g] = s[h][i]
    BY <1>5, <1>9
  <2>4. PICK i : g = off[h] + i /\ IsFolder(s[h], i) /\ t[g] = s[h][i]
    BY <2>3
  <2>5. t[f].path \in Named(s[k]) /\ t[f].path \in Named(s[h])
    BY <1>9, <2>2, <2>4 DEF Named, IsFolder
  <2>6. k = h
    BY <1>0, <2>5
  <2>7. i = j
    BY <1>0, <1>9, <2>2, <2>4, <2>6 DEF Grouped
  <2> QED
    BY <2>2, <2>4, <2>6, <2>7
<1>10. ASSUME NEW r \in DOMAIN t, t[r].kind # "session" PROVE t[r].sid = None
  <2>1. PICK k \in 1..n : \E j \in DOMAIN s[k] : r = off[k] + j /\ t[r] = s[k][j]
    BY <1>4
  <2> QED
    BY <1>0, <1>10, <2>1 DEF Grouped
<1>11. \A q : q \in Named(t) <=> \E f : IsFolder(t, f) /\ t[f].path = q
  BY DEF Named, IsFolder
<1>12. \A q, k : q \in Named(s[k]) <=> \E f : IsFolder(s[k], f) /\ s[k][f].path = q
  BY DEF Named, IsFolder
<1>13. \A q : q \in Named(t) <=> \E k \in 1..n : q \in Named(s[k])
  <2>1. ASSUME NEW q, q \in Named(t) PROVE \E k \in 1..n : q \in Named(s[k])
    <3>1. PICK f : IsFolder(t, f) /\ t[f].path = q
      BY <1>11, <2>1
    <3>2. PICK k \in 1..n : \E j : IsFolder(s[k], j) /\ s[k][j].path = q
      BY <1>5, <3>1
    <3> QED
      BY <1>12, <3>2
  <2>2. ASSUME NEW q, NEW k \in 1..n, q \in Named(s[k]) PROVE q \in Named(t)
    <3>1. PICK j : IsFolder(s[k], j) /\ s[k][j].path = q
      BY <1>12, <2>2
    <3>2. IsFolder(t, off[k] + j) /\ t[off[k] + j].path = q
      BY <1>6, <3>1
    <3> QED
      BY <1>11, <3>2
  <2> QED
    BY <2>1, <2>2
<1>14. Grouped(l, t)
  BY <1>7, <1>8, <1>9, <1>10 DEF Grouped
<1> QED
  BY <1>13, <1>14 DEF GroupedFrom

\* A list of rows ends with a row that stands for something.
EndsNamed(t) == Len(t) # 0 => t[Len(t)].kind # "elide"

EndsAsOne(t, s, n) == \E k \in 1..n : Len(s[k]) # 0 /\ t[Len(t)] = s[k][Len(s[k])]

LEMMA FlatLast ==
  ASSUME NEW X, NEW n \in Nat, NEW s \in [1..n -> Seq(X)], NEW t \in Seq(X), NEW off, IsFlat(t, s, n, off),
         Len(t) # 0
  PROVE  EndsAsOne(t, s, n)
<1>1. Len(t) \in 1..Len(t)
  OBVIOUS
<1>2. PICK k \in 1..n : Len(t) - off[k] \in 1..Len(s[k]) /\ t[Len(t)] = s[k][Len(t) - off[k]]
  BY <1>1 DEF IsFlat
<1>3. Len(s[k]) \in Nat /\ Len(t) \in Nat /\ off[k] \in Nat
  BY DEF IsFlat
<1>4. Len(s[k]) \in 1..Len(s[k])
  BY <1>2, <1>3
<1>5. off[k] + Len(s[k]) \in 1..Len(t)
  BY <1>4 DEF IsFlat
<1>6. Len(t) - off[k] = Len(s[k])
  BY <1>2, <1>3, <1>5
<1>7. Len(s[k]) # 0
  BY <1>3, <1>4
<1> QED
  BY <1>2, <1>6, <1>7 DEF EndsAsOne

LEMMA FlatEnds ==
  ASSUME NEW X, NEW n \in Nat, NEW s \in [1..n -> Seq(X)], NEW t \in Seq(X), NEW off, IsFlat(t, s, n, off),
         \A k \in 1..n : EndsNamed(s[k])
  PROVE  EndsNamed(t)
<1> SUFFICES ASSUME Len(t) # 0 PROVE t[Len(t)].kind # "elide"
  BY DEF EndsNamed
<1>1. EndsAsOne(t, s, n)
  BY FlatLast
<1> QED
  BY <1>1 DEF EndsAsOne, EndsNamed

\* The same of two.
LEMMA PairIsFlat ==
  ASSUME NEW X, NEW u \in Seq(X), NEW v \in Seq(X)
  PROVE  u \o v \in Seq(X) /\ \E off, s : s \in [1..2 -> Seq(X)] /\ s[1] = u /\ s[2] = v /\ IsFlat(u \o v, s, 2, off)
<1>1. PICK s : s = [k \in 1..2 |-> IF k = 1 THEN u ELSE v]
  OBVIOUS
<1>2. s \in [1..2 -> Seq(X)] /\ s[1] = u /\ s[2] = v
  BY <1>1
<1>3. PICK off : IsFlat(u, s, 1, off)
  BY <1>2, FlatFirst
<1>4. s[1 + 1] \in Seq(X) /\ (\A k \in 1..1 : s[k] \in Seq(X)) /\ 1 \in Nat \ {0} /\ 1 + 1 = 2
  BY <1>2
<1>5. PICK new : IsFlat(u \o s[1 + 1], s, 1 + 1, new)
  BY <1>3, <1>4, FlatNext
<1>6. IsFlat(u \o v, s, 2, new)
  BY <1>2, <1>4, <1>5
<1> QED
  BY <1>2, <1>6

LEMMA PairGrouped ==
  ASSUME NEW I, NEW l \in Listing(I), NEW u \in Seq(TreeRow(I)), NEW v \in Seq(TreeRow(I)),
         Grouped(l, u), Grouped(l, v), Named(u) \cap Named(v) = {}
  PROVE  u \o v \in Seq(TreeRow(I)) /\ Grouped(l, u \o v) /\ Named(u \o v) = Named(u) \cup Named(v)
<1>0. PICK off, s : s \in [1..2 -> Seq(TreeRow(I))] /\ s[1] = u /\ s[2] = v /\ IsFlat(u \o v, s, 2, off)
  BY PairIsFlat
<1>1. PICK t, n : /\ n = 2 /\ t = u \o v /\ s \in [1..n -> Seq(TreeRow(I))] /\ s[1] = u /\ s[2] = v
                  /\ IsFlat(t, s, n, off)
  BY <1>0
<1>2. t \in Seq(TreeRow(I)) /\ n \in Nat
  BY <1>1
<1>3. (\A k \in 1..n : k = 1 \/ k = 2) /\ 1 \in 1..n /\ 2 \in 1..n
  BY <1>1
<1>4. AllGrouped(l, s, n)
  BY <1>1, <1>3 DEF AllGrouped
<1>5. GroupedFrom(l, t, s, n)
  BY <1>1, <1>2, <1>4, FlatGrouped
<1>6. \A q : q \in Named(t) <=> q \in Named(u) \/ q \in Named(v)
  BY <1>1, <1>3, <1>5 DEF GroupedFrom
<1> QED
  BY <1>1, <1>2, <1>5, <1>6 DEF GroupedFrom

LEMMA PairEnds ==
  ASSUME NEW X, NEW u \in Seq(X), NEW v \in Seq(X), EndsNamed(v), v = <<>> => EndsNamed(u)
  PROVE  EndsNamed(u \o v)
<1>1. /\ Len(u) \in Nat /\ Len(v) \in Nat /\ Len(u \o v) = Len(u) + Len(v)
      /\ \A i \in 1..Len(u) + Len(v) : (u \o v)[i] = IF i <= Len(u) THEN u[i] ELSE v[i - Len(u)]
  BY ConcatProperties
<1>2. CASE v = <<>>
  BY <1>2, ConcatEmptySeq
<1>3. CASE v # <<>>
  <2>1. Len(v) \in Nat \ {0}
    BY <1>3, EmptySeq
  <2>2. PICK i : i = Len(u) + Len(v)
    OBVIOUS
  <2>3. i \in 1..Len(u) + Len(v) /\ ~(i <= Len(u)) /\ i - Len(u) = Len(v)
    BY <1>1, <2>1, <2>2
  <2>4. (u \o v)[i] = v[Len(v)]
    BY <1>1, <2>3
  <2> QED
    BY <1>1, <2>1, <2>2, <2>4 DEF EndsNamed
<1> QED
  BY <1>2, <1>3

\* A folder and its sessions.
GroupOf(l, q, depth, hasSub) == <<FolderRow(q, depth, hasSub)>> \o SessionsOf(l, q, depth + 1)

GroupedUnder(I, l, q, top, t) ==
  /\ t \in Seq(TreeRow(I)) /\ Grouped(l, t) /\ Named(t) = {q} /\ EndsNamed(t)
  /\ Len(t) \in Nat \ {0} /\ t[1] = top

LEMMA GroupIs ==
  ASSUME NEW I, NEW l \in Listing(I), NEW q \in Path, NEW depth \in Nat, NEW hasSub \in BOOLEAN
  PROVE  GroupedUnder(I, l, q, FolderRow(q, depth, hasSub), GroupOf(l, q, depth, hasSub))
<1>1. PICK t, here, n : t = GroupOf(l, q, depth, hasSub) /\ here = At(l, q) /\ n = Len(here)
  OBVIOUS
<1>2. /\ n \in Nat /\ here \in [1..n -> Entry(I)]
      /\ \A k \in 1..n : here[k] \in Entry(I) /\ here[k].path = q
  BY <1>1, AtIs
<1>3. PICK top, rest : top = <<FolderRow(q, depth, hasSub)>> /\ rest = SessionsOf(l, q, depth + 1)
  OBVIOUS
<1>4. FolderRow(q, depth, hasSub) \in TreeRow(I)
  BY DEF FolderRow, TreeRow
<1>5. top \in Seq(TreeRow(I)) /\ Len(top) = 1 /\ top[1] = FolderRow(q, depth, hasSub)
  BY <1>3, <1>4
<1>6. rest = [k \in 1..n |-> SessionRow(here[k], depth + 1)]
  BY <1>1, <1>2, <1>3 DEF SessionsOf
<1>7. \A k \in 1..n : SessionRow(here[k], depth + 1) \in TreeRow(I)
  <2> SUFFICES ASSUME NEW k \in 1..n PROVE SessionRow(here[k], depth + 1) \in TreeRow(I)
    OBVIOUS
  <2>1. here[k].sid \in I /\ here[k].path \in Path
    BY <1>2 DEF Entry
  <2> QED
    BY <2>1 DEF SessionRow, TreeRow
<1>8. rest \in Seq(TreeRow(I)) /\ Len(rest) = n /\ \A k \in 1..n : rest[k] = SessionRow(here[k], depth + 1)
  BY <1>2, <1>6, <1>7
<1>9. t = top \o rest
  BY <1>1, <1>3 DEF GroupOf
<1>10. /\ t \in Seq(TreeRow(I)) /\ Len(t) = n + 1 /\ DOMAIN t = 1..n+1
       /\ t[1] = FolderRow(q, depth, hasSub)
       /\ \A k \in 1..n : t[k + 1] = SessionRow(here[k], depth + 1)
  <2>1. /\ t \in Seq(TreeRow(I)) /\ Len(t) = 1 + n
        /\ \A i \in 1..1+n : t[i] = IF i <= 1 THEN top[i] ELSE rest[i - 1]
    <3>1. /\ top \o rest \in Seq(TreeRow(I)) /\ Len(top \o rest) = Len(top) + Len(rest)
          /\ \A i \in 1..Len(top) + Len(rest) :
               (top \o rest)[i] = IF i <= Len(top) THEN top[i] ELSE rest[i - Len(top)]
      BY <1>5, <1>8, ConcatProperties
    <3>2. Len(top) = 1 /\ Len(rest) = n
      BY <1>5, <1>8
    <3> QED
      BY <1>9, <3>1, <3>2
  <2>2. ASSUME NEW k \in 1..n PROVE t[k + 1] = SessionRow(here[k], depth + 1)
    <3>1. k + 1 \in 1..1+n /\ ~(k + 1 <= 1) /\ k + 1 - 1 = k
      BY <1>2
    <3>2. t[k + 1] = rest[k]
      BY <2>1, <3>1
    <3> QED
      BY <1>8, <3>2
  <2>3. t[1] = top[1]
    BY <1>2, <2>1
  <2>4. Len(t) = n + 1
    BY <1>2, <2>1
  <2>5. DOMAIN t = 1..n+1
    BY <2>1, <2>4
  <2> QED
    BY <1>5, <2>1, <2>2, <2>3, <2>4, <2>5
<1>11. t[1].kind = "folder" /\ t[1].path = q /\ t[1].depth = depth /\ t[1].sid = None
  BY <1>10 DEF FolderRow
<1>12. ASSUME NEW i \in DOMAIN t, i # 1
       PROVE  i - 1 \in 1..n /\ t[i] = SessionRow(here[i - 1], depth + 1) /\ t[i].kind = "session"
  <2>1. i - 1 \in 1..n /\ i = (i - 1) + 1
    BY <1>2, <1>10, <1>12
  <2>2. t[i] = SessionRow(here[i - 1], depth + 1)
    BY <1>10, <2>1
  <2> QED
    BY <2>1, <2>2 DEF SessionRow
<1>13. \A f : IsFolder(t, f) <=> f = 1
  BY <1>2, <1>10, <1>11, <1>12 DEF IsFolder
<1>14. Named(t) = {q}
  <2>1. \A p : p \in Named(t) <=> \E f : IsFolder(t, f) /\ t[f].path = p
    BY DEF Named, IsFolder
  <2> QED
    BY <1>11, <1>13, <2>1
<1>15. Grouped(l, t)
  <2>1. ASSUME NEW k \in 1..n
        PROVE  1 + k \in DOMAIN t /\ t[1 + k] = SessionRow(here[k], t[1].depth + 1)
    BY <1>2, <1>10, <1>11
  <2>2. ASSUME NEW r \in DOMAIN t, t[r].kind = "session"
        PROVE  IsFolder(t, 1) /\ r - 1 \in 1..Len(At(l, t[1].path))
    <3>1. r # 1
      BY <1>11, <2>2
    <3> QED
      BY <1>1, <1>11, <1>12, <1>13, <3>1
  <2>3. \A r \in DOMAIN t : t[r].kind # "session" => t[r].sid = None
    BY <1>11, <1>12
  <2> QED
    BY <1>1, <1>11, <1>13, <2>1, <2>2, <2>3 DEF Grouped
<1>16. EndsNamed(t)
  <2>1. n + 1 \in DOMAIN t
    BY <1>2, <1>10
  <2> QED
    BY <1>10, <1>11, <1>12, <2>1 DEF EndsNamed
<1>17. Len(t) \in Nat \ {0}
  BY <1>2, <1>10
<1> QED
  BY <1>1, <1>10, <1>14, <1>15, <1>16, <1>17 DEF GroupedUnder

--------------------------------------------------------------------------------
\* What is left of a folded folder is the folders below it that hold sessions.
LEMMA ElideIs ==
  ASSUME NEW I, NEW l, NEW p \in Path, NEW u, u = <<ElideRow(Len(p))>> \/ u = <<>>
  PROVE  u \in Seq(TreeRow(I)) /\ Grouped(l, u) /\ Named(u) = {} /\ (u = <<>> => EndsNamed(u))
<1>1. ElideRow(Len(p)) \in TreeRow(I)
  <2>1. Len(p) \in Nat /\ <<>> \in Path
    BY DEF Path
  <2> QED
    BY <2>1 DEF ElideRow, TreeRow
<1>2. u \in Seq(TreeRow(I)) /\ \A i \in DOMAIN u : u[i] = ElideRow(Len(p))
  <2>1. CASE u = <<ElideRow(Len(p))>>
    BY <1>1, <2>1
  <2>2. CASE u = <<>>
    BY <2>2
  <2> QED
    BY <2>1, <2>2
<1>3. \A i \in DOMAIN u : u[i].kind = "elide" /\ u[i].sid = None
  BY <1>2 DEF ElideRow
<1>4. \A f : ~IsFolder(u, f)
  BY <1>3 DEF IsFolder
<1>5. Grouped(l, u)
  BY <1>3, <1>4 DEF Grouped
<1>6. Named(u) = {}
  BY <1>3 DEF Named
<1>7. u = <<>> => EndsNamed(u)
  BY DEF EndsNamed
<1> QED
  BY <1>2, <1>5, <1>6, <1>7

LEMMA SurvivorsAre ==
  ASSUME NEW I, NEW l \in Listing(I), NEW p \in Path
  PROVE  LET t == Survivors(l, p)
         IN  t \in Seq(TreeRow(I)) /\ Grouped(l, t) /\ Named(t) = Keep(l, p) /\ EndsNamed(t)
<1>1. PICK base, kept, n : /\ base = Len(p) + (IF Elided(l, p) THEN 1 ELSE 0)
                           /\ kept = InOrder(Keep(l, p)) /\ n = Cardinality(Keep(l, p))
  OBVIOUS
<1>2. base \in Nat
  BY <1>1 DEF Path
<1>3. /\ n \in Nat /\ kept \in [1..n -> Keep(l, p)]
      /\ \A x \in Keep(l, p) : \E i \in 1..n : kept[i] = x
      /\ \A i, j \in 1..n : kept[i] = kept[j] => i = j
      /\ Keep(l, p) \in SUBSET Path
  BY <1>1, KeepIs, InOrderIs
<1>4. PICK s : s = [i \in 1..n |-> GroupOf(l, kept[i], base, FALSE)]
  OBVIOUS
<1>5. PICK u, v : /\ u = (IF Elided(l, p) THEN <<ElideRow(Len(p))>> ELSE <<>>)
                  /\ v = FlattenSeq(s)
  OBVIOUS
<1>6. Survivors(l, p) = u \o v
  <2>1. DOMAIN kept = 1..n
    BY <1>3
  <2> QED
    BY <1>1, <1>4, <1>5, <2>1 DEF Survivors, GroupOf
<1>7. \A i \in 1..n : /\ s[i] \in Seq(TreeRow(I)) /\ Grouped(l, s[i]) /\ Named(s[i]) = {kept[i]} /\ EndsNamed(s[i])
  <2> SUFFICES ASSUME NEW i \in 1..n
               PROVE  s[i] \in Seq(TreeRow(I)) /\ Grouped(l, s[i]) /\ Named(s[i]) = {kept[i]} /\ EndsNamed(s[i])
    OBVIOUS
  <2>1. PICK q \in Path, h \in BOOLEAN, d \in Nat : q = kept[i] /\ h = FALSE /\ d = base
    <3>1. PICK h \in BOOLEAN : h = FALSE
      OBVIOUS
    <3> QED
      BY <1>2, <1>3, <3>1
  <2>2. s[i] = GroupOf(l, q, d, h)
    BY <1>4, <2>1
  <2>3. GroupedUnder(I, l, q, FolderRow(q, d, h), s[i])
    BY <2>2, GroupIs
  <2> QED
    BY <2>1, <2>3 DEF GroupedUnder
<1>8. s \in [1..n -> Seq(TreeRow(I))]
  BY <1>4, <1>7
<1>9. AllGrouped(l, s, n)
  <2>1. ASSUME NEW j \in 1..n, NEW k \in 1..n, j # k PROVE Named(s[j]) \cap Named(s[k]) = {}
    <3>1. Named(s[j]) = {kept[j]} /\ Named(s[k]) = {kept[k]} /\ kept[j] # kept[k]
      BY <1>3, <1>7, <2>1
    <3> QED
      BY <3>1
  <2> QED
    BY <1>7, <2>1 DEF AllGrouped
<1>10. PICK off : v \in Seq(TreeRow(I)) /\ IsFlat(v, s, n, off)
  BY <1>3, <1>5, <1>8, FlattenPlaces
<1>11. GroupedFrom(l, v, s, n) /\ EndsNamed(v)
  <2>1. GroupedFrom(l, v, s, n)
    BY <1>3, <1>8, <1>9, <1>10, FlatGrouped
  <2>2. EndsNamed(v)
    BY <1>3, <1>7, <1>8, <1>10, FlatEnds
  <2> QED
    BY <2>1, <2>2
<1>12. \A q : q \in Named(v) <=> q \in Keep(l, p)
  <2>1. ASSUME NEW q PROVE q \in Named(v) <=> \E k \in 1..n : q = kept[k]
    <3>1. q \in Named(v) <=> \E k \in 1..n : q \in Named(s[k])
      BY <1>11 DEF GroupedFrom
    <3>2. \A k \in 1..n : q \in Named(s[k]) <=> q = kept[k]
      BY <1>7
    <3> QED
      BY <3>1, <3>2
  <2> QED
    BY <1>3, <2>1
<1>13. /\ u \in Seq(TreeRow(I)) /\ Grouped(l, u) /\ Named(u) = {} /\ (u = <<>> => EndsNamed(u))
  BY <1>5, ElideIs
<1>14. u \o v \in Seq(TreeRow(I)) /\ Grouped(l, u \o v) /\ Named(u \o v) = Named(u) \cup Named(v)
  <2>1. /\ u \in Seq(TreeRow(I)) /\ v \in Seq(TreeRow(I))
        /\ Grouped(l, u) /\ Grouped(l, v) /\ Named(u) \cap Named(v) = {}
    BY <1>10, <1>11, <1>13 DEF GroupedFrom
  <2> QED
    BY <2>1, PairGrouped
<1>15. v = <<>> => EndsNamed(u)
  <2>1. v = <<>> => Named(v) = {}
    BY DEF Named
  <2>2. Keep(l, p) = {} => u = <<>>
    BY <1>5, KeepIs
  <2> QED
    BY <1>12, <1>13, <2>1, <2>2
<1>16. EndsNamed(u \o v)
  BY <1>10, <1>11, <1>13, <1>15, PairEnds
<1>17. Named(u \o v) = Keep(l, p)
  BY <1>12, <1>13, <1>14
<1> QED
  BY <1>6, <1>14, <1>16, <1>17

--------------------------------------------------------------------------------
\* What a fold hides of the tree that begins at p.
HiddenFrom(l, folded, p, q) ==
  At(l, q) = <<>> /\ \E f \in folded : IsPrefix(p, f) /\ IsStrictPrefix(f, q)

\* The rows of the tree that begins at p.
WalkedFrom(I, l, folded, p, t) ==
  /\ t \in Seq(TreeRow(I)) /\ Grouped(l, t) /\ EndsNamed(t)
  /\ Len(t) # 0 /\ t[1] = FolderRow(p, Len(p) - 1, InOrder(Kids(l, p)) # <<>>)
  /\ \A q : q \in Named(t) <=> q \in Folders(l) /\ IsPrefix(p, q) /\ ~HiddenFrom(l, folded, p, q)

\* The trees that begin at different places of the same depth, one after the other.
Trees(S, w) == LET heads == InOrder(S) IN FlattenSeq([i \in DOMAIN heads |-> w[heads[i]]])

TreesFrom(I, l, folded, S, t) ==
  /\ t \in Seq(TreeRow(I)) /\ Grouped(l, t) /\ EndsNamed(t)
  /\ \A q : q \in Named(t) <=> \E k \in S : q \in Folders(l) /\ IsPrefix(k, q) /\ ~HiddenFrom(l, folded, k, q)

AllWalked(I, l, folded, S, w) == \A k \in S : WalkedFrom(I, l, folded, k, w[k])

\* No path goes through two of them.
Apart(S) == \A j, k \in S, q \in Path : IsPrefix(j, q) /\ IsPrefix(k, q) => j = k

LEMMA TreesOf ==
  ASSUME NEW I, NEW l \in Listing(I), NEW folded, NEW S \in SUBSET Folders(l), IsFiniteSet(S),
         Apart(S), NEW w, AllWalked(I, l, folded, S, w)
  PROVE  TreesFrom(I, l, folded, S, Trees(S, w))
<1>1. PICK n, heads : n = Cardinality(S) /\ heads = InOrder(S)
  OBVIOUS
<1>2. /\ n \in Nat /\ heads \in [1..n -> S]
      /\ \A x \in S : \E i \in 1..n : heads[i] = x
      /\ \A i, j \in 1..n : heads[i] = heads[j] => i = j
  <2>1. S \in SUBSET Path
    BY FoldersAre
  <2> QED
    BY <1>1, <2>1, InOrderIs
<1>3. PICK s, t : s = [i \in 1..n |-> w[heads[i]]] /\ t = FlattenSeq(s)
  OBVIOUS
<1>4. \A i \in 1..n : heads[i] \in S /\ s[i] = w[heads[i]] /\ WalkedFrom(I, l, folded, heads[i], s[i])
  BY <1>2, <1>3 DEF AllWalked
<1>5. s \in [1..n -> Seq(TreeRow(I))]
  BY <1>3, <1>4 DEF WalkedFrom
<1>6. AllGrouped(l, s, n)
  <2>1. \A k \in 1..n : Grouped(l, s[k])
    BY <1>4 DEF WalkedFrom
  <2>2. ASSUME NEW j \in 1..n, NEW k \in 1..n, NEW q, q \in Named(s[j]), q \in Named(s[k]) PROVE j = k
    <3>1. q \in Folders(l) /\ IsPrefix(heads[j], q) /\ IsPrefix(heads[k], q)
      BY <1>4, <2>2 DEF WalkedFrom
    <3>2. q \in Path
      BY <3>1, FoldersAre
    <3>3. heads[j] = heads[k]
      BY <1>4, <3>1, <3>2 DEF Apart
    <3> QED
      BY <1>2, <3>3
  <2>3. \A j, k \in 1..n : j # k => Named(s[j]) \cap Named(s[k]) = {}
    BY <2>2
  <2> QED
    BY <2>1, <2>3 DEF AllGrouped
<1>7. PICK off : t \in Seq(TreeRow(I)) /\ IsFlat(t, s, n, off)
  BY <1>2, <1>3, <1>5, FlattenPlaces
<1>8. GroupedFrom(l, t, s, n)
  BY <1>2, <1>5, <1>6, <1>7, FlatGrouped
<1>9. EndsNamed(t)
  <2>1. \A k \in 1..n : EndsNamed(s[k])
    BY <1>4 DEF WalkedFrom
  <2> QED
    BY <1>2, <1>5, <1>7, <2>1, FlatEnds
<1>10. ASSUME NEW q
       PROVE  q \in Named(t) <=>
                \E k \in S : q \in Folders(l) /\ IsPrefix(k, q) /\ ~HiddenFrom(l, folded, k, q)
  <2>1. \A i \in 1..n : q \in Named(s[i]) <=>
          q \in Folders(l) /\ IsPrefix(heads[i], q) /\ ~HiddenFrom(l, folded, heads[i], q)
    BY <1>4 DEF WalkedFrom
  <2>2. q \in Named(t) <=> \E i \in 1..n : q \in Named(s[i])
    BY <1>8 DEF GroupedFrom
  <2> QED
    BY <1>2, <2>1, <2>2
<1>11. t = Trees(S, w)
  <2>1. DOMAIN heads = 1..n
    BY <1>2
  <2> QED
    BY <1>1, <1>3, <2>1 DEF Trees
<1> QED
  BY <1>7, <1>8, <1>9, <1>10, <1>11 DEF GroupedFrom, TreesFrom

\* A folder, and what is shown below it.
LEMMA RowsAre ==
  ASSUME NEW I, NEW l \in Listing(I), NEW folded \in SUBSET Path, NEW p \in Folders(l), NEW w,
         AllWalked(I, l, folded, Kids(l, p), w)
  PROVE  WalkedFrom(I, l, folded, p, Rows(l, folded, w, p))
<1>0. p \in Path /\ Len(p) \in Nat \ {0}
  BY FoldersAre
<1>1. PICK kids, u, v : /\ kids = InOrder(Kids(l, p))
                        /\ u = GroupOf(l, p, Len(p) - 1, kids # <<>>)
                        /\ v = (IF p \in folded THEN Survivors(l, p)
                                ELSE Trees(Kids(l, p), w))
  OBVIOUS
<1>2. /\ u \in Seq(TreeRow(I)) /\ Grouped(l, u) /\ Named(u) = {p} /\ EndsNamed(u)
      /\ Len(u) \in Nat \ {0} /\ u[1] = FolderRow(p, Len(p) - 1, kids # <<>>)
  <2>1. PICK h \in BOOLEAN, d \in Nat : h = (kids # <<>>) /\ d = Len(p) - 1
    <3>1. PICK h \in BOOLEAN : h = (kids # <<>>)
      OBVIOUS
    <3>2. Len(p) - 1 \in Nat
      BY <1>0
    <3> QED
      BY <3>1, <3>2
  <2>2. GroupedUnder(I, l, p, FolderRow(p, d, h), u)
    BY <1>0, <1>1, <2>1, GroupIs
  <2> QED
    BY <2>1, <2>2 DEF GroupedUnder
<1>3. /\ v \in Seq(TreeRow(I)) /\ Grouped(l, v) /\ EndsNamed(v)
      /\ \A q : q \in Named(v) <=> q \in Folders(l) /\ IsStrictPrefix(p, q) /\ ~HiddenFrom(l, folded, p, q)
  <2>1. CASE p \in folded
    <3>1. /\ v \in Seq(TreeRow(I)) /\ Grouped(l, v) /\ EndsNamed(v)
          /\ \A q : q \in Named(v) <=> q \in Folders(l) /\ IsStrictPrefix(p, q) /\ At(l, q) # <<>>
      BY <1>0, <1>1, <2>1, SurvivorsAre, KeepIs
    <3>2. \A q : IsStrictPrefix(p, q) => (HiddenFrom(l, folded, p, q) <=> At(l, q) = <<>>)
      BY <1>0, <2>1, PrefixOrder DEF HiddenFrom
    <3> QED
      BY <3>1, <3>2
  <2>2. CASE p \notin folded
    <3>1. Kids(l, p) \in SUBSET Folders(l) /\ IsFiniteSet(Kids(l, p)) /\ Apart(Kids(l, p))
      BY <1>0, KidsAre DEF Apart
    <3>2. TreesFrom(I, l, folded, Kids(l, p), v)
      BY <1>1, <2>2, <3>1, TreesOf
    <3>3. /\ v \in Seq(TreeRow(I)) /\ Grouped(l, v) /\ EndsNamed(v)
          /\ \A q : q \in Named(v) <=>
               \E k \in Kids(l, p) : q \in Folders(l) /\ IsPrefix(k, q) /\ ~HiddenFrom(l, folded, k, q)
      BY <3>2 DEF TreesFrom
    <3>4. ASSUME NEW q \in Folders(l), NEW k \in Kids(l, p), IsPrefix(k, q)
          PROVE  IsStrictPrefix(p, q) /\ (HiddenFrom(l, folded, k, q) <=> HiddenFrom(l, folded, p, q))
      <4>0. /\ q \in Path /\ k \in Path /\ Len(k) = Len(p) + 1 /\ IsPrefix(p, k) /\ IsStrictPrefix(p, k)
            /\ \A f \in folded : f \in Path /\ Len(f) \in Nat
        BY <1>0, FoldersAre, KidsAre DEF Path
      <4>1. IsStrictPrefix(p, q)
        BY <1>0, <3>4, <4>0, PrefixOrder
      <4>2. ASSUME NEW f \in folded, IsStrictPrefix(f, q) PROVE IsPrefix(k, f) <=> IsPrefix(p, f)
        <5>1. IsPrefix(k, f) => IsPrefix(p, f)
          BY <1>0, <4>0, PrefixOrder
        <5>2. ASSUME IsPrefix(p, f) PROVE IsPrefix(k, f)
          <6>1. p # f
            BY <2>2
          <6>2. Len(p) <= Len(f)
            BY <1>0, <4>0, <5>2, PrefixOrder
          <6>3. ~(Len(f) <= Len(p))
            BY <1>0, <4>0, <5>2, <6>1, PrefixOrder
          <6>4. Len(k) <= Len(f)
            BY <1>0, <4>0, <6>3
          <6>5. IsPrefix(f, q)
            BY <4>0, <4>2, PrefixOrder
          <6> QED
            BY <3>4, <4>0, <6>4, <6>5, PrefixOrder
        <5> QED
          BY <5>1, <5>2
      <4> QED
        BY <4>1, <4>2 DEF HiddenFrom
    <3>5. \A q \in Folders(l) : IsStrictPrefix(p, q) => \E k \in Kids(l, p) : IsPrefix(k, q)
      BY <1>0, KidsAre
    <3> QED
      BY <3>3, <3>4, <3>5
  <2> QED
    BY <2>1, <2>2
<1>4. Rows(l, folded, w, p) = u \o v
  <2>1. Len(p) - 1 + 1 = Len(p)
    BY <1>0
  <2>2. PICK a, b : a = <<FolderRow(p, Len(p) - 1, kids # <<>>)>> /\ b = SessionsOf(l, p, Len(p))
    OBVIOUS
  <2>3. u = a \o b
    BY <1>1, <2>1, <2>2 DEF GroupOf
  <2>4. Rows(l, folded, w, p) = a \o b \o v
    BY <1>1, <2>2 DEF Rows, Trees
  <2> QED
    BY <2>3, <2>4
<1>5. ~HiddenFrom(l, folded, p, p)
  <2>1. ASSUME NEW f \in folded, IsPrefix(p, f), IsStrictPrefix(f, p) PROVE FALSE
    <3>1. f \in Path /\ Len(f) \in Nat
      BY DEF Path
    <3>2. Len(p) <= Len(f) /\ Len(f) < Len(p)
      BY <1>0, <2>1, <3>1, PrefixOrder
    <3> QED
      BY <1>0, <3>1, <3>2
  <2> QED
    BY <2>1 DEF HiddenFrom
<1>6. \A q \in Folders(l) : IsPrefix(p, q) <=> q = p \/ IsStrictPrefix(p, q)
  BY <1>0, PrefixOrder DEF IsStrictPrefix
<1>7. u \o v \in Seq(TreeRow(I)) /\ Grouped(l, u \o v) /\ Named(u \o v) = Named(u) \cup Named(v)
  <2>1. Named(u) \cap Named(v) = {}
    <3>1. p \notin Named(v)
      BY <1>3 DEF IsStrictPrefix
    <3> QED
      BY <1>2, <3>1
  <2> QED
    BY <1>2, <1>3, <2>1, PairGrouped
<1>8. EndsNamed(u \o v)
  BY <1>2, <1>3, PairEnds
<1>9. Len(u \o v) # 0 /\ (u \o v)[1] = u[1]
  <2>1. /\ Len(u) \in Nat /\ Len(v) \in Nat /\ Len(u \o v) = Len(u) + Len(v)
        /\ \A i \in 1..Len(u) + Len(v) : (u \o v)[i] = IF i <= Len(u) THEN u[i] ELSE v[i - Len(u)]
    BY <1>2, <1>3, ConcatProperties
  <2>2. 1 \in 1..Len(u) + Len(v) /\ 1 <= Len(u) /\ Len(u) + Len(v) # 0
    BY <1>2, <2>1
  <2> QED
    BY <2>1, <2>2
<1>10. \A q : q \in Named(u \o v) <=> q \in Folders(l) /\ IsPrefix(p, q) /\ ~HiddenFrom(l, folded, p, q)
  BY <1>2, <1>3, <1>5, <1>6, <1>7
<1>11. (u \o v)[1] = FolderRow(p, Len(p) - 1, InOrder(Kids(l, p)) # <<>>)
  BY <1>1, <1>2, <1>9
<1> QED
  BY <1>4, <1>7, <1>8, <1>9, <1>10, <1>11 DEF WalkedFrom

LEMMA WalkAre ==
  ASSUME NEW I, NEW l \in Listing(I), NEW folded \in SUBSET Path
  PROVE  \A p \in Folders(l) : WalkedFrom(I, l, folded, p, Walk(l, folded)[p])
<1>1. PICK m \in Nat : \A q \in Folders(l) : Len(q) <= m
  BY FoldersFinite
<1>2. PICK w : w = Walk(l, folded)
  OBVIOUS
<1> DEFINE Deep(k) == {q \in Folders(l) : Len(q) > m - k}
           S == {k \in 0..m : \A p \in Deep(k) : WalkedFrom(I, l, folded, p, w[p])}
<1>3. \A q \in Folders(l) : q \in Path /\ Len(q) \in Nat \ {0}
  BY FoldersAre
<1>4. 0 \in S
  <2>1. Deep(0) = {}
    BY <1>1, <1>3
  <2> QED
    BY <2>1
<1>5. ASSUME NEW k \in 0..m-1, k \in S PROVE k + 1 \in S
  <2>1. ASSUME NEW p \in Deep(k + 1) PROVE WalkedFrom(I, l, folded, p, w[p])
    <3>1. p \in Folders(l) /\ p \in Path /\ Len(p) > m - (k + 1) /\ Len(p) \in Nat
      BY <1>3, <2>1
    <3>2. ASSUME NEW q \in Kids(l, p) PROVE q \in Deep(k)
      <4>1. q \in Folders(l) /\ Len(q) = Len(p) + 1
        BY <3>1, KidsAre
      <4> QED
        BY <3>1, <4>1
    <3>3. AllWalked(I, l, folded, Kids(l, p), w)
      BY <1>5, <3>2 DEF AllWalked
    <3>4. WalkedFrom(I, l, folded, p, Rows(l, folded, w, p))
      BY <3>1, <3>3, RowsAre
    <3> QED
      BY <1>2, <3>1, <3>4, WalkIs
  <2> QED
    BY <2>1
<1> HIDE DEF S
<1>6. 0..m \subseteq S
  BY <1>4, <1>5, UpTo
<1>7. m \in S
  BY <1>6
<1>8. Deep(m) = Folders(l)
  BY <1>3
<1> QED
  BY <1>2, <1>7, <1>8 DEF S

--------------------------------------------------------------------------------
\* The row of a session is one of those right under its folder.
LEMMA SessionRowsAre ==
  ASSUME NEW I, NEW l \in Listing(I), NEW t \in Seq(TreeRow(I)), Grouped(l, t),
         NEW r \in DOMAIN t, t[r].kind = "session"
  PROVE  \E f : /\ IsFolder(t, f) /\ r - f \in 1..Len(At(l, t[f].path))
                /\ t[r] = SessionRow(At(l, t[f].path)[r - f], t[f].depth + 1)
                /\ \E i \in DOMAIN l : At(l, t[f].path)[r - f] = l[i] /\ l[i].path = t[f].path
<1>1. PICK f : IsFolder(t, f) /\ r - f \in 1..Len(At(l, t[f].path))
  BY DEF Grouped
<1>2. PICK k, p, here : k = r - f /\ p = t[f].path /\ here = At(l, p)
  OBVIOUS
<1>3. k \in 1..Len(here) /\ Len(here) \in Nat /\ f \in Nat /\ r \in Nat
  BY <1>1, <1>2, AtIs DEF IsFolder
<1>4. f + k = r
  BY <1>2, <1>3
<1>5. t[r] = SessionRow(here[k], t[f].depth + 1)
  BY <1>1, <1>2, <1>3, <1>4 DEF Grouped
<1>6. PICK i \in DOMAIN l : here[k] = l[i] /\ here[k].path = p
  BY <1>2, <1>3, AtIs
<1> QED
  BY <1>1, <1>2, <1>5, <1>6

\* A session whose folder has a row has one itself, and no other.
LEMMA OnItsRow ==
  ASSUME NEW I, NEW l \in Listing(I), NEW t \in Seq(TreeRow(I)), Grouped(l, t),
         NEW i \in DOMAIN l, l[i].path \in Named(t)
  PROVE  UnderItsFolder(t, l[i])
<1>1. PICK f : IsFolder(t, f) /\ t[f].path = l[i].path
  BY DEF Named, IsFolder
<1>2. PICK p, here, n : p = l[i].path /\ here = At(l, p) /\ n = Len(here)
  OBVIOUS
<1>3. /\ n \in Nat
      /\ \A m \in 1..n : here[m].path = p
      /\ \A k, m \in 1..n : here[k].sid = here[m].sid => k = m
  BY <1>2, AtIs
<1>4. PICK k \in 1..n : here[k] = l[i]
  BY <1>2, AtIs
<1>5. \A m \in 1..n : f + m \in DOMAIN t /\ t[f + m] = SessionRow(here[m], t[f].depth + 1)
  BY <1>1, <1>2 DEF Grouped
<1>6. f \in DOMAIN t /\ f \in Nat \ {0} /\ t[f].kind = "folder" /\ t[f].depth \in Nat
  <2>1. f \in DOMAIN t /\ t[f].kind = "folder"
    BY <1>1 DEF IsFolder
  <2>2. t[f] \in TreeRow(I) /\ f \in Nat \ {0}
    BY <2>1
  <2> QED
    BY <2>1, <2>2 DEF TreeRow
<1>7. PICK r : r = f + k
  OBVIOUS
<1>8. r \in DOMAIN t /\ t[r] = SessionRow(l[i], t[f].depth + 1)
  BY <1>4, <1>5, <1>7
<1>9. t[r].kind = "session" /\ t[r].sid = l[i].sid /\ t[r].depth = t[f].depth + 1
  BY <1>8 DEF SessionRow
<1>10. f \in FolderAbove(t, r)
  <2>1. ASSUME NEW g \in (f + 1)..r PROVE t[g].kind # "folder"
    <3>1. PICK m \in 1..n : g = f + m
      <4>1. g - f \in 1..n /\ g = f + (g - f)
        BY <1>3, <1>6, <1>7, <2>1
      <4> QED
        BY <4>1
    <3>2. t[g] = SessionRow(here[m], t[f].depth + 1)
      BY <1>5, <3>1
    <3>3. t[g].kind = "session"
      BY <3>2 DEF SessionRow
    <3> QED
      BY <3>3
  <2>2. f \in 1..r
    BY <1>3, <1>6, <1>7
  <2> QED
    BY <1>6, <2>1, <2>2 DEF FolderAbove
<1>11. ASSUME NEW q \in DOMAIN t, t[q].kind = "session", t[q].sid = l[i].sid PROVE q = r
  <2>1. PICK g : /\ IsFolder(t, g) /\ q - g \in 1..Len(At(l, t[g].path))
                 /\ t[q] = SessionRow(At(l, t[g].path)[q - g], t[g].depth + 1)
                 /\ \E j \in DOMAIN l : At(l, t[g].path)[q - g] = l[j] /\ l[j].path = t[g].path
    BY <1>11, SessionRowsAre
  <2>2. PICK j \in DOMAIN l : At(l, t[g].path)[q - g] = l[j] /\ l[j].path = t[g].path
    BY <2>1
  <2>3. l[j].sid = l[i].sid
    BY <1>11, <2>1, <2>2 DEF SessionRow
  <2>4. j = i
    BY <2>3, ListingIs
  <2>5. g = f
    BY <1>1, <2>1, <2>2, <2>4 DEF Grouped
  <2>6. q - f \in 1..n /\ here[q - f] = l[i]
    BY <1>1, <1>2, <2>1, <2>2, <2>4, <2>5
  <2>7. q - f = k
    BY <1>3, <1>4, <2>6
  <2> QED
    BY <1>6, <1>7, <2>7
<1>12. RowOf(t, l[i].sid) = {r}
  BY <1>8, <1>9, <1>11 DEF RowOf
<1>13. t[f].depth = t[r].depth - 1
  BY <1>6, <1>9
<1> QED
  BY <1>1, <1>10, <1>12, <1>13 DEF UnderItsFolder

\* A tree has a row for each of its folders, save those a fold hides.
TreeFrom(I, l, folded, t) ==
  /\ t \in Seq(TreeRow(I)) /\ Grouped(l, t) /\ EndsNamed(t)
  /\ Named(t) = Folders(l) \ Hidden(l, folded)

LEMMA TreeIs ==
  ASSUME NEW I, NEW l \in Listing(I), NEW folded \in SUBSET (Path \ {<<>>})
  PROVE  TreeFrom(I, l, folded, Tree(l, folded))
<1>1. PICK roots : roots = {p \in Folders(l) : Len(p) = 1}
  OBVIOUS
<1>2. \A q \in Folders(l) : q \in Path /\ Len(q) \in Nat \ {0}
  BY FoldersAre
<1>3. roots \in SUBSET Folders(l) /\ IsFiniteSet(roots)
  BY <1>1, FoldersFinite, FS_Subset
<1>4. Apart(roots)
  <2>1. ASSUME NEW j \in roots, NEW k \in roots, NEW q \in Path, IsPrefix(j, q), IsPrefix(k, q) PROVE j = k
    <3>1. j \in Path /\ k \in Path /\ Len(j) = 1 /\ Len(k) = 1
      BY <1>1, <1>2
    <3>2. IsPrefix(j, k) /\ Len(k) <= Len(j)
      BY <2>1, <3>1, PrefixOrder
    <3> QED
      BY <3>1, <3>2, PrefixOrder
  <2> QED
    BY <2>1 DEF Apart
<1>5. PICK t, w : t = Tree(l, folded) /\ w = Walk(l, folded)
  OBVIOUS
<1>6. t = Trees(roots, w)
  BY <1>1, <1>5 DEF Tree, Trees
<1>7. AllWalked(I, l, folded, roots, w)
  BY <1>3, <1>5, WalkAre DEF AllWalked
<1>8. TreesFrom(I, l, folded, roots, t)
  BY <1>3, <1>4, <1>6, <1>7, TreesOf
<1>9. ASSUME NEW q \in Folders(l) PROVE q \in Named(t) <=> q \notin Hidden(l, folded)
  <2>1. PICK n \in 0..Len(q) : n = 1
    BY <1>2
  <2>2. PICK k : k = SubSeq(q, 1, n)
    OBVIOUS
  <2>3. q \in Path /\ k \in Path /\ Len(k) = 1 /\ IsPrefix(k, q)
    BY <1>2, <2>1, <2>2, StartIs
  <2>4. k \in roots
    <3>1. Len(k) # 0
      BY <2>3
    <3>2. \A r \in Path : Len(r) # 0 /\ IsPrefix(r, q) => r \in Folders(l)
      BY FoldersAre
    <3>3. k \in Folders(l)
      BY <2>3, <3>1, <3>2
    <3> QED
      BY <1>1, <2>3, <3>3
  <2>5. \A j \in roots : IsPrefix(j, q) => j = k
    BY <1>4, <2>3, <2>4 DEF Apart
  <2>6. q \in Named(t) <=> ~HiddenFrom(l, folded, k, q)
    BY <1>8, <2>3, <2>4, <2>5 DEF TreesFrom
  <2>7. ASSUME NEW f \in folded, IsStrictPrefix(f, q) PROVE IsPrefix(k, f)
    <3>1. f \in Path /\ Len(f) \in Nat \ {0}
      BY EmptySeq DEF Path
    <3>2. IsPrefix(f, q) /\ Len(k) <= Len(f)
      BY <2>3, <2>7, <3>1, PrefixOrder
    <3> QED
      BY <2>3, <3>1, <3>2, PrefixOrder
  <2> QED
    BY <2>6, <2>7 DEF Hidden, HiddenFrom
<1>10. \A q \in Named(t) : q \in Folders(l)
  BY <1>8 DEF TreesFrom
<1>11. Named(t) = Folders(l) \ Hidden(l, folded)
  BY <1>9, <1>10
<1> QED
  BY <1>5, <1>8, <1>11 DEF TreesFrom, TreeFrom

\* In any tree, whatever is folded, every session has one row, right under its own folder,
\* and a fold hides the folders below it that hold no session, and nothing else (tree.rs,
\* tree and walk), for lists of any length and paths of any depth.
THEOREM TreeShowsAll ==
  ASSUME NEW I, NEW l \in Listing(I), NEW folded \in SUBSET (Path \ {<<>>})
  PROVE  ShowsAll(l, folded)
<1>1. PICK t : t = Tree(l, folded)
  OBVIOUS
<1>2. t \in Seq(TreeRow(I)) /\ Grouped(l, t) /\ Named(t) = Folders(l) \ Hidden(l, folded)
  BY <1>1, TreeIs DEF TreeFrom
<1>3. ASSUME NEW i \in DOMAIN l PROVE UnderItsFolder(t, l[i])
  <2>1. l[i].path \in Folders(l)
    BY FoldersAre
  <2>2. At(l, l[i].path) # <<>>
    BY AtIs
  <2>3. l[i].path \in Named(t)
    BY <1>2, <2>1, <2>2 DEF Hidden
  <2> QED
    BY <1>2, <2>3, OnItsRow
<1>4. {t[r].path : r \in {q \in DOMAIN t : t[q].kind = "folder"}} = Named(t)
  BY DEF Named
<1> QED
  BY <1>1, <1>2, <1>3, <1>4 DEF ShowsAll

\* A working directory has a place in the tree.
LEMMA SegmentsAre ==
  ASSUME NEW c \in [lead : {"~", "/"}, names : Path]
  PROVE  Segments(c) \in Path \ {<<>>}
<1>1. c.names \in Seq(Nat) /\ Home \in Seq(Nat) /\ (c.lead = "~" \/ c.lead = "/")
  BY HomeAssumption DEF Path
<1>2. \A x \in Nat, t \in Seq(Nat) : <<x>> \o t \in Path \ {<<>>}
  <2> SUFFICES ASSUME NEW x \in Nat, NEW t \in Seq(Nat) PROVE <<x>> \o t \in Path \ {<<>>}
    OBVIOUS
  <2>1. <<x>> \in Seq(Nat) /\ Len(<<x>>) = 1 /\ Len(t) \in Nat
    OBVIOUS
  <2>2. <<x>> \o t \in Seq(Nat) /\ Len(<<x>> \o t) = 1 + Len(t)
    BY <2>1, ConcatProperties
  <2>3. <<x>> \o t # <<>>
    BY <2>1, <2>2, EmptySeq
  <2> QED
    BY <2>2, <2>3 DEF Path
<1>3. SubSeq(c.names, Len(Home) + 1, Len(c.names)) \in Seq(Nat)
  BY <1>1
<1>4. Slash \in Nat /\ Tilde \in Nat
  BY DEF Slash, Tilde
<1>5. CASE c.lead = "~" \/ c.names = <<>>
  <2>1. Segments(c) = <<Tilde>> \o c.names
    BY <1>5 DEF Segments
  <2> QED
    BY <1>1, <1>2, <1>4, <2>1
<1>6. CASE c.lead = "/" /\ c.names # <<>> /\ Home # <<>> /\ IsPrefix(Home, c.names)
  <2>1. Segments(c) = <<Tilde>> \o SubSeq(c.names, Len(Home) + 1, Len(c.names))
    BY <1>6 DEF Segments
  <2> QED
    BY <1>2, <1>3, <1>4, <2>1
<1>7. CASE c.lead = "/" /\ c.names # <<>> /\ ~(Home # <<>> /\ IsPrefix(Home, c.names))
  <2>1. Segments(c) = <<Slash>> \o c.names
    BY <1>7 DEF Segments
  <2> QED
    BY <1>1, <1>2, <1>4, <2>1
<1> QED
  BY <1>1, <1>5, <1>6, <1>7

--------------------------------------------------------------------------------
\* Two lists are the same up to a row that is one of C, or all the way.
Same(t, u, C) ==
  \/ t = u
  \/ \E c \in DOMAIN t : c \in DOMAIN u /\ t[c] \in C /\ \A i \in 1..c : t[i] = u[i]

LEMMA SamePair ==
  ASSUME NEW X, NEW C, NEW t \in Seq(X), NEW u \in Seq(X), NEW v \in Seq(X), NEW w \in Seq(X),
         Same(t, u, C), Same(v, w, C)
  PROVE  Same(t \o v, u \o w, C)
<1>1. /\ Len(t) \in Nat /\ Len(u) \in Nat /\ Len(v) \in Nat /\ Len(w) \in Nat
      /\ DOMAIN t = 1..Len(t) /\ DOMAIN u = 1..Len(u) /\ DOMAIN v = 1..Len(v) /\ DOMAIN w = 1..Len(w)
  OBVIOUS
<1>2. PICK a, b : a = t \o v /\ b = u \o w
  OBVIOUS
<1>3. /\ a \in Seq(X) /\ DOMAIN a = 1..Len(t)+Len(v)
      /\ \A i \in 1..Len(t)+Len(v) : a[i] = IF i <= Len(t) THEN t[i] ELSE v[i - Len(t)]
  BY <1>1, <1>2, ConcatProperties
<1>4. /\ b \in Seq(X) /\ DOMAIN b = 1..Len(u)+Len(w)
      /\ \A i \in 1..Len(u)+Len(w) : b[i] = IF i <= Len(u) THEN u[i] ELSE w[i - Len(u)]
  BY <1>1, <1>2, ConcatProperties
<1>5. CASE t = u /\ v = w
  BY <1>2, <1>5 DEF Same
<1>6. ASSUME t = u, NEW c \in DOMAIN v, c \in DOMAIN w, v[c] \in C, \A i \in 1..c : v[i] = w[i]
      PROVE  Same(a, b, C)
  <2>1. PICK d : d = Len(t) + c
    OBVIOUS
  <2>2. d \in DOMAIN a /\ d \in DOMAIN b /\ ~(d <= Len(t)) /\ d - Len(t) = c
    BY <1>1, <1>3, <1>4, <1>6, <2>1
  <2>3. a[d] \in C
    BY <1>3, <1>6, <2>2
  <2>4. ASSUME NEW i \in 1..d PROVE a[i] = b[i]
    <3>0. i \in 1..Len(t)+Len(v) /\ i \in 1..Len(u)+Len(w)
      BY <1>3, <1>4, <2>2
    <3>1. CASE i <= Len(t)
      BY <1>3, <1>4, <1>6, <3>0, <3>1
    <3>2. CASE ~(i <= Len(t))
      <4>1. i - Len(t) \in 1..c
        BY <1>1, <1>6, <2>1, <3>2
      <4> QED
        BY <1>3, <1>4, <1>6, <3>0, <3>2, <4>1
    <3> QED
      BY <3>1, <3>2
  <2> QED
    BY <2>2, <2>3, <2>4 DEF Same
<1>7. ASSUME NEW c \in DOMAIN t, c \in DOMAIN u, t[c] \in C, \A i \in 1..c : t[i] = u[i]
      PROVE  Same(a, b, C)
  <2>1. c \in DOMAIN a /\ c \in DOMAIN b
    BY <1>1, <1>3, <1>4, <1>7
  <2>2. ASSUME NEW i \in 1..c PROVE a[i] = t[i] /\ b[i] = u[i]
    <3>1. i \in 1..Len(t)+Len(v) /\ i \in 1..Len(u)+Len(w) /\ i <= Len(t) /\ i <= Len(u)
      BY <1>1, <1>7
    <3> QED
      BY <1>3, <1>4, <3>1
  <2>3. c \in 1..c
    BY <1>1, <1>7
  <2>4. a[c] \in C /\ \A i \in 1..c : a[i] = b[i]
    BY <1>7, <2>2, <2>3
  <2> QED
    BY <2>1, <2>4 DEF Same
<1> QED
  BY <1>2, <1>5, <1>6, <1>7 DEF Same

\* So it is of many, one after the other.
LEMMA SameFlat ==
  ASSUME NEW X, NEW C, NEW n \in Nat, NEW s \in [1..n -> Seq(X)], NEW z \in [1..n -> Seq(X)],
         \A k \in 1..n : Same(s[k], z[k], C)
  PROVE  Same(FlattenSeq(s), FlattenSeq(z), C)
<1>1. Len(s) = n /\ Len(z) = n
  OBVIOUS
<1>2. CASE n = 0
  <2>1. s = <<>> /\ z = <<>>
    BY <1>1, <1>2
  <2> QED
    BY <2>1 DEF Same
<1>3. CASE n # 0
  <2>0. ASSUME NEW y \in [1..n -> Seq(X)]
        PROVE  \E f : FlattenSeq(y) = f[n] /\ f[1] = y[1] /\ \A i \in 2..n : f[i] = f[i - 1] \o y[i]
    <3>1. Len(y) = n /\ Len(y) \in Nat \ {0}
      BY <1>3
    <3>2. \E f : /\ FlattenSeq(y) = f[Len(y)] /\ f[1] = y[1]
                /\ \A i \in 2..Len(y) : f[i] = f[i - 1] \o y[i]
      BY <3>1, FlattenIs
    <3> QED
      BY <3>1, <3>2
  <2>1. PICK f : FlattenSeq(s) = f[n] /\ f[1] = s[1] /\ \A i \in 2..n : f[i] = f[i - 1] \o s[i]
    BY <2>0
  <2>2. PICK g : FlattenSeq(z) = g[n] /\ g[1] = z[1] /\ \A i \in 2..n : g[i] = g[i - 1] \o z[i]
    BY <2>0
  <2> DEFINE S == {m \in 0..n-1 : f[m + 1] \in Seq(X) /\ g[m + 1] \in Seq(X) /\ Same(f[m + 1], g[m + 1], C)}
  <2>3. 0 \in S
    <3>1. 0 \in 0..n-1 /\ 0 + 1 = 1 /\ 1 \in 1..n
      BY <1>3
    <3> QED
      BY <2>1, <2>2, <3>1
  <2>4. ASSUME NEW m \in 0..n-2, m \in S PROVE m + 1 \in S
    <3>1. m + 1 \in 0..n-1 /\ m + 1 + 1 = m + 2 /\ m + 2 \in 1..n
      OBVIOUS
    <3>2. f[m + 1] \in Seq(X) /\ g[m + 1] \in Seq(X) /\ Same(f[m + 1], g[m + 1], C)
      BY <2>4
    <3>3. f[m + 2] = f[m + 1] \o s[m + 2] /\ g[m + 2] = g[m + 1] \o z[m + 2]
      <4>1. PICK j \in 2..n : j = m + 2
        OBVIOUS
      <4>2. f[j] = f[j - 1] \o s[j] /\ g[j] = g[j - 1] \o z[j]
        BY <2>1, <2>2
      <4>3. j - 1 = m + 1
        BY <4>1
      <4> QED
        BY <4>1, <4>2, <4>3
    <3>4. s[m + 2] \in Seq(X) /\ z[m + 2] \in Seq(X) /\ Same(s[m + 2], z[m + 2], C)
      BY <3>1
    <3>5. Same(f[m + 2], g[m + 2], C)
      BY <3>2, <3>3, <3>4, SamePair
    <3>6. f[m + 2] \in Seq(X) /\ g[m + 2] \in Seq(X)
      BY <3>2, <3>3, <3>4
    <3> QED
      BY <3>1, <3>5, <3>6
  <2> HIDE DEF S
  <2>5. 0..n-1 \subseteq S
    <3>1. n - 1 \in Nat /\ (n - 1) - 1 = n - 2
      BY <1>3
    <3> QED
      BY <2>3, <2>4, <3>1, UpTo
  <2>6. n - 1 \in S /\ n - 1 + 1 = n
    BY <1>3, <2>5
  <2> QED
    BY <2>1, <2>2, <2>6 DEF S
<1> QED
  BY <1>2, <1>3

--------------------------------------------------------------------------------
\* The rows of the folder p.
RowsNaming(I, p) == {x \in TreeRow(I) : x.kind = "folder" /\ x.path = p}

\* Folding p, or unfolding it, changes nothing above the row of p.
LEMMA WalkAbove ==
  ASSUME NEW I, NEW l \in Listing(I), NEW p \in Path, NEW folded \in SUBSET Path, NEW other \in SUBSET Path,
         \A q \in Path : q # p => (q \in folded <=> q \in other)
  PROVE  \A q \in Folders(l) : Same(Walk(l, folded)[q], Walk(l, other)[q], RowsNaming(I, p))
<1>1. PICK m \in Nat : \A q \in Folders(l) : Len(q) <= m
  BY FoldersFinite
<1>2. PICK w, x : w = Walk(l, folded) /\ x = Walk(l, other)
  OBVIOUS
<1> DEFINE Deep(k) == {q \in Folders(l) : Len(q) > m - k}
           S == {k \in 0..m : \A q \in Deep(k) : Same(w[q], x[q], RowsNaming(I, p))}
<1>3. \A q \in Folders(l) : q \in Path /\ Len(q) \in Nat \ {0}
  BY FoldersAre
<1>4. 0 \in S
  <2>1. Deep(0) = {}
    BY <1>1, <1>3
  <2> QED
    BY <2>1
<1>5. \A q \in Folders(l) : w[q] \in Seq(TreeRow(I)) /\ x[q] \in Seq(TreeRow(I))
  BY <1>2, WalkAre DEF WalkedFrom
<1>6. ASSUME NEW k \in 0..m-1, k \in S PROVE k + 1 \in S
  <2>1. ASSUME NEW q \in Deep(k + 1) PROVE Same(w[q], x[q], RowsNaming(I, p))
    <3>1. q \in Folders(l) /\ q \in Path /\ Len(q) > m - (k + 1) /\ Len(q) \in Nat \ {0}
      BY <1>3, <2>1
    <3>2. ASSUME NEW r \in Kids(l, q) PROVE r \in Folders(l) /\ Same(w[r], x[r], RowsNaming(I, p))
      <4>1. r \in Folders(l) /\ Len(r) = Len(q) + 1
        BY <3>1, KidsAre
      <4>2. r \in Deep(k)
        BY <3>1, <4>1
      <4> QED
        BY <1>6, <4>1, <4>2
    <3>3. w[q] = Rows(l, folded, w, q) /\ x[q] = Rows(l, other, x, q)
      BY <1>2, <3>1, WalkIs
    <3>4. PICK kids, n : kids = InOrder(Kids(l, q)) /\ n = Cardinality(Kids(l, q))
      OBVIOUS
    <3>5. n \in Nat /\ kids \in [1..n -> Kids(l, q)]
      BY <3>1, <3>4, KidsAre, InOrderIs
    <3>6. PICK s, z : s = [i \in 1..n |-> w[kids[i]]] /\ z = [i \in 1..n |-> x[kids[i]]]
      OBVIOUS
    <3>7. \A i \in 1..n : kids[i] \in Kids(l, q) /\ s[i] = w[kids[i]] /\ z[i] = x[kids[i]]
      BY <3>5, <3>6
    <3>8. s \in [1..n -> Seq(TreeRow(I))] /\ z \in [1..n -> Seq(TreeRow(I))]
      BY <1>5, <3>2, <3>6, <3>7
    <3>9. Same(FlattenSeq(s), FlattenSeq(z), RowsNaming(I, p))
      BY <3>2, <3>5, <3>7, <3>8, SameFlat
    <3>10. DOMAIN kids = 1..n
      BY <3>5
    <3>11. PICK top : top = GroupOf(l, q, Len(q) - 1, kids # <<>>)
      OBVIOUS
    <3>12. PICK u, v : /\ u = (IF q \in folded THEN Survivors(l, q) ELSE FlattenSeq(s))
                       /\ v = (IF q \in other THEN Survivors(l, q) ELSE FlattenSeq(z))
      OBVIOUS
    <3>13. w[q] = top \o u /\ x[q] = top \o v
      <4>1. PICK a, b : a = <<FolderRow(q, Len(q) - 1, kids # <<>>)>> /\ b = SessionsOf(l, q, Len(q))
        OBVIOUS
      <4>2. Len(q) - 1 + 1 = Len(q)
        BY <3>1
      <4>3. top = a \o b
        BY <3>11, <4>1, <4>2 DEF GroupOf
      <4>4. w[q] = a \o b \o u /\ x[q] = a \o b \o v
        BY <3>3, <3>4, <3>6, <3>10, <3>12, <4>1 DEF Rows
      <4> QED
        BY <4>3, <4>4
    <3>14. PICK h \in BOOLEAN, d \in Nat : h = (kids # <<>>) /\ d = Len(q) - 1
      <4>1. PICK h \in BOOLEAN : h = (kids # <<>>)
        OBVIOUS
      <4>2. Len(q) - 1 \in Nat
        BY <3>1
      <4> QED
        BY <4>1, <4>2
    <3>15. GroupedUnder(I, l, q, FolderRow(q, d, h), top)
      BY <3>1, <3>11, <3>14, GroupIs
    <3>16. top \in Seq(TreeRow(I)) /\ Len(top) \in Nat \ {0} /\ top[1] = FolderRow(q, d, h)
      BY <3>15 DEF GroupedUnder
    <3>17. u \in Seq(TreeRow(I)) /\ v \in Seq(TreeRow(I))
      <4>1. Survivors(l, q) \in Seq(TreeRow(I))
        BY <3>1, SurvivorsAre
      <4>2. FlattenSeq(s) \in Seq(TreeRow(I)) /\ FlattenSeq(z) \in Seq(TreeRow(I))
        BY <3>5, <3>8, FlattenPlaces
      <4> QED
        BY <3>12, <4>1, <4>2
    <3>18. CASE q # p
      <4>1. Same(u, v, RowsNaming(I, p))
        BY <3>1, <3>9, <3>12, <3>18 DEF Same
      <4>2. Same(top, top, RowsNaming(I, p))
        BY DEF Same
      <4> QED
        BY <3>13, <3>16, <3>17, <4>1, <4>2, SamePair
    <3>19. CASE q = p
      <4>1. /\ 1 \in DOMAIN (top \o u) /\ (top \o u)[1] = top[1]
            /\ 1 \in DOMAIN (top \o v) /\ (top \o v)[1] = top[1]
        <5>1. ASSUME NEW y \in Seq(TreeRow(I)) PROVE 1 \in DOMAIN (top \o y) /\ (top \o y)[1] = top[1]
          <6>1. /\ Len(y) \in Nat /\ DOMAIN (top \o y) = 1..Len(top) + Len(y)
                /\ \A i \in 1..Len(top) + Len(y) : (top \o y)[i] = IF i <= Len(top) THEN top[i] ELSE y[i - Len(top)]
            BY <3>16, ConcatProperties
          <6> QED
            BY <3>16, <6>1
        <5> QED
          BY <3>17, <5>1
      <4>2. top[1] \in RowsNaming(I, p)
        <5>1. 1 \in DOMAIN top
          BY <3>16
        <5>2. top[1] \in TreeRow(I)
          BY <3>16, <5>1
        <5> QED
          BY <3>16, <3>19, <5>2 DEF RowsNaming, FolderRow
      <4>3. \A i \in 1..1 : i = 1
        OBVIOUS
      <4> QED
        BY <3>13, <4>1, <4>2, <4>3 DEF Same
    <3> QED
      BY <3>18, <3>19
  <2> QED
    BY <2>1
<1> HIDE DEF S
<1>7. 0..m \subseteq S
  BY <1>4, <1>6, UpTo
<1>8. m \in S
  BY <1>7
<1>9. Deep(m) = Folders(l)
  BY <1>3
<1> QED
  BY <1>2, <1>8, <1>9 DEF S

LEMMA TreeAbove ==
  ASSUME NEW I, NEW l \in Listing(I), NEW p \in Path, NEW folded \in SUBSET Path, NEW other \in SUBSET Path,
         \A q \in Path : q # p => (q \in folded <=> q \in other)
  PROVE  Same(Tree(l, folded), Tree(l, other), RowsNaming(I, p))
<1>1. PICK roots, n, heads : roots = {q \in Folders(l) : Len(q) = 1} /\ n = Cardinality(roots) /\ heads = InOrder(roots)
  OBVIOUS
<1>2. roots \in SUBSET Path /\ roots \in SUBSET Folders(l) /\ IsFiniteSet(roots)
  BY <1>1, FoldersAre, FoldersFinite, FS_Subset
<1>3. n \in Nat /\ heads \in [1..n -> roots]
  BY <1>1, <1>2, InOrderIs
<1>4. PICK w, x : w = Walk(l, folded) /\ x = Walk(l, other)
  OBVIOUS
<1>5. PICK s, z : s = [i \in 1..n |-> w[heads[i]]] /\ z = [i \in 1..n |-> x[heads[i]]]
  OBVIOUS
<1>6. \A q \in Folders(l) : /\ w[q] \in Seq(TreeRow(I)) /\ x[q] \in Seq(TreeRow(I))
                            /\ Same(w[q], x[q], RowsNaming(I, p))
  BY <1>4, WalkAre, WalkAbove DEF WalkedFrom
<1>7. \A i \in 1..n : heads[i] \in Folders(l) /\ s[i] = w[heads[i]] /\ z[i] = x[heads[i]]
  BY <1>2, <1>3, <1>5
<1>8. s \in [1..n -> Seq(TreeRow(I))] /\ z \in [1..n -> Seq(TreeRow(I))]
  BY <1>5, <1>6, <1>7
<1>9. Same(FlattenSeq(s), FlattenSeq(z), RowsNaming(I, p))
  BY <1>3, <1>6, <1>7, <1>8, SameFlat
<1>10. DOMAIN heads = 1..n
  BY <1>3
<1>11. Tree(l, folded) = FlattenSeq(s) /\ Tree(l, other) = FlattenSeq(z)
  BY <1>1, <1>4, <1>5, <1>10 DEF Tree
<1> QED
  BY <1>9, <1>11

--------------------------------------------------------------------------------
\* A session is on no other row of a tree than its own.
LEMMA TreeRowsOf ==
  ASSUME NEW I, None \notin I, NEW l \in Listing(I), NEW t \in Seq(TreeRow(I)), Grouped(l, t),
         \A i \in DOMAIN l : l[i].path \in Named(t), NEW x \in I
  PROVE  /\ (\E i \in DOMAIN l : l[i].sid = x) => \E r \in DOMAIN t : {q \in DOMAIN t : t[q].sid = x} = {r}
         /\ (\A i \in DOMAIN l : l[i].sid # x) => {q \in DOMAIN t : t[q].sid = x} = {}
<1>1. {q \in DOMAIN t : t[q].sid = x} = RowOf(t, x)
  <2>1. \A q \in DOMAIN t : t[q].sid = x => t[q].kind = "session"
    BY DEF Grouped
  <2> QED
    BY <2>1 DEF RowOf
<1>2. ASSUME NEW i \in DOMAIN l, l[i].sid = x PROVE \E r \in DOMAIN t : RowOf(t, x) = {r}
  <2>1. UnderItsFolder(t, l[i])
    BY OnItsRow
  <2> QED
    BY <1>2, <2>1 DEF UnderItsFolder, RowOf
<1>3. ASSUME NEW q \in RowOf(t, x) PROVE \E i \in DOMAIN l : l[i].sid = x
  <2>1. q \in DOMAIN t /\ t[q].kind = "session" /\ t[q].sid = x
    BY DEF RowOf
  <2>2. PICK f : /\ t[q] = SessionRow(At(l, t[f].path)[q - f], t[f].depth + 1)
                 /\ \E i \in DOMAIN l : At(l, t[f].path)[q - f] = l[i] /\ l[i].path = t[f].path
    BY <2>1, SessionRowsAre
  <2>3. PICK i \in DOMAIN l : At(l, t[f].path)[q - f] = l[i]
    BY <2>2
  <2>4. t[q].sid = l[i].sid
    BY <2>2, <2>3 DEF SessionRow
  <2> QED
    BY <2>1, <2>4
<1> QED
  BY <1>1, <1>2, <1>3

--------------------------------------------------------------------------------
\* What a machine lists of its sessions, and what of its folders is folded.
LEMMA SidsAre ==
  /\ Sid \in SUBSET Nat /\ IsFiniteSet(Sid) /\ None \notin Sid
  /\ \A s \in Sid : VmOf[s] \in 1..Vms /\ Segments(Cwd[s]) \in Path \ {<<>>}
<1>1. \A s \in Sid : Cwd[s] \in [lead : {"~", "/"}, names : Path]
  BY AppAssumption DEF Cwds, Path
<1> QED
  BY <1>1, AppAssumption, SegmentsAre

LEMMA BuildIs ==
  ASSUME NEW b \in Builds
  PROVE  b.listed \in SUBSET Sid /\ b.text \in Text /\ b.folds \in SUBSET Foldable
  BY DEF Builds

LEMMA FilteredIs ==
  ASSUME NEW b \in Builds, NEW v \in 1..Vms
  PROVE  LET l == Filtered(b, v)
         IN  /\ l \in Listing(Sid)
             /\ \A i \in DOMAIN l : /\ l[i].sid \in OfVm(v) \cap b.listed \cap Hits[b.text]
                                    /\ l[i].path = Segments(Cwd[l[i].sid])
             /\ \A s \in OfVm(v) \cap b.listed \cap Hits[b.text] : \E i \in DOMAIN l : l[i].sid = s
<1>1. PICK S, n, byId, l : /\ S = OfVm(v) \cap b.listed \cap Hits[b.text] /\ n = Cardinality(S)
                           /\ byId = Ascending(S) /\ l = Filtered(b, v)
  OBVIOUS
<1>2. S \in SUBSET Sid /\ S \in SUBSET Nat /\ IsFiniteSet(S)
  <2>1. S \in SUBSET Sid
    BY <1>1 DEF OfVm
  <2> QED
    BY <2>1, SidsAre, FS_Subset
<1>3. /\ n \in Nat /\ byId \in [1..n -> S]
      /\ \A x \in S : \E i \in 1..n : byId[i] = x
      /\ \A i, j \in 1..n : byId[i] = byId[j] => i = j
  <2>1. PICK T \in SUBSET Nat : T = S /\ IsFiniteSet(T)
    BY <1>2
  <2>2. LET m == Cardinality(T)
            t == Ascending(T)
        IN  /\ m \in Nat /\ t \in [1..m -> T]
            /\ \A x \in T : \E i \in 1..m : t[i] = x
            /\ \A i, j \in 1..m : t[i] = t[j] => i = j
    BY <2>1, AscendingIs
  <2> QED
    BY <1>1, <2>1, <2>2
<1>4. l = [i \in 1..n |-> [sid |-> byId[i], path |-> Segments(Cwd[byId[i]])]]
  BY <1>1, <1>3 DEF Filtered
<1>5. \A i \in 1..n : l[i].sid = byId[i] /\ l[i].path = Segments(Cwd[byId[i]]) /\ l[i] \in Entry(Sid)
  <2> SUFFICES ASSUME NEW i \in 1..n
               PROVE  l[i].sid = byId[i] /\ l[i].path = Segments(Cwd[byId[i]]) /\ l[i] \in Entry(Sid)
    OBVIOUS
  <2>1. byId[i] \in Sid
    BY <1>2, <1>3
  <2>2. l[i] = [sid |-> byId[i], path |-> Segments(Cwd[byId[i]])]
    BY <1>4
  <2>3. Segments(Cwd[byId[i]]) \in Path \ {<<>>}
    BY <2>1, SidsAre
  <2>4. l[i].sid = byId[i] /\ l[i].path = Segments(Cwd[byId[i]])
    BY <2>2
  <2> QED
    BY <2>1, <2>2, <2>3, <2>4 DEF Entry
<1>6. DOMAIN l = 1..n /\ l \in Seq(Entry(Sid))
  <2>1. DOMAIN l = 1..n
    BY <1>4
  <2>2. l \in [1..n -> Entry(Sid)]
    BY <1>4, <1>5
  <2> QED
    BY <1>3, <2>1, <2>2
<1>7. l \in Listing(Sid)
  BY <1>3, <1>5, <1>6 DEF Listing
<1>8. \A i \in DOMAIN l : l[i].sid \in S /\ l[i].path = Segments(Cwd[l[i].sid])
  BY <1>3, <1>5, <1>6
<1>9. \A s \in S : \E i \in DOMAIN l : l[i].sid = s
  BY <1>3, <1>5, <1>6
<1> QED
  BY <1>1, <1>7, <1>8, <1>9

FoldsOf(b, v) == {f[2] : f \in {g \in b.folds : g[1] = v}}

LEMMA FoldableIs ==
  \A f \in Foldable : \E v \in 1..Vms, p \in Path \ {<<>>} : f = <<v, p>>
<1> SUFFICES ASSUME NEW f \in Foldable PROVE \E v \in 1..Vms, p \in Path \ {<<>>} : f = <<v, p>>
  OBVIOUS
<1>1. PICK s \in Sid : \E n \in 1..Len(Segments(Cwd[s])) : f = <<VmOf[s], SubSeq(Segments(Cwd[s]), 1, n)>>
  BY DEF Foldable
<1>2. PICK q \in Path : q = Segments(Cwd[s])
  BY SidsAre
<1>3. PICK n \in 1..Len(q) : f = <<VmOf[s], SubSeq(q, 1, n)>>
  BY <1>1, <1>2
<1>4. n \in 0..Len(q) /\ n # 0
  BY <1>2 DEF Path
<1>5. SubSeq(q, 1, n) \in Path /\ Len(SubSeq(q, 1, n)) = n
  BY <1>4, StartIs
<1>6. SubSeq(q, 1, n) \in Path \ {<<>>}
  BY <1>4, <1>5
<1> QED
  BY <1>3, <1>6, SidsAre

LEMMA FoldsAre ==
  ASSUME NEW b \in Builds, NEW v \in 1..Vms
  PROVE  /\ FoldsOf(b, v) \in SUBSET (Path \ {<<>>})
         /\ \A q \in Path : q \in FoldsOf(b, v) <=> <<v, q>> \in b.folds
<1>1. \A f \in b.folds : \E u \in 1..Vms, p \in Path \ {<<>>} : f = <<u, p>>
  BY BuildIs, FoldableIs
<1>2. ASSUME NEW q, q \in FoldsOf(b, v) PROVE q \in Path \ {<<>>} /\ <<v, q>> \in b.folds
  <2>1. PICK f \in b.folds : f[1] = v /\ q = f[2]
    BY <1>2 DEF FoldsOf
  <2>2. PICK u \in 1..Vms, p \in Path \ {<<>>} : f = <<u, p>>
    BY <1>1
  <2> QED
    BY <2>1, <2>2
<1>3. ASSUME NEW q \in Path, <<v, q>> \in b.folds PROVE q \in FoldsOf(b, v)
  <2>1. <<v, q>>[1] = v /\ <<v, q>>[2] = q
    OBVIOUS
  <2> QED
    BY <1>3, <2>1 DEF FoldsOf
<1> QED
  BY <1>2, <1>3

--------------------------------------------------------------------------------
\* The rows of the sidebar: a tree for each machine, under the machine's own row.
TreeOf(b, v) == Tree(Filtered(b, v), FoldsOf(b, v))

SideRow ==
  [row : [kind : {"vm", "folder", "elide", "session"}, path : Path, sid : Sid \cup {None}, depth : Nat,
          hasSub : BOOLEAN],
   vm : 1..Vms]

PartOf(b, v) == OnVm(v, <<VmRow(v)>> \o TreeOf(b, v))

PartIs(p, v, tree) ==
  /\ p \in Seq(SideRow) /\ Len(p) = Len(tree) + 1
  /\ p[1] = [row |-> VmRow(v), vm |-> v]
  /\ \A i \in DOMAIN tree : i + 1 \in DOMAIN p /\ p[i + 1] = [row |-> tree[i], vm |-> v]
  /\ \A j \in DOMAIN p : j = 1 \/ j - 1 \in DOMAIN tree
  /\ \A j \in DOMAIN p : p[j].vm = v

LEMMA TreeOfIs ==
  ASSUME NEW b \in Builds, NEW v \in 1..Vms
  PROVE  TreeFrom(Sid, Filtered(b, v), FoldsOf(b, v), TreeOf(b, v))
  BY FilteredIs, FoldsAre, TreeIs DEF TreeOf

LEMMA PartsAre ==
  ASSUME NEW b \in Builds, NEW v \in 1..Vms
  PROVE  PartIs(PartOf(b, v), v, TreeOf(b, v))
<1>1. PICK tree : tree = TreeOf(b, v)
  OBVIOUS
<1>2. tree \in Seq(TreeRow(Sid)) /\ Len(tree) \in Nat /\ DOMAIN tree = 1..Len(tree)
  <2>1. tree \in Seq(TreeRow(Sid))
    BY <1>1, TreeOfIs DEF TreeFrom
  <2> QED
    BY <2>1
<1>3. PICK R : R = [kind : {"vm", "folder", "elide", "session"}, path : Path, sid : Sid \cup {None}, depth : Nat,
                    hasSub : BOOLEAN]
  OBVIOUS
<1>4. VmRow(v) \in R
  <2>1. <<>> \in Path
    BY DEF Path
  <2> QED
    BY <1>3, <2>1 DEF VmRow
<1>5. \A x \in TreeRow(Sid) : x \in R
  BY <1>3 DEF TreeRow
<1>6. tree \in Seq(R) /\ <<VmRow(v)>> \in Seq(R) /\ Len(<<VmRow(v)>>) = 1 /\ <<VmRow(v)>>[1] = VmRow(v)
  <2>1. tree \in [1..Len(tree) -> R]
    BY <1>2, <1>5
  <2>2. tree \in Seq(R)
    BY <1>2, <2>1
  <2> QED
    BY <1>4, <2>2
<1>7. PICK whole, top : top = <<VmRow(v)>> /\ whole = top \o tree
  OBVIOUS
<1>8. /\ whole \in Seq(R) /\ Len(whole) = 1 + Len(tree)
      /\ \A i \in 1..1+Len(tree) : whole[i] = IF i <= 1 THEN top[i] ELSE tree[i - 1]
  <2>1. /\ top \o tree \in Seq(R) /\ Len(top \o tree) = Len(top) + Len(tree)
        /\ \A i \in 1..Len(top) + Len(tree) : (top \o tree)[i] = IF i <= Len(top) THEN top[i] ELSE tree[i - Len(top)]
    BY <1>6, <1>7, ConcatProperties
  <2>2. Len(top) = 1
    BY <1>6, <1>7
  <2> QED
    BY <1>7, <2>1, <2>2
<1>9. DOMAIN whole = 1..1+Len(tree) /\ whole[1] = VmRow(v) /\ \A i \in 1..1+Len(tree) : whole[i] \in R
  BY <1>2, <1>6, <1>7, <1>8
<1>10. PICK p : p = PartOf(b, v)
  OBVIOUS
<1>11. p = [i \in 1..1+Len(tree) |-> [row |-> whole[i], vm |-> v]]
  BY <1>1, <1>7, <1>9, <1>10 DEF PartOf, OnVm
<1>12. \A i \in 1..1+Len(tree) : p[i] = [row |-> whole[i], vm |-> v] /\ p[i] \in SideRow /\ p[i].vm = v
  BY <1>3, <1>9, <1>11 DEF SideRow
<1>13. p \in [1..1+Len(tree) -> SideRow] /\ DOMAIN p = 1..1+Len(tree)
  BY <1>11, <1>12
<1>14. p \in Seq(SideRow) /\ Len(p) = Len(tree) + 1
  BY <1>2, <1>13
<1>15. 1 \in 1..1+Len(tree)
  BY <1>2
<1>16. p[1] = [row |-> VmRow(v), vm |-> v]
  BY <1>9, <1>12, <1>15
<1>17. ASSUME NEW i \in DOMAIN tree PROVE i + 1 \in DOMAIN p /\ p[i + 1] = [row |-> tree[i], vm |-> v]
  <2>1. i + 1 \in 1..1+Len(tree) /\ ~(i + 1 <= 1) /\ i + 1 - 1 = i
    BY <1>2
  <2>2. whole[i + 1] = tree[i]
    BY <1>8, <2>1
  <2> QED
    BY <1>12, <1>13, <2>1, <2>2
<1>18. \A j \in DOMAIN p : j = 1 \/ j - 1 \in DOMAIN tree
  BY <1>2, <1>13
<1> QED
  BY <1>1, <1>10, <1>12, <1>13, <1>14, <1>16, <1>17, <1>18 DEF PartIs

SideIs(b, t, s, off) ==
  /\ t \in Seq(SideRow) /\ s \in [1..Vms -> Seq(SideRow)] /\ IsFlat(t, s, Vms, off)
  /\ \A v \in 1..Vms : s[v] = PartOf(b, v) /\ PartIs(s[v], v, TreeOf(b, v))

LEMMA RowsAsParts ==
  ASSUME NEW b \in Builds
  PROVE  \E s : s \in [1..Vms -> Seq(SideRow)] /\ RowsOf[b] = FlattenSeq(s) /\ \A v \in 1..Vms : s[v] = PartOf(b, v)
<1>1. PICK s : s = [v \in 1..Vms |-> PartOf(b, v)]
  OBVIOUS
<1>2. s \in [1..Vms -> Seq(SideRow)]
  BY <1>1, PartsAre DEF PartIs
<1>3. RowsOf[b] = FlattenSeq(s)
  BY <1>1 DEF RowsOf, PartOf, TreeOf, FoldsOf
<1>4. \A v \in 1..Vms : s[v] = PartOf(b, v)
  BY <1>1
<1> QED
  BY <1>2, <1>3, <1>4

LEMMA SideAre ==
  ASSUME NEW b \in Builds
  PROVE  \E s, off : SideIs(b, RowsOf[b], s, off)
<1>1. PICK s : s \in [1..Vms -> Seq(SideRow)] /\ RowsOf[b] = FlattenSeq(s) /\ \A v \in 1..Vms : s[v] = PartOf(b, v)
  BY RowsAsParts
<1>2. Vms \in Nat
  BY AppAssumption
<1>3. PICK t : t = RowsOf[b]
  OBVIOUS
<1>4. PICK off : t \in Seq(SideRow) /\ IsFlat(t, s, Vms, off)
  BY <1>1, <1>2, <1>3, FlattenPlaces
<1> QED
  BY <1>1, <1>3, <1>4, PartsAre DEF SideIs

\* Where the rows of a machine are among all of them.
LEMMA SideRowsAre ==
  ASSUME NEW b \in Builds, NEW t, NEW s, NEW off, SideIs(b, t, s, off)
  PROVE  /\ Len(t) \in Nat /\ DOMAIN t = 1..Len(t) /\ \A i \in DOMAIN t : t[i] \in SideRow
         /\ \A v \in 1..Vms : \A r \in DOMAIN TreeOf(b, v) :
              /\ off[v] + r + 1 \in DOMAIN t
              /\ t[off[v] + r + 1] = [row |-> TreeOf(b, v)[r], vm |-> v]
         /\ \A i \in DOMAIN t : \/ t[i] = [row |-> VmRow(t[i].vm), vm |-> t[i].vm]
                                \/ \E r \in DOMAIN TreeOf(b, t[i].vm) :
                                     /\ i = off[t[i].vm] + r + 1
                                     /\ t[i] = [row |-> TreeOf(b, t[i].vm)[r], vm |-> t[i].vm]
<1>1. /\ t \in Seq(SideRow) /\ s \in [1..Vms -> Seq(SideRow)] /\ IsFlat(t, s, Vms, off)
      /\ \A v \in 1..Vms : PartIs(s[v], v, TreeOf(b, v))
  BY DEF SideIs
<1>2. Len(t) \in Nat /\ DOMAIN t = 1..Len(t) /\ \A i \in DOMAIN t : t[i] \in SideRow
  BY <1>1
<1>3. \A v \in 1..Vms : /\ off[v] \in Nat /\ Len(s[v]) \in Nat /\ DOMAIN s[v] = 1..Len(s[v])
                        /\ DOMAIN TreeOf(b, v) \in SUBSET Nat
  <2> SUFFICES ASSUME NEW v \in 1..Vms
               PROVE  /\ off[v] \in Nat /\ Len(s[v]) \in Nat /\ DOMAIN s[v] = 1..Len(s[v])
                      /\ DOMAIN TreeOf(b, v) \in SUBSET Nat
    OBVIOUS
  <2>1. off \in [1..Vms+1 -> Nat] /\ v \in 1..Vms+1
    BY <1>1, AppAssumption DEF IsFlat
  <2>2. TreeOf(b, v) \in Seq(TreeRow(Sid))
    BY TreeOfIs DEF TreeFrom
  <2> QED
    BY <1>1, <2>1, <2>2
<1>4. ASSUME NEW v \in 1..Vms, NEW r \in DOMAIN TreeOf(b, v)
      PROVE  /\ off[v] + r + 1 \in DOMAIN t
             /\ t[off[v] + r + 1] = [row |-> TreeOf(b, v)[r], vm |-> v]
  <2>1. r + 1 \in 1..Len(s[v]) /\ s[v][r + 1] = [row |-> TreeOf(b, v)[r], vm |-> v]
    <3>1. PartIs(s[v], v, TreeOf(b, v)) /\ DOMAIN s[v] = 1..Len(s[v])
      BY <1>1, <1>3
    <3> QED
      BY <3>1 DEF PartIs
  <2>2. off[v] + (r + 1) \in 1..Len(t) /\ t[off[v] + (r + 1)] = s[v][r + 1]
    BY <1>1, <2>1 DEF IsFlat
  <2>3. off[v] + (r + 1) = off[v] + r + 1
    <3>1. off[v] \in Nat /\ r \in Nat
      BY <1>3
    <3> QED
      BY <3>1
  <2> QED
    BY <1>2, <2>1, <2>2, <2>3
<1>5. ASSUME NEW i \in DOMAIN t
      PROVE  \/ t[i] = [row |-> VmRow(t[i].vm), vm |-> t[i].vm]
             \/ \E r \in DOMAIN TreeOf(b, t[i].vm) :
                  /\ i = off[t[i].vm] + r + 1
                  /\ t[i] = [row |-> TreeOf(b, t[i].vm)[r], vm |-> t[i].vm]
  <2>1. PICK v \in 1..Vms : i - off[v] \in 1..Len(s[v]) /\ t[i] = s[v][i - off[v]]
    BY <1>1, <1>2 DEF IsFlat
  <2>2. PICK j \in 1..Len(s[v]) : j = i - off[v]
    BY <2>1
  <2>3. PartIs(s[v], v, TreeOf(b, v)) /\ j \in DOMAIN s[v] /\ t[i] = s[v][j]
    BY <1>1, <1>3, <2>1, <2>2
  <2>4. t[i].vm = v
    BY <2>3 DEF PartIs
  <2>5. CASE j = 1
    BY <2>3, <2>4, <2>5 DEF PartIs
  <2>6. CASE j # 1
    <3>1. PICK r \in DOMAIN TreeOf(b, v) : r = j - 1
      BY <2>3, <2>6 DEF PartIs
    <3>2. r + 1 = j /\ i = off[v] + r + 1
      BY <1>2, <1>3, <2>2, <3>1
    <3>3. t[i] = [row |-> TreeOf(b, v)[r], vm |-> v]
      BY <2>3, <3>2 DEF PartIs
    <3> QED
      BY <2>4, <3>2, <3>3
  <2> QED
    BY <2>5, <2>6
<1> QED
  BY <1>2, <1>4, <1>5

\* The first row is of the first machine, and the last one stands for something.
LEMMA SideEnds ==
  ASSUME NEW b \in Builds
  PROVE  LET t == RowsOf[b]
         IN  /\ Len(t) \in Nat \ {0} /\ DOMAIN t = 1..Len(t)
             /\ t[1].row.kind # "elide" /\ t[Len(t)].row.kind # "elide"
<1>1. PICK t, s, off : t = RowsOf[b] /\ SideIs(b, t, s, off)
  BY SideAre
<1>2. /\ t \in Seq(SideRow) /\ s \in [1..Vms -> Seq(SideRow)] /\ IsFlat(t, s, Vms, off)
      /\ \A v \in 1..Vms : PartIs(s[v], v, TreeOf(b, v))
  BY <1>1 DEF SideIs
<1>3. Vms \in Nat \ {0} /\ 1 \in 1..Vms
  BY AppAssumption
<1>4. \A v \in 1..Vms : Len(s[v]) \in Nat \ {0} /\ Len(s[v]) = Len(TreeOf(b, v)) + 1 /\ Len(TreeOf(b, v)) \in Nat
  <2> SUFFICES ASSUME NEW v \in 1..Vms
               PROVE  Len(s[v]) \in Nat \ {0} /\ Len(s[v]) = Len(TreeOf(b, v)) + 1 /\ Len(TreeOf(b, v)) \in Nat
    OBVIOUS
  <2>1. TreeOf(b, v) \in Seq(TreeRow(Sid))
    BY TreeOfIs DEF TreeFrom
  <2>2. Len(s[v]) = Len(TreeOf(b, v)) + 1
    BY <1>2 DEF PartIs
  <2> QED
    BY <2>1, <2>2
<1>5. 0 + 1 \in 1..Len(t) /\ t[0 + 1] = s[1][1]
  <2>1. off[1] = 0 /\ 1 \in 1..Len(s[1])
    BY <1>2, <1>3, <1>4 DEF IsFlat
  <2> QED
    BY <1>2, <1>3, <2>1 DEF IsFlat
<1>6. t[1].row.kind # "elide"
  <2>1. s[1][1] = [row |-> VmRow(1), vm |-> 1]
    BY <1>2, <1>3 DEF PartIs
  <2>2. t[1].row = VmRow(1)
    BY <1>5, <2>1
  <2> QED
    BY <2>2 DEF VmRow
<1>7. Len(t) \in Nat \ {0} /\ DOMAIN t = 1..Len(t)
  BY <1>2, <1>5
<1>8. EndsAsOne(t, s, Vms)
  <2>1. Len(t) # 0 /\ Vms \in Nat
    BY <1>3, <1>7
  <2> QED
    BY <1>2, <2>1, FlatLast
<1>9. t[Len(t)].row.kind # "elide"
  <2>1. PICK v \in 1..Vms : t[Len(t)] = s[v][Len(s[v])]
    BY <1>8 DEF EndsAsOne
  <2>2. PICK tree : tree = TreeOf(b, v)
    OBVIOUS
  <2>3. Len(s[v]) = Len(tree) + 1 /\ Len(tree) \in Nat /\ PartIs(s[v], v, tree)
    BY <1>2, <1>4, <2>2
  <2>4. CASE Len(tree) = 0
    <3>1. t[Len(t)] = s[v][1]
      BY <2>1, <2>3, <2>4
    <3>2. t[Len(t)].row = VmRow(v)
      BY <2>3, <3>1 DEF PartIs
    <3> QED
      BY <3>2 DEF VmRow
  <2>5. CASE Len(tree) # 0
    <3>1. tree \in Seq(TreeRow(Sid)) /\ EndsNamed(tree)
      BY <2>2, TreeOfIs DEF TreeFrom
    <3>2. Len(tree) \in DOMAIN tree
      BY <2>3, <2>5, <3>1
    <3>3. s[v][Len(tree) + 1] = [row |-> tree[Len(tree)], vm |-> v]
      BY <2>3, <3>2 DEF PartIs
    <3>4. t[Len(t)].row = tree[Len(tree)]
      BY <2>1, <2>3, <3>3
    <3> QED
      BY <2>5, <3>1, <3>4 DEF EndsNamed
  <2> QED
    BY <2>4, <2>5
<1> QED
  BY <1>1, <1>6, <1>7, <1>9

\* A folder of a machine is on one row, and only one that is on a row can be folded.
LEMMA SideFolders ==
  ASSUME NEW b \in Builds
  PROVE  LET t == RowsOf[b]
         IN  /\ \A i \in DOMAIN t : t[i] \in SideRow
             /\ \A i \in DOMAIN t : t[i].row.hasSub =>
                  t[i].row.kind = "folder" /\ <<t[i].vm, t[i].row.path>> \in Foldable
             /\ \A i, j \in DOMAIN t :
                  /\ t[i].row.kind = "folder" /\ t[j].row.kind = "folder"
                  /\ t[i].vm = t[j].vm /\ t[i].row.path = t[j].row.path
                  => i = j
<1>1. PICK t, s, off : t = RowsOf[b] /\ SideIs(b, t, s, off)
  BY SideAre
<1>2. /\ \A i \in DOMAIN t : t[i] \in SideRow
      /\ \A i \in DOMAIN t : \/ t[i] = [row |-> VmRow(t[i].vm), vm |-> t[i].vm]
                             \/ \E r \in DOMAIN TreeOf(b, t[i].vm) :
                                  /\ i = off[t[i].vm] + r + 1
                                  /\ t[i] = [row |-> TreeOf(b, t[i].vm)[r], vm |-> t[i].vm]
  BY <1>1, SideRowsAre
<1>3. \A i \in DOMAIN t : t[i].vm \in 1..Vms
  BY <1>2 DEF SideRow
<1>4. ASSUME NEW i \in DOMAIN t, t[i].row.kind = "folder" \/ t[i].row.hasSub
      PROVE  \E r \in DOMAIN TreeOf(b, t[i].vm) :
               i = off[t[i].vm] + r + 1 /\ t[i].row = TreeOf(b, t[i].vm)[r]
  <2>1. CASE t[i] = [row |-> VmRow(t[i].vm), vm |-> t[i].vm]
    <3>1. t[i].row = VmRow(t[i].vm)
      BY <2>1
    <3>2. t[i].row.kind = "vm" /\ t[i].row.hasSub = FALSE
      BY <3>1 DEF VmRow
    <3> QED
      BY <1>4, <3>2
  <2>2. ASSUME NEW r \in DOMAIN TreeOf(b, t[i].vm), i = off[t[i].vm] + r + 1,
               t[i] = [row |-> TreeOf(b, t[i].vm)[r], vm |-> t[i].vm]
        PROVE  i = off[t[i].vm] + r + 1 /\ t[i].row = TreeOf(b, t[i].vm)[r]
    <3>1. PICK x : x = TreeOf(b, t[i].vm)[r]
      OBVIOUS
    <3>2. t[i].row = x
      BY <2>2, <3>1
    <3> QED
      BY <2>2, <3>1, <3>2
  <2> QED
    BY <1>2, <2>1, <2>2
<1>5. ASSUME NEW i \in DOMAIN t, t[i].row.hasSub
      PROVE  t[i].row.kind = "folder" /\ <<t[i].vm, t[i].row.path>> \in Foldable
  <2>1. PICK v \in 1..Vms : v = t[i].vm
    BY <1>3
  <2>2. PICK tree, l : tree = TreeOf(b, v) /\ l = Filtered(b, v)
    OBVIOUS
  <2>3. PICK r \in DOMAIN tree : t[i].row = tree[r]
    BY <1>4, <1>5, <2>1, <2>2
  <2>4. tree \in Seq(TreeRow(Sid)) /\ Named(tree) = Folders(l) \ Hidden(l, FoldsOf(b, v))
    BY <2>2, TreeOfIs DEF TreeFrom
  <2>5. tree[r] \in TreeRow(Sid)
    BY <2>4
  <2>6. tree[r].kind = "folder"
    BY <1>5, <2>3, <2>5 DEF TreeRow
  <2>7. tree[r].path \in Folders(l)
    BY <2>4, <2>6 DEF Named
  <2>8. PICK k \in DOMAIN l : \E n \in 1..Len(l[k].path) : tree[r].path = SubSeq(l[k].path, 1, n)
    BY <2>7 DEF Folders
  <2>9. l[k].sid \in Sid /\ VmOf[l[k].sid] = v /\ l[k].path = Segments(Cwd[l[k].sid])
    BY <2>2, FilteredIs DEF OfVm
  <2>10. PICK x \in Sid : VmOf[x] = v /\ l[k].path = Segments(Cwd[x])
    BY <2>9
  <2>11. PICK n \in 1..Len(Segments(Cwd[x])) : tree[r].path = SubSeq(Segments(Cwd[x]), 1, n)
    BY <2>8, <2>10
  <2>12. <<v, tree[r].path>> \in Foldable
    BY <2>10, <2>11 DEF Foldable
  <2> QED
    BY <2>1, <2>3, <2>6, <2>12
<1>6. ASSUME NEW i \in DOMAIN t, NEW j \in DOMAIN t,
             t[i].row.kind = "folder", t[j].row.kind = "folder",
             t[i].vm = t[j].vm, t[i].row.path = t[j].row.path
      PROVE  i = j
  <2>1. PICK v \in 1..Vms : v = t[i].vm /\ v = t[j].vm
    BY <1>3, <1>6
  <2>2. PICK tree : tree = TreeOf(b, v)
    OBVIOUS
  <2>3. PICK q \in DOMAIN tree : i = off[v] + q + 1 /\ t[i].row = tree[q]
    BY <1>4, <1>6, <2>1, <2>2
  <2>4. PICK r \in DOMAIN tree : j = off[v] + r + 1 /\ t[j].row = tree[r]
    BY <1>4, <1>6, <2>1, <2>2
  <2>5. Grouped(Filtered(b, v), tree)
    BY <2>2, TreeOfIs DEF TreeFrom
  <2>6. q = r
    BY <1>6, <2>3, <2>4, <2>5 DEF Grouped, IsFolder
  <2> QED
    BY <2>3, <2>4, <2>6
<1>7. \A i \in DOMAIN t : t[i].row.hasSub =>
        t[i].row.kind = "folder" /\ <<t[i].vm, t[i].row.path>> \in Foldable
  BY <1>5
<1>8. \A i, j \in DOMAIN t :
        /\ t[i].row.kind = "folder" /\ t[j].row.kind = "folder"
        /\ t[i].vm = t[j].vm /\ t[i].row.path = t[j].row.path
        => i = j
  BY <1>6
<1> QED
  BY <1>1, <1>2, <1>7, <1>8

\* A session that the filter lets through is on one row, and any other on none.
LEMMA SideSessions ==
  ASSUME NEW b \in Builds, NEW x \in Sid
  PROVE  Cardinality({i \in DOMAIN RowsOf[b] : RowsOf[b][i].row.sid = x})
           = IF x \in b.listed \cap Hits[b.text] THEN 1 ELSE 0
<1>1. PICK t, s, off : t = RowsOf[b] /\ SideIs(b, t, s, off)
  BY SideAre
<1>2. PICK H : H = {i \in DOMAIN t : t[i].row.sid = x}
  OBVIOUS
<1>3. PICK v \in 1..Vms : v = VmOf[x]
  BY SidsAre
<1>4. /\ \A i \in DOMAIN t : t[i].vm \in 1..Vms
      /\ \A u \in 1..Vms : \A r \in DOMAIN TreeOf(b, u) :
           off[u] + r + 1 \in DOMAIN t /\ t[off[u] + r + 1].row = TreeOf(b, u)[r]
      /\ \A i \in DOMAIN t : \/ t[i].row = VmRow(t[i].vm)
                             \/ \E r \in DOMAIN TreeOf(b, t[i].vm) :
                                  i = off[t[i].vm] + r + 1 /\ t[i].row = TreeOf(b, t[i].vm)[r]
  <2>1. \A i \in DOMAIN t : t[i].vm \in 1..Vms
    BY <1>1, SideRowsAre DEF SideRow
  <2>2. ASSUME NEW u \in 1..Vms, NEW r \in DOMAIN TreeOf(b, u)
        PROVE  off[u] + r + 1 \in DOMAIN t /\ t[off[u] + r + 1].row = TreeOf(b, u)[r]
    <3>1. off[u] + r + 1 \in DOMAIN t /\ t[off[u] + r + 1] = [row |-> TreeOf(b, u)[r], vm |-> u]
      BY <1>1, SideRowsAre
    <3> QED
      BY <3>1
  <2>3. ASSUME NEW i \in DOMAIN t
        PROVE  \/ t[i].row = VmRow(t[i].vm)
               \/ \E r \in DOMAIN TreeOf(b, t[i].vm) :
                    i = off[t[i].vm] + r + 1 /\ t[i].row = TreeOf(b, t[i].vm)[r]
    <3>1. PICK y, u : y = t[i] /\ u = t[i].vm
      OBVIOUS
    <3>2. \/ y = [row |-> VmRow(u), vm |-> u]
          \/ \E r \in DOMAIN TreeOf(b, u) : i = off[u] + r + 1 /\ y = [row |-> TreeOf(b, u)[r], vm |-> u]
      BY <1>1, <3>1, SideRowsAre
    <3>3. y.row = VmRow(u) \/ \E r \in DOMAIN TreeOf(b, u) : i = off[u] + r + 1 /\ y.row = TreeOf(b, u)[r]
      BY <3>2
    <3> QED
      BY <3>1, <3>3
  <2> QED
    BY <2>1, <2>2, <2>3
<1>5. ASSUME NEW u \in 1..Vms
      PROVE  LET l == Filtered(b, u)
                 tree == TreeOf(b, u)
             IN  /\ (\E i \in DOMAIN l : l[i].sid = x) =>
                      \E r \in DOMAIN tree : {q \in DOMAIN tree : tree[q].sid = x} = {r}
                 /\ (\A i \in DOMAIN l : l[i].sid # x) => {q \in DOMAIN tree : tree[q].sid = x} = {}
  <2>1. PICK l, tree : l = Filtered(b, u) /\ tree = TreeOf(b, u)
    OBVIOUS
  <2>2. l \in Listing(Sid)
    BY <2>1, FilteredIs
  <2>3. /\ tree \in Seq(TreeRow(Sid)) /\ Grouped(l, tree)
        /\ Named(tree) = Folders(l) \ Hidden(l, FoldsOf(b, u))
    BY <2>1, TreeOfIs DEF TreeFrom
  <2>4. \A i \in DOMAIN l : l[i].path \in Named(tree)
    BY <2>2, <2>3, FoldersAre, AtIs DEF Hidden
  <2> QED
    BY <2>1, <2>2, <2>3, <2>4, SidsAre, TreeRowsOf
<1>6. \A i \in H : \E r \in DOMAIN TreeOf(b, t[i].vm) :
                     i = off[t[i].vm] + r + 1 /\ TreeOf(b, t[i].vm)[r].sid = x
  <2> SUFFICES ASSUME NEW i \in H
               PROVE  \E r \in DOMAIN TreeOf(b, t[i].vm) :
                        i = off[t[i].vm] + r + 1 /\ TreeOf(b, t[i].vm)[r].sid = x
    OBVIOUS
  <2>1. i \in DOMAIN t /\ t[i].row.sid = x
    BY <1>2
  <2>2. t[i].row # VmRow(t[i].vm)
    <3>1. VmRow(t[i].vm).sid = None
      BY DEF VmRow
    <3> QED
      BY <2>1, <3>1, SidsAre
  <2> QED
    BY <1>4, <2>1, <2>2
<1>7. \A u \in 1..Vms : (\E i \in DOMAIN Filtered(b, u) : Filtered(b, u)[i].sid = x)
                           <=> u = v /\ x \in b.listed \cap Hits[b.text]
  BY <1>3, FilteredIs DEF OfVm
<1>8. CASE x \in b.listed \cap Hits[b.text]
  <2>1. PICK tree : tree = TreeOf(b, v)
    OBVIOUS
  <2>2. PICK r \in DOMAIN tree : {q \in DOMAIN tree : tree[q].sid = x} = {r}
    BY <1>5, <1>7, <1>8, <2>1
  <2>3. ASSUME NEW i \in H PROVE i = off[v] + r + 1
    <3>1. PICK u \in 1..Vms : u = t[i].vm
      BY <1>2, <1>4
    <3>2. PICK q \in DOMAIN TreeOf(b, u) : i = off[u] + q + 1 /\ TreeOf(b, u)[q].sid = x
      BY <1>6, <3>1
    <3>3. u = v
      BY <1>5, <1>7, <3>2
    <3>4. q = r
      BY <2>1, <2>2, <3>2, <3>3
    <3> QED
      BY <3>2, <3>3, <3>4
  <2>4. off[v] + r + 1 \in H
    <3>1. tree[r].sid = x
      BY <2>2
    <3>2. off[v] + r + 1 \in DOMAIN t /\ t[off[v] + r + 1].row = tree[r]
      BY <1>4, <2>1
    <3> QED
      BY <1>2, <3>1, <3>2
  <2>5. H = {off[v] + r + 1}
    BY <2>3, <2>4
  <2>6. Cardinality(H) = 1
    BY <2>5, FS_Singleton
  <2> QED
    BY <1>1, <1>2, <1>8, <2>6
<1>9. CASE x \notin b.listed \cap Hits[b.text]
  <2>1. ASSUME NEW i \in H PROVE FALSE
    <3>1. PICK u \in 1..Vms : u = t[i].vm
      BY <1>2, <1>4
    <3>2. PICK q \in DOMAIN TreeOf(b, u) : TreeOf(b, u)[q].sid = x
      BY <1>6, <3>1
    <3> QED
      BY <1>5, <1>7, <1>9, <3>2
  <2>2. H = {}
    BY <2>1
  <2>3. Cardinality(H) = 0
    BY <2>2, FS_EmptySet
  <2> QED
    BY <1>1, <1>2, <1>9, <2>3
<1> QED
  BY <1>8, <1>9

--------------------------------------------------------------------------------
\* Folding a folder of a machine, or unfolding it, changes nothing above its row.
FolderRows(v, p) == {x \in SideRow : x.vm = v /\ x.row.kind = "folder" /\ x.row.path = p}

SameBut(b, c, f) ==
  /\ c.listed = b.listed /\ c.text = b.text
  /\ \A g \in Foldable : g # f => (g \in b.folds <=> g \in c.folds)

LEMMA PartsAbove ==
  ASSUME NEW b \in Builds, NEW c \in Builds, NEW v \in 1..Vms, NEW p \in Path, SameBut(b, c, <<v, p>>),
         NEW u \in 1..Vms
  PROVE  Same(PartOf(b, u), PartOf(c, u), FolderRows(v, p))
<1>1. PICK l : l = Filtered(b, u) /\ l = Filtered(c, u)
  BY DEF SameBut, Filtered
<1>2. l \in Listing(Sid)
  BY <1>1, FilteredIs
<1>3. FoldsOf(b, u) \in SUBSET (Path \ {<<>>}) /\ FoldsOf(c, u) \in SUBSET (Path \ {<<>>})
  BY FoldsAre
<1>4. \A q \in Path : (u # v \/ q # p) => (q \in FoldsOf(b, u) <=> q \in FoldsOf(c, u))
  <2> SUFFICES ASSUME NEW q \in Path, u # v \/ q # p PROVE q \in FoldsOf(b, u) <=> q \in FoldsOf(c, u)
    OBVIOUS
  <2>1. <<u, q>> # <<v, p>>
    OBVIOUS
  <2>2. b.folds \in SUBSET Foldable /\ c.folds \in SUBSET Foldable
    BY BuildIs
  <2>3. <<u, q>> \in b.folds <=> <<u, q>> \in c.folds
    BY <2>1, <2>2 DEF SameBut
  <2> QED
    BY <2>3, FoldsAre
<1>5. PICK x, y : x = TreeOf(b, u) /\ y = TreeOf(c, u)
  OBVIOUS
<1>6. CASE x = y
  BY <1>5, <1>6 DEF PartOf, Same
<1>7. CASE x # y
  <2>1. u = v
    <3>1. ASSUME u # v PROVE FALSE
      <4>1. FoldsOf(b, u) = FoldsOf(c, u)
        BY <1>3, <1>4, <3>1
      <4> QED
        BY <1>1, <1>5, <1>7, <4>1 DEF TreeOf
    <3> QED
      BY <3>1
  <2>2. Same(x, y, RowsNaming(Sid, p))
    <3>1. FoldsOf(b, u) \in SUBSET Path /\ FoldsOf(c, u) \in SUBSET Path
      BY <1>3
    <3>2. \A q \in Path : q # p => (q \in FoldsOf(b, u) <=> q \in FoldsOf(c, u))
      BY <1>4
    <3>3. x = Tree(l, FoldsOf(b, u)) /\ y = Tree(l, FoldsOf(c, u))
      BY <1>1, <1>5 DEF TreeOf
    <3> QED
      BY <1>2, <3>1, <3>2, <3>3, TreeAbove
  <2>3. PICK k \in DOMAIN x : k \in DOMAIN y /\ x[k] \in RowsNaming(Sid, p) /\ \A i \in 1..k : x[i] = y[i]
    BY <1>7, <2>2 DEF Same
  <2>4. PICK d, e : d = PartOf(b, u) /\ e = PartOf(c, u)
    OBVIOUS
  <2>5. PartIs(d, u, x) /\ PartIs(e, u, y)
    BY <1>5, <2>4, PartsAre
  <2>6. x \in Seq(TreeRow(Sid)) /\ y \in Seq(TreeRow(Sid))
    BY <1>5, TreeOfIs DEF TreeFrom
  <2>7. k \in Nat \ {0} /\ \A i \in 1..k : i \in DOMAIN x /\ i \in DOMAIN y
    BY <2>3, <2>6
  <2>8. k + 1 \in DOMAIN d /\ k + 1 \in DOMAIN e /\ d[k + 1] = [row |-> x[k], vm |-> u]
    BY <2>3, <2>5 DEF PartIs
  <2>9. d[k + 1] \in FolderRows(v, p)
    <3>1. d \in Seq(SideRow)
      BY <2>5 DEF PartIs
    <3>2. d[k + 1] \in SideRow
      BY <2>8, <3>1
    <3>3. d[k + 1].vm = v /\ d[k + 1].row = x[k]
      BY <2>1, <2>8
    <3> QED
      BY <2>3, <3>2, <3>3 DEF FolderRows, RowsNaming
  <2>10. ASSUME NEW i \in 1..k+1 PROVE d[i] = e[i]
    <3>1. CASE i = 1
      BY <2>5, <3>1 DEF PartIs
    <3>2. CASE i # 1
      <4>1. PICK j \in 1..k : i = j + 1
        <5>1. i - 1 \in 1..k /\ i = i - 1 + 1
          BY <2>7, <3>2
        <5> QED
          BY <5>1
      <4>2. d[j + 1] = [row |-> x[j], vm |-> u] /\ e[j + 1] = [row |-> y[j], vm |-> u]
        BY <2>5, <2>7 DEF PartIs
      <4> QED
        BY <2>3, <4>1, <4>2
    <3> QED
      BY <3>1, <3>2
  <2>11. \E n \in DOMAIN d : n \in DOMAIN e /\ d[n] \in FolderRows(v, p) /\ \A i \in 1..n : d[i] = e[i]
    BY <2>8, <2>9, <2>10
  <2> QED
    BY <2>4, <2>11 DEF Same
<1> QED
  BY <1>6, <1>7

LEMMA SideAbove ==
  ASSUME NEW b \in Builds, NEW c \in Builds, NEW v \in 1..Vms, NEW p \in Path, SameBut(b, c, <<v, p>>)
  PROVE  Same(RowsOf[b], RowsOf[c], FolderRows(v, p))
<1>1. PICK s : s \in [1..Vms -> Seq(SideRow)] /\ RowsOf[b] = FlattenSeq(s) /\ \A u \in 1..Vms : s[u] = PartOf(b, u)
  BY RowsAsParts
<1>2. PICK z : z \in [1..Vms -> Seq(SideRow)] /\ RowsOf[c] = FlattenSeq(z) /\ \A u \in 1..Vms : z[u] = PartOf(c, u)
  BY RowsAsParts
<1>3. \A u \in 1..Vms : Same(s[u], z[u], FolderRows(v, p))
  BY <1>1, <1>2, PartsAbove
<1>4. Vms \in Nat
  BY AppAssumption
<1>5. Same(FlattenSeq(s), FlattenSeq(z), FolderRows(v, p))
  BY <1>1, <1>2, <1>3, <1>4, SameFlat
<1> QED
  BY <1>1, <1>2, <1>5

\* So its row stays where it is.
LEMMA FoldStays ==
  ASSUME NEW b \in Builds, NEW c \in Builds, NEW i \in DOMAIN RowsOf[b], RowsOf[b][i].row.kind = "folder",
         SameBut(b, c, <<RowsOf[b][i].vm, RowsOf[b][i].row.path>>)
  PROVE  i \in DOMAIN RowsOf[c] /\ RowsOf[c][i] = RowsOf[b][i]
<1>1. PICK t, u : t = RowsOf[b] /\ u = RowsOf[c]
  OBVIOUS
<1>2. \A j \in DOMAIN t : t[j] \in SideRow
  BY <1>1, SideFolders
<1>3. PICK v \in 1..Vms, p \in Path : v = t[i].vm /\ p = t[i].row.path
  BY <1>1, <1>2 DEF SideRow
<1>4. Same(t, u, FolderRows(v, p))
  BY <1>1, <1>3, SideAbove
<1>5. ASSUME NEW k \in DOMAIN t, k \in DOMAIN u, t[k] \in FolderRows(v, p), \A j \in 1..k : t[j] = u[j]
      PROVE  i \in DOMAIN u /\ u[i] = t[i]
  <2>1. t[k].row.kind = "folder" /\ t[k].vm = v /\ t[k].row.path = p
    BY <1>5 DEF FolderRows
  <2>2. k = i
    BY <1>1, <1>3, <2>1, SideFolders
  <2>3. k \in 1..k
    BY <1>1, <1>5, SideEnds
  <2> QED
    BY <1>5, <2>2, <2>3
<1> QED
  BY <1>1, <1>4, <1>5 DEF Same

--------------------------------------------------------------------------------
\* What every step keeps: sessions are what they are, ...
SessionsOk == sessions \in [Sid -> Session \cup {None}]

\* ... the rows are of what is listed, with the folds of now and, unless it is being typed,
\* the filter of now, ...
BuiltOk ==
  /\ built \in Builds /\ built.listed = Listed /\ built.folds = collapsed
  /\ filter \in Text /\ (~editing => built.text = filter)
  /\ sel \in DOMAIN rows

\* ... whoever is listed has a pane, and a drag is over one of them, ...
PanesOk ==
  /\ DOMAIN panes = Listed
  /\ selection # None => selection \in [sid : Listed, down : BOOLEAN, past : BOOLEAN]

\* ... and what is marked as news is idle.
DoneOk == \A s \in done : s \in Listed /\ Running(s) /\ sessions[s].activity = "Idle"

AppInv == SessionsOk /\ BuiltOk /\ PanesOk /\ DoneOk

\* SelectionHolds, of one step.
SelectionStep ==
  /\ built' = built /\ sel' # sel => rows[sel'].row.kind # "elide"
  /\ collapsed' # collapsed =>
       /\ rows'[sel].vm = rows[sel].vm
       /\ rows'[sel].row.kind = "folder" /\ rows'[sel].row.path = rows[sel].row.path

SideOk == BuiltOk' /\ SelectionStep

--------------------------------------------------------------------------------
\* What a step leaves alone it leaves as it should be.
LEMMA KeepsData ==
  ASSUME SessionsOk, DoneOk, UNCHANGED dataVars
  PROVE  SessionsOk' /\ DoneOk' /\ Listed' = Listed
  BY DEF SessionsOk, DoneOk, dataVars, Listed, Running

LEMMA KeepsSide ==
  ASSUME BuiltOk, UNCHANGED sideVars, Listed' = Listed, filter' \in Text,
         ~editing' => ~editing /\ filter' = filter
  PROVE  SideOk
<1>1. built' = built /\ sel' = sel /\ collapsed' = collapsed
  BY DEF sideVars
<1>2. rows' = rows
  BY <1>1 DEF rows
<1>3. BuiltOk'
  BY <1>1, <1>2 DEF BuiltOk
<1> QED
  BY <1>1, <1>3 DEF SideOk, SelectionStep

LEMMA KeepsAll ==
  ASSUME BuiltOk, UNCHANGED sideVars, UNCHANGED filterVars, Listed' = Listed
  PROVE  SideOk
<1>1. filter' = filter /\ editing' = editing /\ filter' \in Text
  BY DEF filterVars, BuiltOk
<1> QED
  BY <1>1, KeepsSide

LEMMA MovesSelection ==
  ASSUME BuiltOk, built' = built, collapsed' = collapsed, UNCHANGED filterVars, Listed' = Listed,
         sel' \in DOMAIN rows, Kind(sel') # "elide"
  PROVE  SideOk
<1>1. rows' = rows
  BY DEF rows
<1>2. filter' = filter /\ editing' = editing
  BY DEF filterVars
<1>3. BuiltOk'
  BY <1>1, <1>2 DEF BuiltOk
<1> QED
  BY <1>3 DEF SideOk, SelectionStep, Kind

\* The rows that are shown are some, and neither the first nor the last of them is elided.
LEMMA SideRowsShown ==
  ASSUME BuiltOk
  PROVE  /\ Len(rows) \in Nat \ {0} /\ DOMAIN rows = 1..Len(rows) /\ sel \in 1..Len(rows)
         /\ Kind(1) # "elide" /\ Kind(Len(rows)) # "elide"
         /\ \A i \in DOMAIN rows : rows[i] \in SideRow
         /\ \A i \in DOMAIN rows : Kind(i) = "session" => rows[i].row.sid \in Sid \cup {None}
<1>1. built \in Builds /\ sel \in DOMAIN rows
  BY DEF BuiltOk
<1>2. /\ Len(rows) \in Nat \ {0} /\ DOMAIN rows = 1..Len(rows)
      /\ Kind(1) # "elide" /\ Kind(Len(rows)) # "elide"
  BY <1>1, SideEnds DEF rows, Kind
<1>3. \A i \in DOMAIN rows : rows[i] \in SideRow
  BY <1>1, SideFolders DEF rows
<1>4. \A i \in DOMAIN rows : rows[i].row.sid \in Sid \cup {None}
  BY <1>3 DEF SideRow
<1> QED
  BY <1>1, <1>2, <1>3, <1>4

LEMMA GreatestPlace ==
  ASSUME NEW n \in Nat, NEW S \in SUBSET (1..n), S # {}
  PROVE  \E m \in S : \A i \in S : m >= i
<1>1. PICK D : D = {n - i : i \in S}
  OBVIOUS
<1>2. D \in SUBSET Nat /\ D # {}
  BY <1>1
<1>3. PICK d \in D : \A e \in D : d <= e
  BY <1>2, LeastPlace
<1>4. PICK m \in S : d = n - m
  BY <1>1
<1>5. ASSUME NEW i \in S PROVE m >= i
  <2>1. n - m <= n - i
    BY <1>1, <1>3, <1>4
  <2>2. m \in Int /\ i \in Int
    OBVIOUS
  <2> QED
    BY <2>1, <2>2
<1> QED
  BY <1>5

\* Stepping over the "..." stops at a row that is none.
LEMMA StepIs ==
  ASSUME BuiltOk, NEW down \in BOOLEAN, Step(down)
  PROVE  sel' \in DOMAIN rows /\ Kind(sel') # "elide"
<1>1. PICK n : n = Len(rows) /\ n \in Nat \ {0} /\ DOMAIN rows = 1..n
  BY SideRowsShown
<1>2. PICK ahead : ahead = {i \in DOMAIN rows : (IF down THEN i > sel ELSE i < sel) /\ Kind(i) # "elide"}
  OBVIOUS
<1>3. sel' = CASE ahead = {} -> IF down THEN n ELSE 1
               [] ahead # {} /\ down  -> CHOOSE i \in ahead : \A j \in ahead : i <= j
               [] ahead # {} /\ ~down -> CHOOSE i \in ahead : \A j \in ahead : i >= j
  BY <1>1, <1>2 DEF Step
<1>4. ahead \in SUBSET (1..n) /\ ahead \in SUBSET Nat
  BY <1>1, <1>2
<1>5. CASE ahead = {}
  <2>1. sel' = n \/ sel' = 1
    BY <1>3, <1>5
  <2>2. n \in 1..n /\ 1 \in 1..n
    BY <1>1
  <2> QED
    BY <1>1, <2>1, <2>2, SideRowsShown
<1>6. CASE ahead # {} /\ down
  <2>1. sel' = CHOOSE i \in ahead : \A j \in ahead : i <= j
    BY <1>3, <1>6
  <2>2. sel' \in ahead
    BY <1>4, <1>6, <2>1, LeastPlace
  <2> QED
    BY <1>2, <2>2
<1>7. CASE ahead # {} /\ ~down
  <2>1. sel' = CHOOSE i \in ahead : \A j \in ahead : i >= j
    BY <1>3, <1>7
  <2>2. \E m \in ahead : \A i \in ahead : m >= i
    BY <1>1, <1>4, <1>7, GreatestPlace
  <2>3. sel' \in ahead
    BY <2>1, <2>2
  <2> QED
    BY <1>2, <2>3
<1> QED
  BY <1>5, <1>6, <1>7

\* Rebuilding keeps a row selected, and the same one when the rows are the same.
LEMMA RebuildIs ==
  ASSUME NEW list, NEW text \in Text, NEW folds \in SUBSET Foldable, BuiltOk, Rebuild(list, text, folds)
  PROVE  /\ built' \in Builds /\ built'.listed = {s \in Sid : list[s] # None}
         /\ built'.text = text /\ built'.folds = folds
         /\ sel' \in DOMAIN rows'
         /\ sel \in DOMAIN rows' => sel' = sel
<1>1. built' = [listed |-> {s \in Sid : list[s] # None}, text |-> text, folds |-> folds]
  BY DEF Rebuild
<1>2. built' \in Builds
  <2>1. PICK l \in SUBSET Sid : l = {s \in Sid : list[s] # None}
    OBVIOUS
  <2>2. built' = [listed |-> l, text |-> text, folds |-> folds]
    BY <1>1, <2>1
  <2> QED
    BY <2>2 DEF Builds
<1>3. PICK c : c = built' /\ c \in Builds
  BY <1>2
<1>4. Len(RowsOf[c]) \in Nat \ {0} /\ DOMAIN RowsOf[c] = 1..Len(RowsOf[c])
  BY <1>3, SideEnds
<1>5. rows' = RowsOf[c] /\ sel' = AtMost(sel, Len(RowsOf[c]))
  BY <1>3 DEF rows, Rebuild
<1>6. sel \in Nat \ {0}
  BY SideRowsShown
<1>7. sel' \in DOMAIN rows' /\ (sel \in DOMAIN rows' => sel' = sel)
  BY <1>4, <1>5, <1>6 DEF AtMost
<1> QED
  BY <1>1, <1>2, <1>7

LEMMA Rebuilds ==
  ASSUME NEW list, BuiltOk, filter' \in Text, collapsed' = collapsed, Rebuild(list, filter', collapsed),
         Listed' = {s \in Sid : list[s] # None}
  PROVE  SideOk
<1>1. collapsed \in SUBSET Foldable
  BY BuildIs DEF BuiltOk
<1>2. PICK text \in Text : text = filter'
  OBVIOUS
<1>3. /\ built' \in Builds /\ built'.listed = {s \in Sid : list[s] # None}
      /\ built'.text = text /\ built'.folds = collapsed
      /\ sel' \in DOMAIN rows'
      /\ sel \in DOMAIN rows' => sel' = sel
  BY <1>1, <1>2, RebuildIs
<1>4. BuiltOk'
  BY <1>2, <1>3 DEF BuiltOk
<1>5. built' = built => sel' = sel
  <2>1. built' = built => rows' = rows
    BY DEF rows
  <2> QED
    BY <1>3, <2>1 DEF BuiltOk
<1> QED
  BY <1>4, <1>5 DEF SideOk, SelectionStep

LEMMA Folds ==
  ASSUME BuiltOk, ~editing, Fold, Listed' = Listed
  PROVE  SideOk
<1>1. /\ built \in Builds /\ built.listed = Listed /\ built.folds = collapsed
      /\ filter \in Text /\ built.text = filter /\ sel \in DOMAIN RowsOf[built] /\ collapsed \in SUBSET Foldable
  BY BuildIs DEF BuiltOk, rows
<1>2. PICK x : x = RowsOf[built][sel]
  OBVIOUS
<1>3. collapsed' = (collapsed \ Folding) \cup (Folding \ collapsed) /\ Rebuild(sessions, filter, collapsed')
  BY DEF Fold
<1>4. Folding = IF x.row.hasSub THEN {<<x.vm, x.row.path>>} ELSE {}
  BY <1>2 DEF Folding, rows
<1>5. x.row.hasSub => x.row.kind = "folder" /\ <<x.vm, x.row.path>> \in Foldable
  BY <1>1, <1>2, SideFolders
<1>6. PICK folds \in SUBSET Foldable : folds = collapsed'
  BY <1>1, <1>3, <1>4, <1>5
<1>7. /\ built' \in Builds /\ built'.listed = {s \in Sid : sessions[s] # None}
      /\ built'.text = filter /\ built'.folds = folds
      /\ sel' \in DOMAIN rows'
      /\ sel \in DOMAIN rows' => sel' = sel
  <2>1. Rebuild(sessions, filter, folds)
    BY <1>3, <1>6
  <2> QED
    BY <1>1, <2>1, RebuildIs
<1>8. filter' = filter /\ editing' = editing
  BY DEF Fold, filterVars
<1>9. BuiltOk'
  BY <1>1, <1>6, <1>7, <1>8 DEF BuiltOk, Listed
<1>10. built' = built => sel' = sel
  <2>1. built' = built => rows' = rows
    BY DEF rows
  <2> QED
    BY <1>7, <2>1 DEF BuiltOk
<1>11. ASSUME collapsed' # collapsed
       PROVE  /\ rows'[sel].vm = rows[sel].vm
              /\ rows'[sel].row.kind = "folder" /\ rows'[sel].row.path = rows[sel].row.path
  <2>1. x.row.hasSub /\ Folding = {<<x.vm, x.row.path>>}
    BY <1>3, <1>4, <1>11
  <2>2. PICK c \in Builds : c = built'
    BY <1>7
  <2>3. SameBut(built, c, <<x.vm, x.row.path>>)
    <3>1. c.listed = built.listed /\ c.text = built.text
      BY <1>1, <1>7, <2>2 DEF Listed
    <3>2. \A g \in Foldable : g # <<x.vm, x.row.path>> => (g \in built.folds <=> g \in c.folds)
      BY <1>1, <1>3, <1>6, <1>7, <2>1, <2>2
    <3> QED
      BY <3>1, <3>2 DEF SameBut
  <2>4. x.row.kind = "folder"
    BY <1>5, <2>1
  <2>5. RowsOf[c][sel] = x
    BY <1>1, <1>2, <2>3, <2>4, FoldStays
  <2>6. rows'[sel] = x /\ rows[sel] = x
    BY <1>2, <2>2, <2>5 DEF rows
  <2> QED
    BY <2>4, <2>6
<1> QED
  BY <1>9, <1>10, <1>11 DEF SideOk, SelectionStep

--------------------------------------------------------------------------------
\* The keys.
LEMMA CurIs ==
  ASSUME SessionsOk, BuiltOk, PanesOk, OnSession
  PROVE  Cur \in Sid \cup {None}
  BY SideRowsShown DEF OnSession, Cur, BuiltOk

\* Scrolling changes how far back the panes are, not whose they are.
LEMMA SamePanes ==
  ASSUME NEW s
  PROVE  /\ ToLive(s) => DOMAIN panes' = DOMAIN panes
         /\ \A up \in BOOLEAN : Scrolled(s, up) => DOMAIN panes' = DOMAIN panes
         /\ panes' = LeftPanes => DOMAIN panes' = DOMAIN panes
         /\ panes' = panes => DOMAIN panes' = DOMAIN panes
<1>1. ToLive(s) => DOMAIN panes' = DOMAIN panes
  BY DEF ToLive
<1>2. ASSUME NEW up \in BOOLEAN, Scrolled(s, up) PROVE DOMAIN panes' = DOMAIN panes
  BY <1>2 DEF Scrolled
<1>3. panes' = LeftPanes => DOMAIN panes' = DOMAIN panes
  BY DEF LeftPanes
<1> QED
  BY <1>1, <1>2, <1>3

\* What a key leaves of the panes: as many as there were.
PanesStay == DOMAIN panes' = DOMAIN panes

DataStay == UNCHANGED dataVars

LEMMA ModalKeys ==
  ASSUME AppInv, NEW k, ModalKey(k)
  PROVE  DataStay /\ PanesStay /\ SideOk
<1>1. UNCHANGED dataVars /\ UNCHANGED sideVars /\ UNCHANGED filterVars /\ panes' = panes
  BY DEF ModalKey
<1>2. SideOk
  BY <1>1, KeepsAll, KeepsData DEF AppInv
<1> QED
  BY <1>1, <1>2 DEF DataStay, PanesStay

LEMMA FilterKeys ==
  ASSUME AppInv, NEW k, FilterKey(k)
  PROVE  DataStay /\ PanesStay /\ SideOk
<1>1. /\ UNCHANGED dataVars /\ collapsed' = collapsed /\ panes' = panes
      /\ Rebuild(sessions, filter', collapsed)
  BY DEF FilterKey
<1>2. filter' \in Text
  <2>1. Blank \in Text /\ filter \in Text
    BY AppAssumption DEF AppInv, BuiltOk
  <2>2. filter' \in CASE k = "Esc"       -> {Blank}
                      [] k = "Enter"     -> {filter}
                      [] k = "Backspace" -> Text
                      [] OTHER           -> (Text \ {Blank}) \cup {filter}
    BY DEF FilterKey
  <2> QED
    BY <2>1, <2>2
<1>3. Listed' = {s \in Sid : sessions[s] # None}
  BY <1>1 DEF dataVars, Listed
<1>4. SideOk
  BY <1>1, <1>2, <1>3, Rebuilds DEF AppInv
<1> QED
  BY <1>1, <1>4 DEF DataStay, PanesStay

LEMMA ScrollbackKeys ==
  ASSUME AppInv, NEW k, ScrollbackKey(k)
  PROVE  DataStay /\ PanesStay /\ SideOk
<1>1. UNCHANGED dataVars /\ UNCHANGED sideVars /\ UNCHANGED filterVars
  BY DEF ScrollbackKey
<1>2. SideOk
  BY <1>1, KeepsAll, KeepsData DEF AppInv
<1>3. PanesStay
  <2>1. \/ panes' = LeftPanes
        \/ ToLive(Cur) \/ Scrolled(Cur, k \in {"k", "g"}) \/ panes' = panes
    BY DEF ScrollbackKey
  <2>2. PICK up \in BOOLEAN : up = (k \in {"k", "g"})
    <3>1. (k \in {"k", "g"}) \in BOOLEAN
      OBVIOUS
    <3> QED
      BY <3>1, Zenon
  <2>3. \/ panes' = LeftPanes
        \/ ToLive(Cur) \/ Scrolled(Cur, up) \/ panes' = panes
    BY <2>1, <2>2
  <2> QED
    BY <2>3, SamePanes DEF PanesStay
<1> QED
  BY <1>1, <1>2, <1>3 DEF DataStay

LEMMA TerminalKeys ==
  ASSUME AppInv, NEW k, TerminalKey(k)
  PROVE  DataStay /\ PanesStay /\ SideOk
<1>1. UNCHANGED dataVars /\ UNCHANGED sideVars /\ UNCHANGED filterVars
  BY DEF TerminalKey
<1>2. SideOk
  BY <1>1, KeepsAll, KeepsData DEF AppInv
<1>3. ToLive(Cur) \/ panes' = panes
  BY DEF TerminalKey
<1> QED
  BY <1>1, <1>2, <1>3, SamePanes DEF DataStay, PanesStay

LEMMA Moves ==
  ASSUME BuiltOk, Listed' = Listed, NEW k \in {"j", "k", "g", "G"}, Move(k)
  PROVE  SideOk
<1>1. built' = built /\ collapsed' = collapsed /\ UNCHANGED filterVars
  BY DEF Move
<1>2. Step(TRUE) \/ Step(FALSE) \/ sel' = 1 \/ sel' = Len(rows)
  BY DEF Move
<1>3. sel' \in DOMAIN rows /\ Kind(sel') # "elide"
  <2>1. 1 \in DOMAIN rows /\ Len(rows) \in DOMAIN rows /\ Kind(1) # "elide" /\ Kind(Len(rows)) # "elide"
    BY SideRowsShown
  <2>2. \A down \in BOOLEAN : Step(down) => sel' \in DOMAIN rows /\ Kind(sel') # "elide"
    BY StepIs
  <2> QED
    BY <1>2, <2>1, <2>2
<1> QED
  BY <1>1, <1>3, MovesSelection

LEMMA SidebarKeys ==
  ASSUME AppInv, NEW k, SidebarKey(k)
  PROVE  DataStay /\ PanesStay /\ SideOk
<1>1. UNCHANGED dataVars /\ panes' = panes /\ ~editing
  BY DEF SidebarKey
<1>2. Listed' = Listed /\ BuiltOk
  BY <1>1, KeepsData DEF AppInv
<1>3. ASSUME k \in {"j", "k", "g", "G"} /\ Move(k) PROVE SideOk
  BY <1>2, <1>3, Moves
<1>4. ASSUME Enter PROVE SideOk
  <2>1. UNCHANGED sideVars /\ UNCHANGED filterVars
    BY <1>4 DEF Enter
  <2> QED
    BY <1>2, <2>1, KeepsAll
<1>5. ASSUME Scrollback PROVE SideOk
  <2>1. UNCHANGED sideVars /\ UNCHANGED filterVars
    BY <1>5 DEF Scrollback
  <2> QED
    BY <1>2, <2>1, KeepsAll
<1>6. ASSUME StartFilter PROVE SideOk
  <2>1. UNCHANGED sideVars /\ editing' = TRUE /\ filter' = Blank
    BY <1>6 DEF StartFilter
  <2>2. filter' \in Text
    BY <2>1, AppAssumption
  <2> QED
    BY <1>2, <2>1, <2>2, KeepsSide
<1>7. ASSUME Fold PROVE SideOk
  BY <1>1, <1>2, <1>7, Folds
<1>8. ASSUME Ask(k) PROVE SideOk
  <2>1. UNCHANGED sideVars /\ UNCHANGED filterVars
    BY <1>8 DEF Ask
  <2> QED
    BY <1>2, <2>1, KeepsAll
<1>9. ASSUME Nothing(k) PROVE SideOk
  <2>1. UNCHANGED sideVars /\ UNCHANGED filterVars
    BY <1>9 DEF Nothing
  <2> QED
    BY <1>2, <2>1, KeepsAll
<1>10. SideOk
  BY <1>3, <1>4, <1>5, <1>6, <1>7, <1>8, <1>9 DEF SidebarKey
<1> QED
  BY <1>1, <1>10 DEF DataStay, PanesStay

\* The data stays, as many panes stay, and the drag is dropped or over one of them.
LEMMA Stays ==
  ASSUME AppInv, UNCHANGED dataVars, DOMAIN panes' = DOMAIN panes,
         selection' # None => selection' \in [sid : Listed, down : BOOLEAN, past : BOOLEAN]
  PROVE  SessionsOk' /\ PanesOk' /\ DoneOk' /\ Listed' = Listed
<1>1. SessionsOk' /\ DoneOk' /\ Listed' = Listed
  BY KeepsData DEF AppInv
<1>2. PanesOk'
  BY <1>1 DEF AppInv, PanesOk
<1> QED
  BY <1>1, <1>2

StepOk == AppInv' /\ SelectionStep

LEMMA OnKeys ==
  ASSUME AppInv, OnKey
  PROVE  StepOk
<1>1. PICK k : ModalKey(k) \/ FilterKey(k) \/ ScrollbackKey(k) \/ TerminalKey(k) \/ SidebarKey(k)
  BY DEF OnKey
<1>2. DataStay /\ PanesStay /\ SideOk
  BY <1>1, ModalKeys, FilterKeys, ScrollbackKeys, TerminalKeys, SidebarKeys
<1>3. selection' = None
  BY DEF OnKey
<1>4. SessionsOk' /\ PanesOk' /\ DoneOk'
  BY <1>2, <1>3, Stays DEF DataStay, PanesStay
<1> QED
  BY <1>2, <1>4 DEF SideOk, StepOk, AppInv

LEMMA OnPastes ==
  ASSUME AppInv, OnPaste
  PROVE  StepOk
<1>1. UNCHANGED dataVars /\ UNCHANGED sideVars /\ UNCHANGED filterVars /\ selection' = None
  BY DEF OnPaste
<1>2. ToLive(Cur) \/ panes' = panes
  BY DEF OnPaste
<1>3. DOMAIN panes' = DOMAIN panes
  BY <1>2, SamePanes
<1>4. SessionsOk' /\ PanesOk' /\ DoneOk' /\ Listed' = Listed
  BY <1>1, <1>3, Stays
<1>5. SideOk
  BY <1>1, <1>4, KeepsAll DEF AppInv
<1> QED
  BY <1>4, <1>5 DEF SideOk, StepOk, AppInv

--------------------------------------------------------------------------------
\* The mouse.
Dragged == selection' # None => selection' \in [sid : Listed, down : BOOLEAN, past : BOOLEAN]

LEMMA MouseKeepsAll ==
  ASSUME AppInv, UNCHANGED dataVars, UNCHANGED sideVars, UNCHANGED filterVars, DOMAIN panes' = DOMAIN panes, Dragged
  PROVE  StepOk
<1>1. SessionsOk' /\ PanesOk' /\ DoneOk' /\ Listed' = Listed
  BY Stays DEF Dragged
<1>2. SideOk
  BY <1>1, KeepsAll DEF AppInv
<1> QED
  BY <1>1, <1>2 DEF SideOk, StepOk, AppInv

LEMMA MouseMoves ==
  ASSUME AppInv, UNCHANGED dataVars, built' = built, collapsed' = collapsed, UNCHANGED filterVars,
         DOMAIN panes' = DOMAIN panes, selection' = None,
         sel' \in DOMAIN rows, Kind(sel') # "elide"
  PROVE  StepOk
<1>1. SessionsOk' /\ PanesOk' /\ DoneOk' /\ Listed' = Listed
  BY Stays
<1>2. SideOk
  BY <1>1, MovesSelection DEF AppInv
<1> QED
  BY <1>1, <1>2 DEF SideOk, StepOk, AppInv

LEMMA DragsOn ==
  ASSUME AppInv
  PROVE  /\ DragTo => Dragged
         /\ DragEndsOnText => Dragged
<1>1. selection # None => selection \in [sid : Listed, down : BOOLEAN, past : BOOLEAN]
  BY DEF AppInv, PanesOk
<1>2. ASSUME DragTo PROVE Dragged
  <2>1. PICK e \in BOOLEAN : selection' = [selection EXCEPT !.past = e]
    BY <1>2 DEF DragTo
  <2>2. selection # None
    BY <1>2 DEF DragTo, Dragging
  <2> QED
    BY <1>1, <2>1, <2>2 DEF Dragged
<1>3. ASSUME DragEndsOnText PROVE Dragged
  BY <1>1, <1>3 DEF DragEndsOnText, Dragging, Dragged
<1> QED
  BY <1>2, <1>3

\* The mouse moves the selection to a row and drags over the panes of who is listed.
LEMMA OnMice ==
  ASSUME AppInv, OnMouse
  PROVE  StepOk
<1>1. ASSUME DragTo PROVE StepOk
  <2>1. UNCHANGED dataVars /\ UNCHANGED sideVars /\ UNCHANGED filterVars /\ panes' = panes
    BY <1>1 DEF DragTo
  <2> QED
    BY <1>1, <2>1, DragsOn, MouseKeepsAll
<1>2. ASSUME DragEndsOnText PROVE StepOk
  <2>1. UNCHANGED dataVars /\ UNCHANGED sideVars /\ UNCHANGED filterVars /\ panes' = panes
    BY <1>2 DEF DragEndsOnText
  <2> QED
    BY <1>2, <2>1, DragsOn, MouseKeepsAll
<1>3. ASSUME DragEndsAsClick PROVE StepOk
  <2>1. UNCHANGED dataVars /\ UNCHANGED sideVars /\ UNCHANGED filterVars /\ panes' = panes /\ selection' = None
    BY <1>3 DEF DragEndsAsClick
  <2> QED
    BY <2>1, MouseKeepsAll DEF Dragged
<1>4. ASSUME PressNothing PROVE StepOk
  <2>1. UNCHANGED dataVars /\ UNCHANGED sideVars /\ UNCHANGED filterVars /\ panes' = panes /\ selection' = None
    BY <1>4 DEF PressNothing
  <2> QED
    BY <2>1, MouseKeepsAll DEF Dragged
<1>5. ASSUME PressRow PROVE StepOk
  <2>1. /\ UNCHANGED dataVars /\ built' = built /\ collapsed' = collapsed /\ UNCHANGED filterVars
        /\ panes' = LeftPanes /\ selection' = None /\ sel' \in Clickable
    BY <1>5 DEF PressRow
  <2>2. DOMAIN panes' = DOMAIN panes
    BY <2>1, SamePanes
  <2>3. sel' \in DOMAIN rows /\ Kind(sel') # "elide"
    BY <2>1 DEF Clickable
  <2> QED
    BY <2>1, <2>2, <2>3, MouseMoves
<1>6. ASSUME WheelSidebar PROVE StepOk
  <2>1. /\ UNCHANGED dataVars /\ built' = built /\ collapsed' = collapsed /\ UNCHANGED filterVars
        /\ panes' = LeftPanes /\ selection' = None /\ \E down \in BOOLEAN : Step(down)
    BY <1>6 DEF WheelSidebar
  <2>2. DOMAIN panes' = DOMAIN panes
    BY <2>1, SamePanes
  <2>3. sel' \in DOMAIN rows /\ Kind(sel') # "elide"
    BY <2>1, StepIs DEF AppInv
  <2> QED
    BY <2>1, <2>2, <2>3, MouseMoves
<1>7. ASSUME PressPane PROVE StepOk
  <2>1. /\ UNCHANGED dataVars /\ UNCHANGED sideVars /\ UNCHANGED filterVars /\ panes' = panes
        /\ Cur \in DOMAIN panes /\ selection' = [sid |-> Cur, down |-> TRUE, past |-> FALSE]
    BY <1>7 DEF PressPane
  <2>2. Cur \in Listed
    BY <2>1 DEF AppInv, PanesOk
  <2> QED
    BY <2>1, <2>2, MouseKeepsAll DEF Dragged
<1>8. ASSUME WheelPane PROVE StepOk
  <2>1. /\ UNCHANGED dataVars /\ UNCHANGED sideVars /\ UNCHANGED filterVars /\ selection' = None
        /\ panes' = panes \/ \E up \in BOOLEAN : Scrolled(Cur, up)
    BY <1>8 DEF WheelPane
  <2>2. DOMAIN panes' = DOMAIN panes
    BY <2>1, SamePanes
  <2> QED
    BY <2>1, <2>2, MouseKeepsAll DEF Dragged
<1>9. ASSUME ButtonPane PROVE StepOk
  <2>1. /\ UNCHANGED dataVars /\ UNCHANGED sideVars /\ UNCHANGED filterVars /\ panes' = panes
        /\ selection' = selection
    BY <1>9 DEF ButtonPane
  <2> QED
    BY <2>1, MouseKeepsAll DEF Dragged, AppInv, PanesOk
<1> QED
  BY <1>1, <1>2, <1>3, <1>4, <1>5, <1>6, <1>7, <1>8, <1>9 DEF OnMouse

--------------------------------------------------------------------------------
\* Frames, and a window of another size.
LEMMA Frames ==
  ASSUME AppInv, Frame
  PROVE  StepOk
<1>1. /\ done' \in SUBSET done /\ sessions' = sessions
      /\ UNCHANGED sideVars /\ UNCHANGED filterVars /\ selection' = selection
  BY DEF Frame
<1>2. panes' = panes \/ \E up \in BOOLEAN : Scrolled(selection.sid, up)
  BY DEF Frame, Autoscroll
<1>3. DOMAIN panes' = DOMAIN panes
  BY <1>2, SamePanes
<1>4. Listed' = Listed
  BY <1>1 DEF Listed
<1>5. SessionsOk' /\ PanesOk' /\ DoneOk'
  BY <1>1, <1>3, <1>4 DEF AppInv, SessionsOk, PanesOk, DoneOk, Running
<1>6. SideOk
  BY <1>1, <1>4, KeepsAll DEF AppInv
<1> QED
  BY <1>5, <1>6 DEF SideOk, StepOk, AppInv

LEMMA Resizes ==
  ASSUME AppInv, Resize
  PROVE  StepOk
<1>1. UNCHANGED dataVars /\ UNCHANGED sideVars /\ UNCHANGED filterVars /\ panes' = panes /\ selection' = None
  BY DEF Resize
<1> QED
  BY <1>1, MouseKeepsAll DEF Dragged

--------------------------------------------------------------------------------
\* What the daemons say.
LEMMA SessionIs ==
  ASSUME NEW x \in Session \cup {None}, x # None
  PROVE  x \in Session /\ (x.status = "Running" <=> x.status # "Stopped")
  BY DEF Session

LEMMA SessionLists ==
  ASSUME AppInv, NEW v \in 1..Vms, OnSessions(v)
  PROVE  StepOk
<1>1. PICK heard \in Lists(v), reconnected \in BOOLEAN :
        LET list == [s \in Sid |-> IF VmOf[s] = v THEN heard[s] ELSE sessions[s]]
            live == {s \in OfVm(v) : list[s] # None}
            fresh == IF reconnected THEN live ELSE live \ (DOMAIN panes \ Restarted(list))
            kept == (DOMAIN panes \ OfVm(v)) \cup (live \cap DOMAIN panes) IN
          /\ sessions' = list
          /\ done' = (done \ NoNews(list)) \cup News(list)
          /\ panes' = [s \in kept \cup fresh |-> IF s \in fresh THEN 0 ELSE panes[s]]
          /\ selection' = IF selection # None /\ selection.sid \notin kept THEN None ELSE selection
          /\ Rebuild(list, filter, collapsed)
          /\ UNCHANGED filterVars /\ collapsed' = collapsed
  BY DEF OnSessions
<1>2. PICK list, live, fresh, kept :
        /\ list = [s \in Sid |-> IF VmOf[s] = v THEN heard[s] ELSE sessions[s]]
        /\ live = {s \in OfVm(v) : list[s] # None}
        /\ fresh = IF reconnected THEN live ELSE live \ (DOMAIN panes \ Restarted(list))
        /\ kept = (DOMAIN panes \ OfVm(v)) \cup (live \cap DOMAIN panes)
  OBVIOUS
<1>3. /\ sessions' = list
      /\ done' = (done \ NoNews(list)) \cup News(list)
      /\ panes' = [s \in kept \cup fresh |-> IF s \in fresh THEN 0 ELSE panes[s]]
      /\ selection' = IF selection # None /\ selection.sid \notin kept THEN None ELSE selection
      /\ Rebuild(list, filter, collapsed)
      /\ UNCHANGED filterVars /\ collapsed' = collapsed
  BY <1>1, <1>2
<1>4. /\ heard \in [OfVm(v) -> Session \cup {None}]
      /\ \A s \in OfVm(v) : heard[s] # None /\ heard[s].status = "Stopped" => heard[s].activity = "Unknown"
  BY DEF Lists
<1>5. SessionsOk /\ BuiltOk /\ PanesOk /\ DoneOk
  BY DEF AppInv
<1>6. \A s \in Sid : /\ list[s] \in Session \cup {None}
                     /\ s \in OfVm(v) => list[s] = heard[s]
                     /\ s \notin OfVm(v) => list[s] = sessions[s]
  BY <1>2, <1>4, <1>5 DEF SessionsOk, OfVm
<1>7. SessionsOk'
  <2>1. list \in [Sid -> Session \cup {None}]
    BY <1>2, <1>6
  <2> QED
    BY <1>3, <2>1 DEF SessionsOk
<1>8. Listed' = {s \in Sid : list[s] # None}
  BY <1>3 DEF Listed
<1>9. kept \cup fresh = Listed' /\ kept \in SUBSET Listed'
  <2>1. live \in SUBSET Listed' /\ OfVm(v) \in SUBSET Sid
    BY <1>2, <1>8 DEF OfVm
  <2>2. DOMAIN panes = {s \in Sid : sessions[s] # None}
    BY <1>5 DEF PanesOk, Listed
  <2>3. \A s \in Sid : s \notin OfVm(v) => (s \in Listed' <=> s \in DOMAIN panes)
    BY <1>6, <1>8, <2>2
  <2>4. \A s \in OfVm(v) : s \in Listed' <=> s \in live
    BY <1>2, <1>8, <2>1
  <2>5. kept \in SUBSET Listed' /\ fresh \in SUBSET Listed'
    BY <1>2, <2>1, <2>2, <2>3
  <2>6. \A s \in Listed' : s \in kept \cup fresh
    BY <1>2, <1>8, <2>1, <2>2, <2>3, <2>4
  <2> QED
    BY <2>5, <2>6
<1>10. PanesOk'
  <2>1. DOMAIN panes' = Listed'
    BY <1>3, <1>9
  <2>2. ASSUME selection' # None PROVE selection' \in [sid : Listed', down : BOOLEAN, past : BOOLEAN]
    <3>1. selection' = selection /\ selection # None /\ selection.sid \in kept
      BY <1>3, <2>2
    <3>2. selection \in [sid : Listed, down : BOOLEAN, past : BOOLEAN]
      BY <1>5, <3>1 DEF PanesOk
    <3> QED
      BY <1>9, <3>1, <3>2
  <2> QED
    BY <2>1, <2>2 DEF PanesOk
<1>11. DoneOk'
  <2> SUFFICES ASSUME NEW s \in done'
               PROVE  s \in Listed' /\ sessions'[s].status = "Running" /\ sessions'[s].activity = "Idle"
    BY DEF DoneOk, Running
  <2>1. s \in Sid /\ list[s] # None /\ list[s].activity = "Idle" /\ s \in Listed
    <3>1. CASE s \in done /\ s \notin NoNews(list)
      <4>1. s \in Listed
        BY <1>5, <3>1 DEF DoneOk
      <4> QED
        BY <3>1, <4>1 DEF NoNews, Listed
    <3>2. CASE s \in News(list)
      BY <3>2 DEF News, Listed
    <3> QED
      BY <1>3, <3>1, <3>2
  <2>2. list[s] \in Session
    BY <1>6, <2>1
  <2>3. list[s].status = "Running"
    <3>1. CASE s \in OfVm(v)
      <4>1. list[s] = heard[s]
        BY <1>6, <2>1, <3>1
      <4>2. heard[s].status # "Stopped"
        BY <1>4, <2>1, <3>1, <4>1
      <4> QED
        BY <2>2, <4>1, <4>2 DEF Session
    <3>2. CASE s \notin OfVm(v)
      <4>1. list[s] = sessions[s]
        BY <1>6, <2>1, <3>2
      <4>2. CASE s \in done
        BY <1>5, <4>1, <4>2 DEF DoneOk, Running
      <4>3. CASE s \in News(list)
        <5>1. sessions[s].activity \in Busy
          BY <4>3 DEF News
        <5> QED
          BY <2>1, <4>1, <5>1 DEF Busy
      <4> QED
        BY <1>3, <4>2, <4>3
    <3> QED
      BY <3>1, <3>2
  <2> QED
    BY <1>3, <1>8, <2>1, <2>3
<1>12. SideOk
  <2>1. filter' = filter /\ filter' \in Text
    BY <1>3, <1>5 DEF filterVars, BuiltOk
  <2>2. Rebuild(list, filter', collapsed)
    BY <1>3, <2>1
  <2> QED
    BY <1>3, <1>5, <1>8, <2>1, <2>2, Rebuilds
<1> QED
  BY <1>7, <1>10, <1>11, <1>12 DEF SideOk, StepOk, AppInv

\* Output scrolls a pane, and may end the drag.
LEMMA Outputs ==
  ASSUME AppInv, NEW s \in Sid, OnOutput(s)
  PROVE  StepOk
<1>1. /\ UNCHANGED dataVars /\ UNCHANGED sideVars /\ UNCHANGED filterVars
      /\ selection' = None \/ selection' = selection
  BY DEF OnOutput
<1>2. panes' = panes \/ panes' = [panes EXCEPT ![s] = AtMost(@ + 1, Buffered)]
  BY DEF OnOutput
<1>3. DOMAIN panes' = DOMAIN panes
  BY <1>2
<1>4. Dragged
  BY <1>1 DEF Dragged, AppInv, PanesOk
<1> QED
  BY <1>1, <1>3, <1>4, MouseKeepsAll

\* Who has exited is stopped, and news no longer.
LEMMA Exits ==
  ASSUME AppInv, NEW s \in Sid, OnExited(s)
  PROVE  StepOk
<1>1. /\ done' = done \ {s}
      /\ sessions' = IF s \in Listed THEN [sessions EXCEPT ![s].status = "Stopped"] ELSE sessions
      /\ UNCHANGED sideVars /\ UNCHANGED filterVars /\ panes' = panes /\ selection' = selection
  BY DEF OnExited
<1>2. SessionsOk /\ BuiltOk /\ PanesOk /\ DoneOk
  BY DEF AppInv
<1>3. /\ SessionsOk' /\ \A x \in Sid : x # s => sessions'[x] = sessions[x]
      /\ s \in Listed => sessions'[s] # None
      /\ s \notin Listed => sessions' = sessions
  <2>1. CASE s \in Listed
    <3>1. sessions[s] \in Session
      BY <1>2, <2>1 DEF SessionsOk, Listed
    <3>2. sessions' = [sessions EXCEPT ![s] = [sessions[s] EXCEPT !.status = "Stopped"]]
      BY <1>1, <2>1
    <3>3. [sessions[s] EXCEPT !.status = "Stopped"] \in Session
      BY <3>1 DEF Session
    <3>4. sessions'[s] \in Session
      BY <1>2, <3>2, <3>3 DEF SessionsOk
    <3>5. None \notin Session
      BY AppAssumption DEF Session
    <3> QED
      BY <1>2, <2>1, <3>2, <3>3, <3>4, <3>5 DEF SessionsOk
  <2>2. CASE s \notin Listed
    BY <1>1, <1>2, <2>2 DEF SessionsOk
  <2> QED
    BY <2>1, <2>2
<1>4. Listed' = Listed
  <2>1. \A x \in Sid : sessions'[x] # None <=> sessions[x] # None
    BY <1>3 DEF Listed
  <2> QED
    BY <2>1 DEF Listed
<1>5. PanesOk'
  BY <1>1, <1>2, <1>4 DEF PanesOk
<1>6. DoneOk'
  <2> SUFFICES ASSUME NEW x \in done'
               PROVE  x \in Listed' /\ sessions'[x].status = "Running" /\ sessions'[x].activity = "Idle"
    BY DEF DoneOk, Running
  <2>1. x \in done /\ x # s
    BY <1>1
  <2>2. x \in Sid /\ x \in Listed /\ sessions[x].status = "Running" /\ sessions[x].activity = "Idle"
    BY <1>2, <2>1 DEF DoneOk, Listed, Running
  <2> QED
    BY <1>3, <1>4, <2>1, <2>2
<1>7. SideOk
  BY <1>1, <1>2, <1>4, KeepsAll
<1> QED
  BY <1>3, <1>5, <1>6, <1>7 DEF SideOk, StepOk, AppInv

--------------------------------------------------------------------------------
\* A client that starts has a row for each machine and nothing else.
LEMMA AppStarts ==
  ASSUME Init
  PROVE  AppInv
<1>1. SessionsOk
  BY DEF Init, SessionsOk
<1>2. Listed = {}
  BY DEF Init, Listed
<1>3. BuiltOk
  <2>1. Blank \in Text
    BY AppAssumption
  <2>2. built \in Builds
    <3>1. PICK l \in SUBSET Sid, t \in Text, f \in SUBSET Foldable : l = {} /\ t = Blank /\ f = {}
      BY <2>1
    <3>2. built = [listed |-> l, text |-> t, folds |-> f]
      BY <3>1 DEF Init
    <3>3. [listed |-> l, text |-> t, folds |-> f] \in Builds
      BY DEF Builds
    <3> QED
      BY <3>2, <3>3
  <2>3. 1 \in DOMAIN RowsOf[built]
    BY <2>2, SideEnds
  <2> QED
    BY <1>2, <2>1, <2>2, <2>3 DEF Init, BuiltOk, rows
<1>4. PanesOk
  BY <1>2 DEF Init, PanesOk
<1>5. DoneOk
  BY DEF Init, DoneOk
<1> QED
  BY <1>1, <1>3, <1>4, <1>5 DEF AppInv

\* Every step keeps all of it.
LEMMA AppSteps ==
  ASSUME AppInv, [Next]_appVars
  PROVE  StepOk
<1>1. CASE OnKey
  BY <1>1, OnKeys
<1>2. CASE OnPaste
  BY <1>2, OnPastes
<1>3. CASE OnMouse
  BY <1>3, OnMice
<1>4. CASE Frame
  BY <1>4, Frames
<1>5. CASE Resize
  BY <1>5, Resizes
<1>6. CASE OnMsg
  BY <1>6, SessionLists, Outputs, Exits DEF OnMsg
<1>7. CASE UNCHANGED appVars
  <2>1. UNCHANGED dataVars /\ UNCHANGED sideVars /\ UNCHANGED filterVars /\ panes' = panes /\ selection' = selection
    BY <1>7 DEF appVars
  <2> QED
    BY <2>1, MouseKeepsAll DEF Dragged, AppInv, PanesOk
<1> QED
  BY <1>1, <1>2, <1>3, <1>4, <1>5, <1>6, <1>7 DEF Next

\* The rows of any samples, whatever is folded.
LEMMA SamplesAre ==
  SamplesShow
<1> SUFFICES ASSUME NEW paths \in [1..3 -> {Segments(c) : c \in Samples}], NEW listed,
                    listed = [i \in 1..3 |-> [sid |-> i, path |-> paths[i]]],
                    NEW folded \in SUBSET Folders(listed)
             PROVE  ShowsAll(listed, folded)
  BY DEF SamplesShow
<1>1. \A i \in 1..3 : paths[i] \in Path \ {<<>>}
  <2>1. \A c \in Samples : Segments(c) \in Path \ {<<>>}
    BY AppAssumption, SegmentsAre DEF Cwds, Path
  <2> QED
    BY <2>1
<1>2. \A i \in 1..3 : listed[i] \in Entry(1..3) /\ listed[i].sid = i
  BY <1>1 DEF Entry
<1>3. listed \in Seq(Entry(1..3)) /\ DOMAIN listed = 1..3
  BY <1>2
<1>4. listed \in Listing(1..3)
  BY <1>2, <1>3 DEF Listing
<1>5. folded \in SUBSET (Path \ {<<>>})
  BY <1>4, FoldersAre
<1> QED
  BY <1>4, <1>5, TreeShowsAll

\* What every step keeps holds in every state.
LEMMA AppInvHolds ==
  Spec => []AppInv
<1>1. Init => AppInv
  BY AppStarts
<1>2. AppInv /\ [Next]_appVars => AppInv'
  BY AppSteps DEF StepOk
<1> QED
  BY <1>1, <1>2, PTL DEF Spec

\* Nothing the client draws or looks up is gone (app.rs, event.rs): the rows, the panes and
\* a drag are of sessions that are listed, a row is selected, and what is marked as news is
\* a running session that is idle, with any number of machines, sessions, filters and
\* folds, whatever the keys, the pastes and the mouse do between the lists.
THEOREM AppNothingDangles ==
  Spec => []NothingDangles
<1>1. AppInv => NothingDangles
  BY DEF AppInv, BuiltOk, PanesOk, DoneOk, NothingDangles
<1> QED
  BY <1>1, AppInvHolds, PTL

\* Whatever is folded, a session that passed the filter is on exactly one row of the
\* sidebar, and any other on none (App::rebuild, tree.rs).
THEOREM AppFoldsHideNoSession ==
  Spec => []FoldsHideNoSession
<1>1. AppInv => FoldsHideNoSession
  BY SideSessions, SamplesAre DEF AppInv, BuiltOk, FoldsHideNoSession, rows
<1> QED
  BY <1>1, AppInvHolds, PTL

\* The selection is never moved onto a "...", and stays on the folder that is folded or
\* unfolded, however deep it is and whatever is folded below it (App::step, fold).
THEOREM AppSelectionHolds ==
  Spec => SelectionHolds
<1>1. AppInv /\ [Next]_appVars => [SelectionStep]_appVars
  BY AppSteps DEF StepOk
<1>2. SelectionHolds <=> [][SelectionStep]_appVars
  BY PTL DEF SelectionHolds, SelectionStep
<1> QED
  BY <1>1, <1>2, AppInvHolds, PTL DEF Spec
================================================================================
