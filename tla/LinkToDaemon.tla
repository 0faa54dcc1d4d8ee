------------------------------ MODULE LinkToDaemon ------------------------------
(***************************************************************************)
(* The whole way from the macOS app to a daemon: the link (VMLink) starts  *)
(* processes, each of which is a stdio (DaemonStart) that records its ssh  *)
(* agent and finds the daemon or starts one.  The link goes by nothing but *)
(* its process and what that sends; a daemon goes by nothing but files.    *)
(***************************************************************************)
EXTENDS VMLink, DaemonStart

ASSUME ClientsAreProcesses == Client = ProcId

lifeVars == <<linkVars, startVars>>

LifeInit == LinkInit /\ StartInit

\* The link's own doings.
Links ==
  \/ Connect \/ Reconnect \/ Stop \/ SendFails
  \/ \E p \in ProcId : ChannelDone(p) \/ LateTeardown(p)

\* What a process sends comes from the daemon it has reached.
Hears(p) == client[p].at = "in" /\ LineTooLong(p)

\* A process runs stdio while it runs, and may end at any point of it; it has to, when no
\* daemon came up.
Runs(p) == procs[p].os = "running" /\ Stdio(p)
Dead(p) == Exit(p) /\ (Ends(p) \/ (client[p].at = "gone" /\ UNCHANGED startVars))

Machine ==
  \/ Serves \/ Proxies
  \/ \E d \in Daemon : Dies(d) \/ Boot(d)
  \/ \E p \in ProcId : Runs(p)

LifeNext ==
  \/ Links /\ UNCHANGED startVars
  \/ (\E p \in ProcId : Hears(p)) /\ UNCHANGED startVars
  \/ \E p \in ProcId : Dead(p)
  \/ Machine /\ UNCHANGED linkVars

LifeSpec == LifeInit /\ [][LifeNext]_lifeVars
================================================================================
