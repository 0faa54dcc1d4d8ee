---- MODULE MCHubSessions ----
(***************************************************************************)
(* HubSessions on small instances, and what the repository says of the     *)
(* table and the code does not keep.  No run checks those three: each      *)
(* fails, and in a configuration of one's own shows how.                   *)
(***************************************************************************)
EXTENDS HubSessions, TLC
Symmetry == Permutations(Sid) \cup Permutations(Rid) \cup Permutations(Conn)

\* restart: "a running one is left alone" (server.rs:754). With two connections two restarts
\* that saw the session stopped are both registered, the second over the first.
RunningLeftAlone ==
  [][\A s \in Listed : sessions[s].run # None /\ s \in Listed'
       => sessions'[s].run \in {sessions[s].run, None}]_vars

\* Kill: "A companion shell goes with its session" (server.rs:727). With two connections the one
\* that Shell inserts after the Kill is left behind.
ShellHasSession == \A s \in Listed : sessions[s].parent # None => sessions[s].parent \in Listed

\* "Killing the session kills its shell" (README.md:69). With one connection and under FairSpec a
\* session's child that has closed its terminal and lives on keeps the walk from the shell.
ShellRun(s, p, r) == s \in Listed /\ sessions[s].parent = p /\ sessions[s].run = r
KillEndsShell ==
  \A s, p \in Sid, r \in Rid :
    [](ShellRun(s, p, r) => [](p \notin Listed => <>(procs[r].child = "dead")))
====
