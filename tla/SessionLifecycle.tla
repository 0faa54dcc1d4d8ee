---------------------------- MODULE SessionLifecycle ----------------------------
(***************************************************************************)
(* What the daemon promises of a session, whoever asks and however its     *)
(* threads interleave: one process at a time, a relaunch only of what has  *)
(* stopped (server.rs, the comment on restart), stopped only once the      *)
(* process is dead, shells that come and go with their session (proto.rs,  *)
(* SessionInfo.parent), and an id that never comes back once it is gone.   *)
(***************************************************************************)
CONSTANTS Session, None

VARIABLES
  phase,   \* where each session is in its life
  proc,    \* the process of the session: "none", "alive", or "dead" and not yet noticed
  parent   \* the session a shell belongs to

lifeVars == <<phase, proc, parent>>

Present(s) == phase[s] \in {"running", "stopped"}
WithShells(s) == {s} \cup {t \in Session : Present(t) /\ parent[t] = s}

LifeInit ==
  /\ phase \in [Session -> {"absent", "stopped"}]
  /\ proc = [s \in Session |-> "none"]
  /\ parent \in [Session -> Session \cup {None}]
  /\ \A s \in Session : parent[s] # None => Present(s) /\ Present(parent[s]) /\ parent[parent[s]] = None

\* A process starts for a session that is new or has stopped.
Launch(s) ==
  /\ phase[s] \in {"absent", "stopped"}
  /\ proc[s] = "none"
  /\ proc' = [proc EXCEPT ![s] = "alive"]
  /\ UNCHANGED <<phase, parent>>

\* The launched session is listed; a new shell under a session that is there.
Show(s) ==
  /\ phase[s] \in {"absent", "stopped"}
  /\ proc[s] # "none"
  /\ phase' = [phase EXCEPT ![s] = "running"]
  /\ \/ UNCHANGED parent
     \/ /\ phase[s] = "absent"
        /\ \E p \in Session : /\ Present(p) /\ parent[p] = None
                              /\ parent' = [parent EXCEPT ![s] = p]
  /\ UNCHANGED proc

Exit(s) ==
  /\ proc[s] = "alive"
  /\ proc' = [proc EXCEPT ![s] = IF phase[s] = "gone" THEN "none" ELSE "dead"]
  /\ UNCHANGED <<phase, parent>>

Stop(s) ==
  /\ phase[s] = "running"
  /\ proc[s] = "dead"
  /\ phase' = [phase EXCEPT ![s] = "stopped"]
  /\ proc' = [proc EXCEPT ![s] = "none"]
  /\ UNCHANGED parent

Remove(s) ==
  /\ Present(s)
  /\ phase' = [t \in Session |-> IF t \in WithShells(s) THEN "gone" ELSE phase[t]]
  /\ proc' = [t \in Session |-> IF t \in WithShells(s) /\ proc[t] = "dead" THEN "none" ELSE proc[t]]
  /\ parent' = [t \in Session |-> IF t \in WithShells(s) THEN None ELSE parent[t]]

LifeNext ==
  \E s \in Session : Launch(s) \/ Show(s) \/ Exit(s) \/ Stop(s) \/ Remove(s)

LifeSpec == LifeInit /\ [][LifeNext]_lifeVars
================================================================================
