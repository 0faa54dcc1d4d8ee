------------------------------- MODULE DaemonStart -------------------------------
(***************************************************************************)
(* How a daemon comes up and is found (src/src/main.rs connect_local,      *)
(* spawn_daemon, stdio; src/src/server.rs serve), and the agent proxy it   *)
(* runs beside its sessions (relink_agent_sock, agent_proxy,               *)
(* current_agent).                                                         *)
(*                                                                         *)
(* Three files of the state directory tie the processes together: sock,    *)
(* agent.sock and the link agent.upstream.  A socket file is the daemon    *)
(* that bound it, and outlives it.  A daemon may be started by a client    *)
(* that finds none, or by the service manager, and several may be starting *)
(* at once.                                                                *)
(***************************************************************************)
EXTENDS Naturals

CONSTANTS
  MaxDaemons,  \* bound on the processes that run agents-hub serve
  Client,      \* processes that run agents-hub stdio, each one once
  Agent,       \* ssh agents' sockets
  Old,         \* any daemon that is no more
  NoFile

ASSUME DaemonStartAssumption ==
  /\ MaxDaemons \in Nat
  /\ NoFile \notin Agent \cup (1..MaxDaemons)
  /\ "proxy" \notin Agent \cup {NoFile}
  /\ Old \notin {NoFile} \cup (1..MaxDaemons)

VARIABLES
  daemon,     \* each daemon: its place in serve, its environment, its proxy's place
  client,     \* each client: its place in stdio, its $SSH_AUTH_SOCK
  sock,       \* who bound the file sock, or NoFile
  agentSock,  \* who bound the file agent.sock
  upstream    \* what agent.upstream is a link to, or NoFile

startVars == <<daemon, client, sock, agentSock, upstream>>

\* The daemons, in the order they are started.
Daemon == 1..MaxDaemons

\* $SSH_AUTH_SOCK: an agent, the proxy (in a session), or not set. Nobody is given the link.
Env == Agent \cup {"proxy", NoFile}

Unborn == [at |-> "unborn", env |-> NoFile, proxy |-> "none", overlapped |-> FALSE]

\* The variables have these types in every reachable state.
StartTypeOK ==
  /\ daemon \in
       [Daemon -> [at : {"unborn", "probe", "remove", "bind", "serving", "gone"},
                   env : Env,
                   proxy : {"none", "remove", "bind"},
                   overlapped : BOOLEAN]]  \* another was starting while this one was
  /\ client \in [Client -> [at : {"new", "unlink", "symlink", "connect", "poll", "in", "gone"},
                            env : Env]]
  /\ sock \in Daemon \cup {Old, NoFile}
  /\ agentSock \in Daemon \cup {Old, NoFile}
  /\ upstream \in Agent \cup {"proxy", NoFile}

\* A new state directory, or what an earlier daemon left.
StartInit ==
  /\ daemon = [d \in Daemon |-> Unborn]
  /\ client = [c \in Client |-> [at |-> "new", env |-> NoFile]]
  /\ sock \in {Old, NoFile} /\ agentSock = sock
  /\ upstream = NoFile

Starting == {d \in Daemon : daemon[d].at \in {"probe", "remove", "bind"}}
Serving == {d \in Daemon : daemon[d].at = "serving"}

\* Somebody is accepting behind the file.
Answers == sock \in Serving

Gone == [Unborn EXCEPT !.at = "gone"]
Passes(d, from, to) ==
  /\ daemon[d].at = from
  /\ daemon' = [daemon EXCEPT ![d] = IF to = "gone" THEN Gone ELSE [@ EXCEPT !.at = to]]

--------------------------------------------------------------------------------
(* serve *)

\* A new process, started with the environment of who started it.
Begins(d, env) ==
  /\ daemon[d].at = "unborn" /\ (d > 1 => daemon[d - 1].at # "unborn")
  /\ daemon' = [x \in Daemon |->
       IF x = d THEN [Unborn EXCEPT !.at = "probe", !.env = env, !.overlapped = Starting # {}]
       ELSE IF x \in Starting THEN [daemon[x] EXCEPT !.overlapped = TRUE]
       ELSE daemon[x]]

\* The service unit.
Boot(d) == Begins(d, NoFile) /\ UNCHANGED <<client, sock, agentSock, upstream>>

Probe_Skipped(d) ==
  /\ Passes(d, "probe", IF sock = NoFile THEN "bind" ELSE "remove")
  /\ UNCHANGED <<client, sock, agentSock, upstream>>
\* A daemon that answers is left alone, and this one is not needed. (A file that goes
\* between the look for it and the connect is one that does not answer.)
Probe(d) ==
  /\ Passes(d, "probe", IF sock = NoFile THEN "bind" ELSE IF Answers THEN "gone" ELSE "remove")
  /\ UNCHANGED <<client, sock, agentSock, upstream>>

\* remove_file, of whatever the name leads to by now; with nothing there it fails, and serve
\* with it.
RemoveSock(d) ==
  /\ Passes(d, "remove", IF sock = NoFile THEN "gone" ELSE "bind")
  /\ sock' = NoFile
  /\ UNCHANGED <<client, agentSock, upstream>>

\* bind fails on a name that is taken; once it has it, the proxy's task is started.
Bind(d) ==
  /\ IF sock = NoFile
       THEN /\ daemon[d].at = "bind"
            /\ daemon' = [daemon EXCEPT ![d].at = "serving", ![d].proxy = "remove"]
            /\ sock' = d
       ELSE Passes(d, "bind", "gone") /\ UNCHANGED sock
  /\ UNCHANGED <<client, agentSock, upstream>>

\* agent_proxy: whatever agent.sock there is goes first; a failure to bind is survived.
ProxyRemoves(d) ==
  /\ daemon[d].at = "serving" /\ daemon[d].proxy = "remove"
  /\ agentSock' = NoFile
  /\ daemon' = [daemon EXCEPT ![d].proxy = "bind"]
  /\ UNCHANGED <<client, sock, upstream>>

ProxyBinds(d) ==
  /\ daemon[d].at = "serving" /\ daemon[d].proxy = "bind"
  /\ daemon' = [daemon EXCEPT ![d].proxy = "none"]
  /\ agentSock' = IF agentSock = NoFile THEN d ELSE agentSock
  /\ UNCHANGED <<client, sock, upstream>>

\* Killed, or the machine goes down: the files of its sockets stay.
Dies(d) ==
  /\ daemon[d].at \notin {"unborn", "gone"}
  /\ daemon' = [daemon EXCEPT ![d] = Gone]
  /\ sock' = IF sock = d THEN Old ELSE sock
  /\ agentSock' = IF agentSock = d THEN Old ELSE agentSock
  /\ UNCHANGED <<client, upstream>>

--------------------------------------------------------------------------------
(* stdio *)

Goes(c, from, to) == client[c].at = from /\ client' = [client EXCEPT ![c].at = to]
Settles(c, at) == client' = [client EXCEPT ![c] = [at |-> at, env |-> NoFile]]

\* same_socket: the paths lead to one file, and that file is there.
SameSocket(a, b) ==
  a = b /\ (a \in Agent \/ (a = "proxy" /\ agentSock # NoFile))

\* Where relink_agent_sock has nothing to record.
Kept(env) == SameSocket(env, upstream) \/ SameSocket(env, "proxy")

\* A client comes up with some $SSH_AUTH_SOCK and looks at what is recorded.
Arrives(c) ==
  /\ client[c].at = "new"
  /\ \E e \in Env :
       client' = [client EXCEPT ![c] =
         [at |-> IF e = NoFile \/ Kept(e) THEN "connect" ELSE "unlink", env |-> e]]
  /\ UNCHANGED <<daemon, sock, agentSock, upstream>>

Unlink(c) ==
  /\ Goes(c, "unlink", "symlink")
  /\ upstream' = NoFile
  /\ UNCHANGED <<daemon, sock, agentSock>>

\* symlink fails on a name that is taken, and the failure is ignored.
Symlink(c) ==
  /\ Goes(c, "symlink", "connect")
  /\ upstream' = IF upstream = NoFile THEN client[c].env ELSE upstream
  /\ UNCHANGED <<daemon, sock, agentSock>>

\* connect_local: the daemon that is up, or a new one...
ConnectLocal(c) ==
  /\ client[c].at = "connect"
  /\ IF Answers
       THEN Settles(c, "in") /\ UNCHANGED daemon
       ELSE Settles(c, "poll") /\ \E d \in Daemon : Begins(d, client[c].env)
  /\ UNCHANGED <<sock, agentSock, upstream>>

\* ... which is given fifty tries to come up, and may be slower than that.
Poll(c) ==
  /\ client[c].at = "poll"
  /\ Settles(c, IF Answers THEN "in" ELSE "gone")
  /\ UNCHANGED <<daemon, sock, agentSock, upstream>>

\* It ends, with its connection or with whoever started it.
Ends(c) ==
  /\ client[c].at # "gone"
  /\ Settles(c, "gone")
  /\ UNCHANGED <<daemon, sock, agentSock, upstream>>

Serves == \E d \in Daemon : Probe(d) \/ RemoveSock(d) \/ Bind(d)
Proxies == \E d \in Daemon : ProxyRemoves(d) \/ ProxyBinds(d)
Stdio(c) == Arrives(c) \/ Unlink(c) \/ Symlink(c) \/ ConnectLocal(c) \/ Poll(c)

--------------------------------------------------------------------------------
CurrentAgent_LinkFinal(env) ==
  LET p == IF upstream # NoFile THEN upstream ELSE env
  IN  IF p # NoFile /\ SameSocket(p, "proxy") THEN NoFile ELSE p

\* Where a connection to the proxy is forwarded: the link, unless it leads to the proxy
\* itself, else the daemon's own environment, unless that does.
CurrentAgent(env) ==
  LET ours(p) == p # NoFile /\ ~SameSocket(p, "proxy")
  IN  IF ours(upstream) THEN upstream ELSE IF ours(env) THEN env ELSE NoFile

\* A daemon that serves is the one clients find, unless it was starting while another one
\* was: no start that begins later takes the socket file away from it.  Two that start at
\* once may: the second can have found the file of a dead daemon and remove the first's.
ServedIsReachable == \A d \in Serving : sock = d \/ daemon[d].overlapped

\* Whatever clients have recorded, from inside sessions too and while the proxy's socket was
\* away, the proxy never forwards to itself, and a daemon that inherited an agent always has
\* one to forward to.
AgentIsReal ==
  \A d \in Serving :
     agentSock # NoFile =>
       /\ CurrentAgent(daemon[d].env) # "proxy"
       /\ daemon[d].env \in Agent => CurrentAgent(daemon[d].env) \in Agent
================================================================================
