--------------------------------- MODULE VMLink ---------------------------------
(***************************************************************************)
(* The link of the macOS client to one machine                             *)
(* (src/macos/Sources/AgentsHubCore/VMLink.swift): a process, ssh or the   *)
(* local helper, that carries the frames, and a retry while there is none. *)
(*                                                                         *)
(* Everything runs on the link's one serial queue, so each action is one   *)
(* block of it; what interleaves are the blocks.  A timer cannot be        *)
(* cancelled, and a read channel that was closed still calls back once.    *)
(***************************************************************************)
EXTENDS Naturals, FiniteSets

CONSTANTS
  MaxProcs,   \* bound on the processes started
  MaxDelay,   \* the longest wait between two attempts
  NoProc

ASSUME LinkAssumption == MaxProcs \in Nat /\ MaxDelay \in Nat \ {0} /\ NoProc \notin 1..MaxProcs

VARIABLES
  proc,       \* the process of the link, or NoProc
  procs,      \* what became of each process started, and of its read channel
  connected,
  stopping,
  backoff,
  timers,     \* connects that are queued or waiting for their time
  told        \* the last the app heard: "up", "down", or "none" so far

linkVars == <<proc, procs, connected, stopping, backoff, timers, told>>

ProcId == 1..MaxProcs
Proc == [os      : {"none", "running", "dead"},
         ended   : BOOLEAN,   \* terminate was sent
         channel : {"none", "open", "done"},
         late    : BOOLEAN]   \* the teardown that waits for stderr is queued

\* The variables have these types in every reachable state.
LinkTypeOK ==
  /\ proc \in ProcId \cup {NoProc}
  /\ procs \in [ProcId -> Proc]
  /\ connected \in BOOLEAN /\ stopping \in BOOLEAN
  /\ backoff \in 1..MaxDelay
  /\ timers \in 0..2
  /\ told \in {"none", "up", "down"}

NotStarted == [os |-> "none", ended |-> FALSE, channel |-> "none", late |-> FALSE]

\* start queues the first connect.
LinkInit ==
  /\ proc = NoProc
  /\ procs = [p \in ProcId |-> NotStarted]
  /\ connected = FALSE /\ stopping = FALSE
  /\ backoff = 1 /\ timers = 1
  /\ told = "none"

--------------------------------------------------------------------------------
Doubled(n) == IF 2 * n > MaxDelay THEN MaxDelay ELSE 2 * n

\* scheduleRetry, with the timers that are left when it is called.
ScheduleRetry(left) ==
  IF stopping
    THEN timers' = left /\ UNCHANGED backoff
    ELSE /\ timers' = left + 1
         /\ backoff' = Doubled(backoff)

\* The process is told to end, its channels are closed and it is nobody's from here on.
LetGo_Running(ps) == ps
LetGo(ps) == IF proc = NoProc THEN ps ELSE [ps EXCEPT ![proc].ended = TRUE]

ToldDown_Silent == told
ToldDown == IF connected THEN "down" ELSE told

\* teardown(notify: true)
TeardownOf(ps) ==
  /\ proc' = NoProc
  /\ procs' = LetGo(ps)
  /\ connected' = FALSE
  /\ told' = ToldDown
  /\ ScheduleRetry(timers)

Teardown == TeardownOf(procs)

\* The tail of connect: the process starts, and that counts as a link; or it does not.
Started(ps, p) == [ps EXCEPT ![p] = [os |-> "running", ended |-> FALSE, channel |-> "open", late |-> FALSE]]

Dial(ps, left) ==
  \/ \E p \in ProcId :
       /\ procs[p].os = "none"
       /\ proc' = p
       /\ procs' = Started(ps, p)
       /\ connected' = TRUE /\ backoff' = 1 /\ told' = "up"
       /\ timers' = left
  \/ /\ proc' = NoProc /\ procs' = ps
     /\ connected' = FALSE /\ told' = "down"
     /\ ScheduleRetry(left)

\* connect, when start or a retry's delay brings it up.
Connect ==
  /\ timers > 0
  /\ IF stopping
       THEN timers' = timers - 1 /\ UNCHANGED <<proc, procs, connected, backoff, told>>
       ELSE Dial(procs, timers - 1)
  /\ UNCHANGED stopping

\* reconnect: a link that is down is left to its retry.
MayRedial == connected

Reconnect ==
  /\ MayRedial
  /\ Dial(LetGo(procs), timers)
  /\ UNCHANGED stopping

Stop ==
  /\ ~stopping
  /\ stopping' = TRUE
  /\ proc' = NoProc
  /\ procs' = LetGo(procs)
  /\ connected' = FALSE
  /\ UNCHANGED <<backoff, timers, told>>

\* send, when the pipe is broken.
SendFails ==
  /\ connected
  /\ Teardown
  /\ UNCHANGED stopping

--------------------------------------------------------------------------------
\* Only the live process's callbacks count.
Live_Any(p) == TRUE
Live(p) == proc = p

\* The peer sends more than a line may hold.
LineTooLong(p) ==
  /\ procs[p].channel = "open"
  /\ Live(p)
  /\ Teardown
  /\ UNCHANGED stopping

Lingers_Never(p) == FALSE
Lingers(p) == Live(p)

\* The end of the output, or the one callback of a channel that was closed. What ssh has
\* to say may still be on its way, so the teardown waits a little.
ChannelDone(p) ==
  /\ procs[p].channel = "open"
  /\ procs' = [procs EXCEPT ![p].channel = "done", ![p].late = Lingers(p)]
  /\ UNCHANGED <<proc, connected, stopping, backoff, timers, told>>

LateTeardown(p) ==
  /\ procs[p].late
  /\ IF Live(p)
       THEN TeardownOf([procs EXCEPT ![p].late = FALSE])
       ELSE /\ procs' = [procs EXCEPT ![p].late = FALSE]
            /\ UNCHANGED <<proc, connected, backoff, timers, told>>
  /\ UNCHANGED stopping

\* A process ends: of itself, or because it was told to.
Exit(p) ==
  /\ procs[p].os = "running"
  /\ procs' = [procs EXCEPT ![p].os = "dead"]
  /\ UNCHANGED <<proc, connected, stopping, backoff, timers, told>>

--------------------------------------------------------------------------------
LinkNext ==
  \/ Connect \/ Reconnect \/ Stop \/ SendFails
  \/ \E p \in ProcId : LineTooLong(p) \/ ChannelDone(p) \/ LateTeardown(p) \/ Exit(p)

LinkSpec == LinkInit /\ [][LinkNext]_linkVars

--------------------------------------------------------------------------------
\* Until it is stopped the link is either carried by one process or has one attempt to
\* come: it neither gives up nor starts a second chain of retries, however teardowns,
\* redials and late callbacks fall together.
OneDialer ==
  ~stopping => timers + (IF proc = NoProc THEN 0 ELSE 1) = 1

\* A process that still runs carries the link or has been told to end.
NoStray ==
  \A p \in ProcId : procs[p].os = "running" => p = proc \/ procs[p].ended

\* The app believes what is so: it last heard "up" exactly while the link has a process.
ToldTheTruth == ~stopping /\ told # "none" => (told = "up" <=> connected)

\* A link whose process is dead has a callback or a teardown to come that sees it: with the
\* queue running, it does not go on as if the process were there.
DeathIsSeen ==
  \A p \in ProcId :
    proc = p /\ procs[p].os = "dead" => procs[p].channel = "open" \/ procs[p].late
================================================================================
