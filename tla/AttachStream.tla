------------------------------ MODULE AttachStream ------------------------------
(***************************************************************************)
(* The output of one run and the clients that watch it                     *)
(* (src/src/server.rs): pty_reader, the broadcast channel, Attach with the *)
(* forwarder task it starts, and the end of the run.                       *)
(*                                                                         *)
(* The reader's thread, the handler of a connection and every forwarder    *)
(* run side by side.  A chunk is its place in the output; of the log only  *)
(* its end matters here (SessionLog has the rest).  What a client gets is  *)
(* what its connection's queue holds: the socket keeps that order.         *)
(***************************************************************************)
EXTENDS Naturals, Sequences

CONSTANTS
  Client,     \* connections
  MaxChunks,  \* bound on the output of the run
  Cap,        \* CHUNK_CAP: what the channel holds for a slow receiver
  MaxAttach   \* bound on the attaches of one connection

ASSUME AttachAssumption == MaxChunks \in Nat /\ MaxAttach \in Nat /\ Cap \in Nat \ {0}

VARIABLES
  logged,  \* chunks in the log
  reader,  \* where the reader's thread stands
  sent,    \* messages on the channel: the chunks, then Exited
  run,     \* where the Run is: in the hand of the handler that spawned it, in the table, or dropped
  conn,    \* each connection's handler and its locals
  fwd,     \* each connection's forwarders, one for each of its attaches
  out      \* the frames queued for each client, from the latest replay on

attachVars == <<logged, reader, sent, run, conn, fwd, out>>

Attach == 1..MaxAttach
Forwarder == [at : {"none", "live", "aborted", "ended"}, from : Nat, next : Nat]
Frame == [kind : {"replay", "live", "exited"}, attach : Attach, n : 0..MaxChunks]
FrameOf(kind, k, n) == [kind |-> kind, attach |-> k, n |-> n]

\* The variables have these types in every reachable state.
AttachTypeOK ==
  /\ logged \in 0..MaxChunks
  /\ reader \in {"read", "send", "wait", "exited", "done"}
  /\ sent \in 0..(MaxChunks + 1)
  /\ run \in {"hand", "table", "dropped"}
  /\ conn \in [Client -> [at : {"idle", "read", "reply", "subscribe"},
                          attach : 0..MaxAttach, upto : 0..MaxChunks]]
  /\ fwd \in [Client -> [Attach -> Forwarder]]
  /\ out \in [Client -> Seq(Frame)]

NoForwarder == [at |-> "none", from |-> 0, next |-> 0]

\* spawn starts the reader's thread before it returns the Run.
AttachInit ==
  /\ logged = 0
  /\ reader = "read" /\ sent = 0 /\ run = "hand"
  /\ conn = [c \in Client |-> [at |-> "idle", attach |-> 0, upto |-> 0]]
  /\ fwd = [c \in Client |-> [k \in Attach |-> NoForwarder]]
  /\ out = [c \in Client |-> <<>>]

--------------------------------------------------------------------------------
\* pty_reader: a chunk goes to the log first...
LogChunk ==
  /\ reader = "read"
  /\ logged < MaxChunks
  /\ logged' = logged + 1
  /\ reader' = "send"
  /\ UNCHANGED <<sent, run, conn, fwd, out>>

\* ... and then to whoever is attached.
Send ==
  /\ reader = "send"
  /\ sent' = sent + 1
  /\ reader' = "read"
  /\ UNCHANGED <<logged, run, conn, fwd, out>>

Eof ==
  /\ reader = "read"
  /\ reader' = "wait"
  /\ UNCHANGED <<logged, sent, run, conn, fwd, out>>

\* The child is reaped and Exited goes the way of the chunks.
SendExited ==
  /\ reader = "wait"
  /\ sent' = sent + 1
  /\ reader' = "exited"
  /\ UNCHANGED <<logged, run, conn, fwd, out>>

\* mark_stopped drops the Run if the session has it, and the thread ends with its sender.
MarkStopped ==
  /\ reader = "exited"
  /\ run' = IF run = "table" THEN "dropped" ELSE run
  /\ reader' = "done"
  /\ UNCHANGED <<logged, sent, conn, fwd, out>>

\* Create, Shell or Restart puts the Run in the table, however far the reader has come by
\* then; a Restart whose session is gone drops it.
Register ==
  /\ run = "hand"
  /\ run' \in {"table", "dropped"}
  /\ UNCHANGED <<logged, reader, sent, conn, fwd, out>>

\* A Kill, another run's mark_stopped or a second Restart takes it out again.
Removed ==
  /\ run = "table"
  /\ run' = "dropped"
  /\ UNCHANGED <<logged, reader, sent, conn, fwd, out>>

--------------------------------------------------------------------------------
\* abort only asks: a task in the middle of a poll on another worker goes on until the poll
\* is over.
AbortOld_Forgotten(f) == f
AbortOld(f) == IF f.at = "live" THEN [f EXCEPT !.at = "aborted"] ELSE f

\* Attach: the forwarder of the attach before this one is told to abort.
AttachStart(c) ==
  /\ conn[c].at = "idle"
  /\ conn[c].attach < MaxAttach
  /\ conn' = [conn EXCEPT ![c] = [at |-> "read", attach |-> @.attach + 1, upto |-> 0]]
  /\ fwd' = [fwd EXCEPT ![c] = [k \in Attach |-> AbortOld(fwd[c][k])]]
  /\ UNCHANGED <<logged, reader, sent, run, out>>

\* read_tail: the replay ends with what is logged by now.
ReadLog(c) ==
  /\ conn[c].at = "read"
  /\ conn' = [conn EXCEPT ![c].at = "reply", ![c].upto = logged]
  /\ UNCHANGED <<logged, reader, sent, run, fwd, out>>

Reply(c) ==
  /\ conn[c].at = "reply"
  /\ out' = [out EXCEPT ![c] = <<FrameOf("replay", conn[c].attach, conn[c].upto)>>]
  /\ conn' = [conn EXCEPT ![c].at = "subscribe"]
  /\ UNCHANGED <<logged, reader, sent, run, fwd>>

\* A receiver starts behind everything sent so far.
Oldest == IF sent > Cap THEN sent - Cap + 1 ELSE 1
SubscribeAt_Oldest == Oldest
SubscribeAt == sent + 1

\* Under the table's lock: subscribe to the Run that is there, or to nothing.
Subscribe(c) ==
  /\ conn[c].at = "subscribe"
  /\ conn' = [conn EXCEPT ![c].at = "idle", ![c].upto = 0]
  /\ fwd' = IF run = "table"
              THEN [fwd EXCEPT ![c][conn[c].attach] = [at |-> "live", from |-> SubscribeAt, next |-> SubscribeAt]]
              ELSE fwd
  /\ UNCHANGED <<logged, reader, sent, run, out>>

--------------------------------------------------------------------------------
Forwarding(c, k) == fwd[c][k].at \in {"live", "aborted"}
ExitedSent == reader \in {"exited", "done"}
Exited(n) == ExitedSent /\ n = sent

\* Ok(Ev::Data): the chunk is queued for the client.
ForwardChunk(c, k) ==
  LET n == fwd[c][k].next IN
  /\ Forwarding(c, k)
  /\ Oldest <= n /\ n <= sent
  /\ ~Exited(n)
  /\ out' = [out EXCEPT ![c] = @ \o <<FrameOf("live", k, n)>>]
  /\ fwd' = [fwd EXCEPT ![c][k].next = n + 1]
  /\ UNCHANGED <<logged, reader, sent, run, conn>>

ForwardExited(c, k) ==
  /\ Forwarding(c, k)
  /\ Oldest <= fwd[c][k].next
  /\ Exited(fwd[c][k].next)
  /\ out' = [out EXCEPT ![c] = @ \o <<FrameOf("exited", k, 0)>>]
  /\ fwd' = [fwd EXCEPT ![c][k].at = "ended"]
  /\ UNCHANGED <<logged, reader, sent, run, conn>>

\* Lagged: what the channel no longer holds is skipped.
Skip_Breaks(f) == [f EXCEPT !.at = "ended"]
Skip(f) == [f EXCEPT !.next = Oldest]

Lagged(c, k) ==
  /\ Forwarding(c, k)
  /\ fwd[c][k].next < Oldest
  /\ fwd' = [fwd EXCEPT ![c][k] = Skip(@)]
  /\ UNCHANGED <<logged, reader, sent, run, conn, out>>

\* Every sender is gone, the thread's and the Run's.
Closed_Never == FALSE
Closed == reader = "done" /\ run = "dropped"

ChannelClosed(c, k) ==
  /\ Forwarding(c, k)
  /\ Closed
  /\ fwd[c][k].next > sent
  /\ fwd' = [fwd EXCEPT ![c][k].at = "ended"]
  /\ UNCHANGED <<logged, reader, sent, run, conn, out>>

\* The aborted task's poll ends.
Aborted(c, k) ==
  /\ fwd[c][k].at = "aborted"
  /\ fwd' = [fwd EXCEPT ![c][k].at = "ended"]
  /\ UNCHANGED <<logged, reader, sent, run, conn, out>>

--------------------------------------------------------------------------------
Reader == LogChunk \/ Send \/ Eof \/ SendExited \/ MarkStopped
AttachSteps(c) == ReadLog(c) \/ Reply(c) \/ Subscribe(c)
Forward(c, k) == ForwardChunk(c, k) \/ ForwardExited(c, k) \/ Lagged(c, k) \/ ChannelClosed(c, k)

AttachNext ==
  \/ Reader \/ Register \/ Removed
  \/ \E c \in Client : AttachStart(c) \/ AttachSteps(c)
  \/ \E c \in Client, k \in Attach : Forward(c, k) \/ Aborted(c, k)

AttachSpec == AttachInit /\ [][AttachNext]_attachVars

\* The reader goes on while there is something to log or to send and once the PTY has
\* closed; a forwarder is scheduled when it has something to receive. Nothing closes the
\* PTY, and nobody has to attach.
FairSpec ==
  /\ AttachSpec
  /\ WF_attachVars(Send \/ SendExited \/ MarkStopped)
  /\ \A c \in Client : \A k \in Attach : WF_attachVars(Forward(c, k))

--------------------------------------------------------------------------------
\* All that a client is sent live comes after its latest replay. What the attach of that replay
\* forwards is in order and repeats at most the last chunk of the replay, the one that was
\* logged and not yet sent. Anything else is of an attach before it whose forwarder has been
\* told to stop: two that go on side by side would send every byte twice.
LiveFollowsReplay ==
  \A c \in Client : \A j \in DOMAIN out[c] :
    LET f == out[c][j]
        replay == out[c][1]
    IN f.kind = "live" =>
         /\ replay.kind = "replay" /\ f.attach <= replay.attach
         /\ f.attach = replay.attach => replay.n <= f.n
         /\ f.attach < replay.attach => fwd[c][f.attach].at \in {"aborted", "ended"}
         /\ \A h \in 2..(j - 1) :
              out[c][h].kind = "live" /\ out[c][h].attach = f.attach => out[c][h].n < f.n

\* A client attached before the end is told of it, however far it has fallen behind: a
\* forwarder only ends on its own after Exited, which the channel never drops.
ExitTold ==
  \A c \in Client : \A k \in Attach :
    fwd[c][k].at = "ended" /\ ExitedSent /\ fwd[c][k].from <= sent /\ k = conn[c].attach
      => \E i \in DOMAIN out[c] : out[c][i].kind = "exited" /\ out[c][i].attach = k

\* The reader marked the session stopped before the Run was in the table: that one stays there
\* with its sender, and who subscribes to it then is never told anything.
LeftOpen(c, k) == reader = "done" /\ run = "table" /\ fwd[c][k].from > sent

\* Forwarders do not outlive the run, those that came after Exited included, unless the mark
\* came too early for it.
ForwardersEnd ==
  \A c \in Client : \A k \in Attach :
    (reader \in {"wait", "exited", "done"} /\ fwd[c][k].at # "none")
      ~> (fwd[c][k].at = "ended" \/ LeftOpen(c, k))
================================================================================
