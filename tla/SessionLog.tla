------------------------------- MODULE SessionLog -------------------------------
(***************************************************************************)
(* The log of one session (src/src/server.rs): SessionLog, which the       *)
(* reader of each of its runs appends to and now and then trims, and the   *)
(* two looks an Attach takes at the file, mode_prelude and read_tail.      *)
(*                                                                         *)
(* A client builds its terminal from what is replayed, so the question is  *)
(* whether the log and a replay still tell the modes that were set in      *)
(* output no longer there.  The mode is one DEC private mode, and what     *)
(* bears on it in the output comes in pieces: "e" is the ESC[? and the     *)
(* digits of a sequence, "h" and "l" are the bytes that may end one, and   *)
(* "-" is anything else.  A sequence is an "e" and its end.  The end of a  *)
(* read, the daemon's death and the cuts of a trim and of a replay may     *)
(* come between the two, and a sequence may be broken off by another.      *)
(***************************************************************************)
EXTENDS Naturals, Sequences

CONSTANTS
  MaxSaid,    \* bound on the output of the session
  MaxRead,    \* the most the reader gets in one read of the PTY
  MaxRuns,    \* bound on its launches
  Replay,     \* REPLAY_BYTES
  LogKeep,    \* LOG_KEEP
  LogMax      \* LOG_MAX

ASSUME LogAssumption ==
  /\ MaxSaid \in Nat /\ MaxRead \in Nat /\ MaxRuns \in Nat
  /\ Replay \in Nat \ {0} /\ LogKeep \in Nat \ {0} /\ LogMax \in Nat
  /\ Replay <= LogKeep /\ LogKeep <= LogMax

VARIABLES
  said,    \* the session's output, piece by piece
  log,     \* the log file
  trimmed, \* the .trim file, while a trim is under way
  since,   \* since_check of the open log
  writer,  \* where the run's reader stands with the log
  runs,    \* launches so far
  look,    \* the attach in progress: what it has read of the log
  replay,  \* what the latest attach sent
  hurt     \* history: a trim cut the last sequence there was in two, and there is no newer one

logVars == <<said, log, trimmed, since, writer, runs, look, replay, hurt>>

Mode == {"h", "l", "-"}
Says == Mode \cup {"e"}
Chunks == UNION {[1..n -> Says] : n \in 1..MaxRead}
Reading == [at : {"idle", "tail"}, head : Mode, seen : 0..MaxSaid, lost : BOOLEAN]
Sent == [mode : Mode, upto : 0..MaxSaid, calm : BOOLEAN, lost : BOOLEAN]

\* The variables have these types in every reachable state.
LogTypeOK ==
  /\ said \in Seq(Says) /\ Len(said) <= MaxSaid
  /\ log \in Seq(Says)
  /\ trimmed \in Seq(Says)
  /\ since \in 0..LogKeep
  /\ writer \in {"closed", "read", "trim", "rename"}
  /\ runs \in 0..MaxRuns
  /\ look \in Reading
  /\ replay \in Sent
  /\ hurt \in BOOLEAN

--------------------------------------------------------------------------------
\* Where a sequence ends in f, and the mode that is set by the last of those that end at ends.
Whole(f) == {i \in 2..Len(f) : f[i - 1] = "e" /\ f[i] \in {"h", "l"}}
LastOf(ends) == CHOOSE i \in ends : \A j \in ends : j <= i
ModeOf(f, ends) == IF ends = {} THEN "-" ELSE f[LastOf(ends)]

\* The mode a terminal is in once it has been fed f.
ModeAfter(f) == ModeOf(f, Whole(f))

\* read_head_before and read_tail: the file split before its last k pieces, wherever that is.
HeadBefore(f, k) == IF Len(f) <= k THEN <<>> ELSE SubSeq(f, 1, Len(f) - k)
TailOf(f, k) == IF Len(f) <= k THEN f ELSE SubSeq(f, Len(f) - k + 1, Len(f))

\* The sequences that mode_prelude finds in f: one that another breaks off takes the ESC of that
\* other one with it, since the scan goes on behind the byte that was no digit.
Collected(f) ==
  {i \in Whole(f) :
     \E s \in 0..(i - 2) : /\ s = 0 \/ f[s] # "e"
                           /\ \A t \in (s + 1)..(i - 1) : f[t] = "e"
                           /\ (i - s) % 2 = 0}

\* mode_prelude: the mode set before the last k pieces, as the sequence that sets it.
ModeBefore(f, k) == LET head == HeadBefore(f, k) IN ModeOf(head, Collected(head))
Restores(m) == IF m = "-" THEN <<>> ELSE <<"e", m>>
Prelude(f, k) == Restores(ModeBefore(f, k))

\* What trim writes in place of the log.
Kept_TailOnly(f) == TailOf(f, LogKeep)
Kept(f) == Prelude(f, LogKeep) \o TailOf(f, LogKeep)

\* Only every LOG_KEEP of output is the file's length looked at.
Due(n) == n > LogKeep

\* The last sequence of f begins before the last k pieces and ends in them.
CutThrough(f, k) == Whole(f) # {} /\ LastOf(Whole(f)) = Len(f) - k + 1

NoLook == [at |-> "idle", head |-> "-", seen |-> 0, lost |-> FALSE]

LogInit ==
  /\ said = <<>> /\ log = <<>> /\ trimmed = <<>>
  /\ since = 0 /\ writer = "closed" /\ runs = 0
  /\ look = NoLook
  /\ replay = [mode |-> "-", upto |-> 0, calm |-> FALSE, lost |-> FALSE]
  /\ hurt = FALSE

--------------------------------------------------------------------------------
\* A launch, or a relaunch, opens the log and appends to what is there.
OpenLog ==
  /\ writer = "closed"
  /\ runs < MaxRuns
  /\ runs' = runs + 1
  /\ writer' = "read" /\ since' = 0
  /\ UNCHANGED <<said, log, trimmed, look, replay, hurt>>

\* append: what was read of the PTY goes to the log.
WriteChunk ==
  /\ writer = "read"
  /\ \E chunk \in Chunks :
        /\ Len(said) + Len(chunk) <= MaxSaid
        /\ said' = said \o chunk /\ log' = log \o chunk
        /\ IF Due(since + Len(chunk))
             THEN since' = 0 /\ writer' = "trim"
             ELSE since' = since + Len(chunk) /\ UNCHANGED writer
        /\ hurt' = (hurt /\ \A i \in Whole(said \o chunk) : i <= Len(said))
  /\ UNCHANGED <<trimmed, runs, look, replay>>

\* trim: a log within LOG_MAX is left alone; of a longer one the new text goes to a file of
\* its own first.
TrimWrite ==
  /\ writer = "trim"
  /\ IF Len(log) <= LogMax
       THEN writer' = "read" /\ UNCHANGED trimmed
       ELSE writer' = "rename" /\ trimmed' = Kept(log)
  /\ UNCHANGED <<said, log, since, runs, look, replay, hurt>>

TrimRename ==
  /\ writer = "rename"
  /\ log' = trimmed
  /\ trimmed' = <<>>
  /\ writer' = "read"
  /\ hurt' = (hurt \/ CutThrough(log, LogKeep))
  /\ UNCHANGED <<said, since, runs, look, replay>>

\* The run ends, or the daemon dies, at any point.
CloseLog ==
  /\ writer # "closed"
  /\ writer' = "closed"
  /\ UNCHANGED <<said, log, trimmed, since, runs, look, replay, hurt>>

\* Attach opens the log for the modes before the replay window...
LookAtHead ==
  /\ look.at = "idle"
  /\ look' = [at |-> "tail", head |-> ModeBefore(log, Replay), seen |-> Len(said),
              lost |-> hurt \/ CutThrough(log, Replay)]
  /\ UNCHANGED <<said, log, trimmed, since, writer, runs, replay, hurt>>

\* ... and opens and measures it again for the window itself.
LookAtTail ==
  /\ look.at = "tail"
  /\ replay' = [mode |-> ModeAfter(Restores(look.head) \o TailOf(log, Replay)),
                upto |-> Len(said), calm |-> look.seen = Len(said), lost |-> look.lost]
  /\ look' = NoLook
  /\ UNCHANGED <<said, log, trimmed, since, writer, runs, hurt>>

LogNext ==
  \/ OpenLog \/ WriteChunk \/ TrimWrite \/ TrimRename \/ CloseLog
  \/ LookAtHead \/ LookAtTail

LogSpec == LogInit /\ [][LogNext]_logVars

--------------------------------------------------------------------------------
\* No sequence is broken off by the start of another.
Sound(f) == \A i \in 2..Len(f) : f[i - 1] = "e" => f[i] # "e"

\* However often the log has been trimmed, and wherever the daemon died, it tells the mode
\* the guest is in, unless a trim fell into the very sequence that last told it. A replay puts a
\* client's terminal in the mode the guest was in, if neither that trim nor its own window fell
\* into that sequence and nothing was logged between its two looks at the log; a trim between
\* them does no harm.
ReplayRestoresModes ==
  Sound(said) =>
    /\ ~hurt => ModeAfter(log) = ModeAfter(said)
    /\ replay.calm /\ ~replay.lost => replay.mode = ModeAfter(SubSeq(said, 1, replay.upto))
================================================================================
