------------------------------ MODULE Conversations ------------------------------
(***************************************************************************)
(* Which Claude conversation each session is in (src/src/conversation.rs   *)
(* and its callers in src/src/server.rs): assigned by Create, followed by  *)
(* the scanner, kept in state.json and resumed by Restart.                 *)
(*                                                                         *)
(* A process moves between conversations as its user likes.  It names the  *)
(* one it is in in a file the scanner reads, and writes its transcript     *)
(* with the first turn.  That a turn moves the activity is ActivityTracker *)
(* and taken as given here.  One handler is at work: a Restart is a step.  *)
(***************************************************************************)
EXTENDS StateFile

VARIABLES
  proc,         \* the Claude process of each session, None for a stopped one
  transcripts,  \* conversations there is something to resume of
  scan          \* the scanner, between the screen, the process's file and the table

convVars == <<proc, transcripts, scan>>

Proc == [conv : Conv,
         turned : BOOLEAN,  \* it had a turn in this conversation since it entered it
         moved : BOOLEAN]   \* a turn has moved the activity, and no scan has seen it

ASSUME ConvAssumption == None \notin Proc

NotScanning == [at |-> "idle", sid |-> None, conv |-> None]

\* The variables have these types in every reachable state.
ConvTypeOK ==
  /\ proc \in [Sid -> Proc \cup {None}]
  /\ transcripts \in SUBSET Conv
  /\ scan \in [at : {"idle", "file", "apply"}, sid : Sid \cup {None}, conv : Conv \cup {None}]

ConvInit ==
  /\ Init
  /\ proc = [s \in Sid |-> None]
  /\ transcripts = {}
  /\ scan = NotScanning

--------------------------------------------------------------------------------
\* new_id: one that nothing is or was called.
Unused ==
  {c \in Conv : /\ c \notin transcripts
                /\ \A s \in Sid : table[s] # c /\ (proc[s] # None => proc[s].conv # c)
                /\ scan.conv # c}

\* argv_for: the agent's resume command if there is a transcript to resume, and its command
\* under that id if not. It is in that conversation either way.
Launched(c) == [conv |-> c, turned |-> FALSE, moved |-> FALSE]

CreateConv(w, s) ==
  \E c \in Unused :
    /\ Create(w, s, c)
    /\ proc' = [proc EXCEPT ![s] = Launched(c)]
    /\ UNCHANGED <<transcripts, scan>>

\* restart: the session keeps its conversation, which announce saves again.
Restart(w, s) ==
  /\ table[s] # None /\ proc[s] = None
  /\ Announce(w)
  /\ proc' = [proc EXCEPT ![s] = Launched(table[s])]
  /\ UNCHANGED <<transcripts, scan>>

\* The process ends and its file goes: a scan that was about to read it finds none.
Ends(s) ==
  /\ proc' = [proc EXCEPT ![s] = None]
  /\ scan' = IF scan.at = "file" /\ scan.sid = s THEN [scan EXCEPT !.at = "apply"] ELSE scan
  /\ UNCHANGED transcripts

KillConv(w, s) == Kill(w, s) /\ Ends(s)

\* mark_stopped.
Exit(w, s) == proc[s] # None /\ Announce(w) /\ Ends(s)

\* /clear and /resume.
Moves(s) ==
  /\ proc[s] # None
  /\ \E c \in Unused \cup transcripts : c # proc[s].conv
       /\ proc' = [proc EXCEPT ![s].conv = c, ![s].turned = FALSE]
  /\ UNCHANGED <<stateVars, transcripts, scan>>

Turn(s) ==
  /\ proc[s] # None
  /\ proc' = [proc EXCEPT ![s].turned = TRUE, ![s].moved = TRUE]
  /\ transcripts' = transcripts \cup {proc[s].conv}
  /\ UNCHANGED <<stateVars, scan>>

--------------------------------------------------------------------------------
\* scan, one session of it at a time: it looks at the screen, if the activity has moved,
\* and asks the process which conversation it is in by then.
ScanLooks_FileFirst ==
  \/ /\ scan.at = "idle"
     /\ \E s \in Sid :
          /\ proc[s] # None /\ proc[s].moved
          /\ scan' = [at |-> "file", sid |-> s, conv |-> proc[s].conv]
     /\ UNCHANGED proc
  \/ /\ scan.at = "file"
     /\ scan' = [scan EXCEPT !.at = "apply"]
     /\ proc' = [proc EXCEPT ![scan.sid].moved = FALSE]
ScanLooks ==
  \/ /\ scan.at = "idle"
     /\ \E s \in Sid :
          /\ proc[s] # None /\ proc[s].moved
          /\ proc' = [proc EXCEPT ![s].moved = FALSE]
          /\ scan' = [at |-> "file", sid |-> s, conv |-> None]
  \/ /\ scan.at = "file"
     /\ scan' = [scan EXCEPT !.at = "apply", !.conv = proc[scan.sid].conv]
     /\ UNCHANGED proc

\* What it found goes to the table, for whichever run the session has then, and is saved if
\* that is another conversation.
Applies == proc[scan.sid] # None /\ scan.conv \notin {None, table[scan.sid]}

ScanApply(w) ==
  /\ scan.at = "apply"
  /\ scan' = NotScanning
  /\ IF Applies THEN Switch(w, scan.sid, scan.conv) ELSE UNCHANGED stateVars
  /\ UNCHANGED <<proc, transcripts>>

\* The processes go with the daemon, whose end of their terminals they have.
CrashConv ==
  /\ Crash
  /\ proc' = [s \in Sid |-> None]
  /\ scan' = NotScanning
  /\ UNCHANGED transcripts

Requests ==
  \E w \in Saver, s \in Sid :
     CreateConv(w, s) \/ Restart(w, s) \/ KillConv(w, s) \/ Exit(w, s)
Agents == \E s \in Sid : Moves(s) \/ Turn(s)
Scanner ==
  \/ ScanLooks /\ UNCHANGED <<stateVars, transcripts>>
  \/ \E w \in Saver : ScanApply(w)
Saving == (\E w \in Saver : Save(w)) /\ UNCHANGED convVars

ConvNext == Requests \/ Agents \/ Scanner \/ Saving \/ CrashConv

ConvSpec == ConvInit /\ [][ConvNext]_<<stateVars, convVars>>

--------------------------------------------------------------------------------
\* "A conversation worth resuming had a turn, and a turn moves the activity": a session
\* that had a turn in the conversation it is in, and whose screen was scanned since, is
\* known to be in that one, whatever it was in before and whatever was under way then. So
\* it is what a restart resumes.
TurnIsRemembered ==
  \A s \in Sid : proc[s] # None /\ proc[s].turned /\ ~proc[s].moved /\ scan.sid # s
                   => table[s] = proc[s].conv
================================================================================
