-------------------------------- MODULE StateFile --------------------------------
(***************************************************************************)
(* state.json (src/src/server.rs): Hub::save behind announce, Hub::new and *)
(* load_state after the daemon has died.                                   *)
(*                                                                         *)
(* save is called by whoever changed the table, on that caller's thread    *)
(* and outside the table's mutex: nothing keeps two saves apart, and both  *)
(* write the one state.tmp.  The file system is names and inodes, because  *)
(* that is what a write to an open file and a rename are about.            *)
(*                                                                         *)
(* The table is the conversation of each session it holds.  A file is as   *)
(* long as the table in it, and parses if it holds the whole of one table  *)
(* and nothing else.                                                       *)
(***************************************************************************)
EXTENDS Naturals, FiniteSets

CONSTANTS
  Sid,       \* session ids
  Conv,      \* conversation ids
  Saver,     \* threads that may be inside announce at once
  Inode,     \* files the disk has room for
  MaxCrash,  \* bound on the crashes of the daemon
  None

Table == [Sid -> Conv \cup {None}]

ASSUME StateFileAssumption == None \notin Sid \cup Inode \cup Conv \cup Table /\ MaxCrash \in Nat

VARIABLES
  table,    \* Hub.sessions: each session's conversation, None for an id that has none
  issued,   \* ids ever handed out
  saver,    \* each thread's place in save, its snapshot and its open file
  file,     \* the inodes: length, and the table the bytes spell, if they spell one
  tmp,      \* the inode named state.tmp, or None
  state,    \* the inode named state.json, or None
  crashes,  \* the daemon died this often
  met,      \* history: the saves under way that have had another one beside them
  mixed     \* history: the latest rename was of such a save

stateVars == <<table, issued, saver, file, tmp, state, crashes, met, mixed>>

Junk == [len |-> 0, holds |-> None]
Empty == [s \in Sid |-> None]
NoSave == [at |-> "idle", copy |-> Empty, fd |-> None]

\* The variables have these types in every reachable state.
StateTypeOK ==
  /\ table \in Table
  /\ issued \in SUBSET Sid
  /\ saver \in [Saver -> [at : {"idle", "copy", "open", "write", "rename"},
                          copy : Table, fd : Inode \cup {None}]]
  /\ file \in [Inode -> [len : Nat, holds : Table \cup {None}]]
  /\ tmp \in Inode \cup {None}
  /\ state \in Inode \cup {None}
  /\ crashes \in 0..MaxCrash
  /\ met \in SUBSET Saver
  /\ mixed \in BOOLEAN

Init ==
  /\ table = Empty /\ issued = {}
  /\ saver = [w \in Saver |-> NoSave]
  /\ file = [i \in Inode |-> Junk]
  /\ tmp = None /\ state = None
  /\ crashes = 0
  /\ met = {} /\ mixed = FALSE

\* A JSON array of the sessions: more sessions, more bytes.
Size(t) == Cardinality({s \in Sid : t[s] # None}) + 1

--------------------------------------------------------------------------------
\* A handler, a reader or the scanner changes the table under its mutex and goes on to save.
Change_Unannounced(w, t, ids) ==
  /\ saver[w].at = "idle"
  /\ table' = t /\ issued' = ids
  /\ saver' = IF ids = issued THEN saver ELSE [saver EXCEPT ![w].at = "copy"]
  /\ UNCHANGED <<file, tmp, state, crashes, met, mixed>>
Change(w, t, ids) ==
  /\ saver[w].at = "idle"
  /\ table' = t /\ issued' = ids
  /\ saver' = [saver EXCEPT ![w].at = "copy"]
  /\ UNCHANGED <<file, tmp, state, crashes, met, mixed>>

Create(w, s, c) == s \notin issued /\ Change(w, [table EXCEPT ![s] = c], issued \cup {s})
Kill(w, s) == table[s] # None /\ Change(w, [table EXCEPT ![s] = None], issued)
Switch(w, s, c) == table[s] \notin {None, c} /\ Change(w, [table EXCEPT ![s] = c], issued)
\* A restart, or a run that ended: nothing that is saved has changed, and it is saved again.
Announce(w) == Change(w, table, issued)

\* The saves between their snapshot and their rename.
Holding == {w \in Saver : saver[w].at \in {"open", "write", "rename"}}

\* save: the snapshot, under the mutex again; it is let go before the disk is touched.
Copy(w) ==
  /\ saver[w].at = "copy"
  /\ saver' = [saver EXCEPT ![w] = [at |-> "open", copy |-> table, fd |-> None]]
  /\ met' = IF Holding = {} THEN {} ELSE Holding \cup {w}
  /\ UNCHANGED <<table, issued, file, tmp, state, crashes, mixed>>

Open_NotEmptied(w) ==
  /\ saver[w].at = "open"
  /\ \E i \in Inode :
        /\ IF tmp = None
             THEN i # state /\ \A v \in Saver : saver[v].fd # i
             ELSE i = tmp
        /\ tmp' = i
        /\ file' = IF tmp = None THEN [file EXCEPT ![i] = Junk] ELSE file
        /\ saver' = [saver EXCEPT ![w].at = "write", ![w].fd = i]
  /\ UNCHANGED <<table, issued, state, crashes, met, mixed>>
Open_InPlace(w) ==
  /\ saver[w].at = "open"
  /\ \E i \in Inode :
        /\ state \in {None, i}
        /\ state' = i
        /\ file' = [file EXCEPT ![i] = Junk]
        /\ saver' = [saver EXCEPT ![w].at = "write", ![w].fd = i]
  /\ UNCHANGED <<table, issued, tmp, crashes, met, mixed>>

\* fs::write opens state.tmp: it empties the file of that name, or makes one.
Open(w) ==
  /\ saver[w].at = "open"
  /\ \E i \in Inode :
        /\ IF tmp = None
             THEN i # state /\ \A v \in Saver : saver[v].fd # i
             ELSE i = tmp
        /\ tmp' = i
        /\ file' = [file EXCEPT ![i] = Junk]
        /\ saver' = [saver EXCEPT ![w].at = "write", ![w].fd = i]
  /\ UNCHANGED <<table, issued, state, crashes, met, mixed>>

\* What a file is after t is written over it from the start: what was longer than t still
\* sticks out behind it.
Overwritten(f, t) ==
  [len   |-> IF Size(t) >= f.len THEN Size(t) ELSE f.len,
   holds |-> IF Size(t) >= f.len THEN t ELSE None]

\* fs::write writes to the file it has open, by whatever name that goes now.
Write(w) ==
  /\ saver[w].at = "write"
  /\ file' = [file EXCEPT ![saver[w].fd] = Overwritten(@, saver[w].copy)]
  /\ saver' = [saver EXCEPT ![w].at = "rename", ![w].fd = None]
  /\ UNCHANGED <<table, issued, tmp, state, crashes, met, mixed>>

\* fs::rename, whose failure is ignored: there is nothing to rename when another save has.
Rename(w) ==
  /\ saver[w].at = "rename"
  /\ IF tmp = None
       THEN UNCHANGED <<tmp, state>>
       ELSE state' = tmp /\ tmp' = None
  /\ saver' = [saver EXCEPT ![w] = NoSave]
  /\ mixed' = (w \in met) /\ met' = met \ {w}
  /\ UNCHANGED <<table, issued, file, crashes>>

\* load_state: no file, or one that does not parse, is an empty list.
Loaded == IF state = None \/ file[state].holds = None THEN Empty ELSE file[state].holds

\* The daemon dies at any point and a new one restores what it finds.
Crash ==
  /\ crashes < MaxCrash
  /\ crashes' = crashes + 1
  /\ table' = Loaded
  /\ saver' = [w \in Saver |-> NoSave]
  /\ met' = {}
  /\ UNCHANGED <<issued, file, tmp, state, mixed>>

Save(w) == Copy(w) \/ Open(w) \/ Write(w) \/ Rename(w)

Next ==
  \/ \E w \in Saver : Save(w) \/ Announce(w)
  \/ \E w \in Saver, s \in Sid : Kill(w, s) \/ \E c \in Conv : Create(w, s, c) \/ Switch(w, s, c)
  \/ Crash

Spec == Init /\ [][Next]_stateVars

--------------------------------------------------------------------------------
\* "tmp-file + rename, so a crash mid-write can't leave a truncated state file" (server.rs:376):
\* whenever the daemon dies, the state file it leaves can be read back. It holds of one saver; of
\* two whose saves overlap it does not.
StateFileParses == state # None => file[state].holds # None

Idle == \A w \in Saver : saver[w].at = "idle"

\* Once every save is over, the disk holds the table: a session that was created is there
\* after a crash, in the conversation it was last known to be in, and one that was killed
\* is not.
SavedWhenIdle == Idle => Loaded = table

\* Whatever saves that ran beside one another have left on the disk, in state.tmp as well as in
\* state.json, and wherever the daemon died meanwhile, the rename of one that had no other
\* beside it puts it right: the file can be read back until two have run beside each other
\* again and one of them is renamed, and holds the table whenever every save is over.
LoneSaveHeals == ~mixed => StateFileParses /\ SavedWhenIdle
================================================================================
