----------------------------- MODULE RecordsProofs -----------------------------
(***************************************************************************)
(* What the records of the daemon are good for, for any number of          *)
(* sessions, conversations, crashes and threads that save, and any length  *)
(* of output.  A save that had no other beside it leaves state.json whole  *)
(* and current whatever is on the disk, and which conversation a session   *)
(* is in is remembered in any case.  A session's log, however often it is  *)
(* trimmed, tells the mode the guest is in, as long as no cut falls into   *)
(* the sequence that set it; and what a client is sent of it and of the    *)
(* channel is in order, and told the end, for any number of clients and    *)
(* any capacity of the channel.                                            *)
(***************************************************************************)
EXTENDS Conversations, SessionLog, AttachStream, FiniteSetTheorems, NaturalsInduction,
        WellFoundedInduction, SequenceTheorems, TLAPS

(***************************************************************************)
(* Every table there is or that is about to be written holds finitely many *)
(* sessions, so it has a size.                                             *)
(***************************************************************************)
Finite(t) == IsFiniteSet({s \in Sid : t[s] # None})

FiniteTables ==
  /\ Finite(table)
  /\ \A w \in Saver : Finite(saver[w].copy)
  /\ \A i \in Inode : file[i].holds # None => Finite(file[i].holds)

TablesOK == StateTypeOK /\ FiniteTables

\* A table that holds finitely many sessions is some number of bytes long.
LEMMA SizeIsPositive ==
  ASSUME NEW t \in Table, Finite(t) PROVE Size(t) \in Nat \ {0}
BY FS_CardinalityType DEF Size, Finite

\* One entry more or less leaves a finite table finite.
LEMMA OneEntryMore ==
  ASSUME NEW t \in Table, Finite(t), NEW s \in Sid, NEW c \in Conv \cup {None}
  PROVE  [t EXCEPT ![s] = c] \in Table /\ Finite([t EXCEPT ![s] = c])
<1> DEFINE u == [t EXCEPT ![s] = c]
           held == {x \in Sid : t[x] # None}
<1>1. {x \in Sid : u[x] # None} \subseteq held \cup {s}
  BY DEF Table
<1>2. IsFiniteSet(held \cup {s})
  BY FS_AddElement DEF Finite
<1>3. IsFiniteSet({x \in Sid : u[x] # None})
  BY <1>1, <1>2, FS_Subset
<1> QED BY <1>3 DEF Finite, Table

\* What a daemon finds is a finite table.
LEMMA LoadedType == TablesOK => Loaded \in Table /\ Finite(Loaded)
<1> SUFFICES ASSUME TablesOK PROVE Loaded \in Table /\ Finite(Loaded)
  OBVIOUS
<1>1. Empty \in Table /\ {s \in Sid : Empty[s] # None} = {}
  BY DEF Empty, Table
<1>2. Finite(Empty)
  BY <1>1, FS_EmptySet DEF Finite
<1> QED BY <1>1, <1>2 DEF Loaded, TablesOK, StateTypeOK, FiniteTables

LEMMA TablesInit == Init => TablesOK
<1> SUFFICES ASSUME Init PROVE TablesOK
  OBVIOUS
<1>1. Empty \in Table /\ {s \in Sid : Empty[s] # None} = {}
  BY DEF Empty, Table
<1>2. Finite(Empty)
  BY <1>1, FS_EmptySet DEF Finite
<1>3. StateTypeOK
  <2>1. NoSave \in [at : {"idle", "copy", "open", "write", "rename"}, copy : Table, fd : Inode \cup {None}]
    BY <1>1 DEF NoSave
  <2>2. Junk \in [len : Nat, holds : Table \cup {None}]
    BY DEF Junk
  <2>3. crashes = 0 /\ issued = {} /\ met = {} /\ mixed = FALSE
    BY DEF Init
  <2>4. 0 \in 0..MaxCrash
    BY StateFileAssumption
  <2> QED BY <1>1, <2>1, <2>2, <2>3, <2>4 DEF Init, StateTypeOK
<1>4. /\ table = Empty /\ \A w \in Saver : saver[w].copy = Empty
      /\ \A i \in Inode : file[i].holds = None
  BY DEF Init, NoSave, Junk
<1> QED BY <1>2, <1>3, <1>4 DEF TablesOK, FiniteTables

\* A change of the table, announced.
LEMMA ChangeStep ==
  ASSUME TablesOK, NEW w \in Saver, NEW t \in Table, Finite(t), NEW ids \in SUBSET Sid, Change(w, t, ids)
  PROVE  TablesOK'
<1>1. StateTypeOK'
  BY DEF Change, TablesOK, StateTypeOK
<1>2. \A v \in Saver : saver'[v].copy = saver[v].copy
  BY DEF Change, TablesOK, StateTypeOK
<1> QED BY <1>1, <1>2 DEF Change, TablesOK, FiniteTables, Finite

\* The types and the finiteness of the tables are kept.
LEMMA TablesStep == TablesOK /\ [Next]_stateVars => TablesOK'
<1> SUFFICES ASSUME TablesOK, [Next]_stateVars PROVE TablesOK'
  OBVIOUS
<1>0. StateTypeOK /\ table \in Table /\ Finite(table)
  BY DEF TablesOK, StateTypeOK, FiniteTables
<1>1. ASSUME NEW w \in Saver, NEW s \in Sid, NEW c \in Conv, Create(w, s, c) PROVE TablesOK'
  BY <1>0, <1>1, ChangeStep, OneEntryMore DEF Create, StateTypeOK
<1>2. ASSUME NEW w \in Saver, NEW s \in Sid, Kill(w, s) PROVE TablesOK'
  BY <1>0, <1>2, ChangeStep, OneEntryMore DEF Kill, StateTypeOK
<1>3. ASSUME NEW w \in Saver, NEW s \in Sid, NEW c \in Conv, Switch(w, s, c) PROVE TablesOK'
  BY <1>0, <1>3, ChangeStep, OneEntryMore DEF Switch, StateTypeOK
<1>4. ASSUME NEW w \in Saver, Announce(w) PROVE TablesOK'
  BY <1>0, <1>4, ChangeStep DEF Announce, StateTypeOK
<1>5. ASSUME NEW w \in Saver, Copy(w) PROVE TablesOK'
  <2>1. met' \in SUBSET Saver
    BY <1>5 DEF Copy, Holding
  <2> QED BY <1>5, <2>1 DEF Copy, TablesOK, StateTypeOK, FiniteTables, Finite
<1>6. ASSUME NEW w \in Saver, Open(w) PROVE TablesOK'
  <2>1. PICK i \in Inode : /\ tmp' = i /\ file' = [file EXCEPT ![i] = Junk]
                           /\ saver' = [saver EXCEPT ![w].at = "write", ![w].fd = i]
    BY <1>6 DEF Open
  <2>2. UNCHANGED <<table, issued, state, crashes, met, mixed>>
    BY <1>6 DEF Open
  <2>3. Junk \in [len : Nat, holds : Table \cup {None}]
    BY DEF Junk
  <2>4. file' \in [Inode -> [len : Nat, holds : Table \cup {None}]]
    BY <1>0, <2>1, <2>3 DEF StateTypeOK
  <2>5. saver' \in [Saver -> [at : {"idle", "copy", "open", "write", "rename"},
                             copy : Table, fd : Inode \cup {None}]]
    BY <1>0, <2>1 DEF StateTypeOK
  <2>6. StateTypeOK'
    BY <1>0, <2>1, <2>2, <2>4, <2>5 DEF StateTypeOK
  <2>7. \A v \in Saver : saver'[v].copy = saver[v].copy
    BY <1>0, <2>1 DEF StateTypeOK
  <2>8. \A j \in Inode : file'[j].holds # None => file'[j].holds = file[j].holds
    BY <1>0, <2>1 DEF StateTypeOK, Junk
  <2>9. FiniteTables'
    BY <2>2, <2>7, <2>8 DEF TablesOK, FiniteTables, Finite
  <2> QED BY <2>6, <2>9 DEF TablesOK
<1>7. ASSUME NEW w \in Saver, Write(w) PROVE TablesOK'
  <2> DEFINE f == Overwritten(file[saver[w].fd], saver[w].copy)
  <2>1. saver[w].copy \in Table /\ Finite(saver[w].copy)
    BY DEF TablesOK, StateTypeOK, FiniteTables
  <2>2. saver[w].fd \in Inode => /\ f \in [len : Nat, holds : Table \cup {None}]
                                 /\ f.holds # None => Finite(f.holds)
    BY <2>1, SizeIsPositive, <1>0 DEF Overwritten, StateTypeOK
  <2>3. file' \in [Inode -> [len : Nat, holds : Table \cup {None}]]
    BY <1>0, <1>7, <2>2 DEF Write, StateTypeOK
  <2>4. \A j \in Inode : file'[j].holds # None => Finite(file'[j].holds)
    BY <1>0, <1>7, <2>2 DEF Write, TablesOK, FiniteTables, StateTypeOK
  <2>5. StateTypeOK'
    <3>1. saver' \in [Saver -> [at : {"idle", "copy", "open", "write", "rename"},
                               copy : Table, fd : Inode \cup {None}]]
      BY <1>0, <1>7 DEF Write, StateTypeOK
    <3>2. UNCHANGED <<table, issued, tmp, state, crashes, met, mixed>>
      BY <1>7 DEF Write
    <3> QED BY <1>0, <2>3, <3>1, <3>2 DEF StateTypeOK
  <2>6. \A v \in Saver : saver'[v].copy = saver[v].copy
    BY <1>0, <1>7 DEF Write, StateTypeOK
  <2> QED BY <1>7, <2>4, <2>5, <2>6 DEF Write, TablesOK, FiniteTables, Finite
<1>8. ASSUME NEW w \in Saver, Rename(w) PROVE TablesOK'
  <2>1. NoSave.copy \in Table /\ Finite(NoSave.copy)
    BY FS_EmptySet DEF NoSave, Empty, Table, Finite
  <2>2. StateTypeOK'
    BY <1>0, <1>8, <2>1 DEF Rename, StateTypeOK, NoSave
  <2>3. \A v \in Saver : saver'[v].copy = saver[v].copy \/ saver'[v].copy = NoSave.copy
    BY <1>0, <1>8 DEF Rename, StateTypeOK
  <2> QED BY <1>8, <2>1, <2>2, <2>3 DEF Rename, TablesOK, FiniteTables, Finite
<1>9. CASE Crash
  <2>1. NoSave.copy \in Table /\ Finite(NoSave.copy)
    BY FS_EmptySet DEF NoSave, Empty, Table, Finite
  <2>2. StateTypeOK'
    BY <1>0, <1>9, <2>1, LoadedType, StateFileAssumption DEF Crash, StateTypeOK, NoSave
  <2>3. \A v \in Saver : saver'[v].copy = NoSave.copy
    BY <1>9 DEF Crash
  <2> QED BY <1>9, <2>1, <2>2, <2>3, LoadedType DEF Crash, TablesOK, FiniteTables, Finite
<1>10. CASE UNCHANGED stateVars
  BY <1>10 DEF stateVars, TablesOK, StateTypeOK, FiniteTables, Finite
<1> QED
  BY <1>1, <1>2, <1>3, <1>4, <1>5, <1>6, <1>7, <1>8, <1>9, <1>10 DEF Next, Save

--------------------------------------------------------------------------------
(***************************************************************************)
(* The state file.  A save that no other has run beside has state.tmp to   *)
(* itself, and its snapshot is the table unless somebody has yet to look;  *)
(* while the latest rename was of such a save, no one writes to what is    *)
(* called state.json by now.                                               *)
(***************************************************************************)
Pending == \E w \in Saver : saver[w].at = "copy"

LoneFits ==
  \A w \in Holding \ met :
    /\ Holding = {w}
    /\ Pending \/ saver[w].copy = table
    /\ saver[w].at = "write" => saver[w].fd = tmp /\ tmp # None /\ file[tmp].len = 0
    /\ saver[w].at = "rename" => tmp # None /\ file[tmp].holds = saver[w].copy

StateKept ==
  ~mixed => /\ StateFileParses
            /\ \A w \in Saver : saver[w].at = "write" => saver[w].fd # state
            /\ Holding = {} => Pending \/ Loaded = table

HealInv ==
  /\ TablesOK
  /\ tmp # None => tmp # state
  /\ LoneFits
  /\ StateKept

LEMMA HealInit == Init => HealInv
<1> SUFFICES ASSUME Init PROVE HealInv
  OBVIOUS
<1>1. Holding = {} /\ Loaded = table /\ state = None /\ tmp = None
  BY DEF Init, Holding, NoSave, Loaded
<1> QED BY <1>1, TablesInit DEF HealInv, LoneFits, StateKept, StateFileParses, Init, NoSave

\* A change of the table leaves the disk and the saves alone: its own save is to come.
LEMMA HealChange ==
  ASSUME HealInv, NEW w \in Saver, NEW t, NEW ids, Change(w, t, ids)
  PROVE  (tmp' # None => tmp' # state') /\ LoneFits' /\ StateKept'
<1>0. StateTypeOK
  BY DEF HealInv, TablesOK
<1>1. /\ UNCHANGED <<file, tmp, state, met, mixed>>
      /\ saver[w].at = "idle" /\ saver'[w].at = "copy"
      /\ \A v \in Saver \ {w} : saver'[v] = saver[v]
  BY <1>0 DEF Change, StateTypeOK
<1>2. Holding' = Holding /\ Pending' /\ w \notin Holding
  BY <1>1 DEF Holding, Pending
<1>3. \A v \in Holding : saver'[v] = saver[v]
  BY <1>1, <1>2 DEF Holding
<1>4. LoneFits'
  BY <1>1, <1>2, <1>3 DEF HealInv, LoneFits
<1>5. StateKept'
  BY <1>1, <1>2 DEF HealInv, StateKept, StateFileParses
<1> QED BY <1>1, <1>4, <1>5 DEF HealInv

\* A snapshot is of the table, and makes the save alone if no other is under way.
LEMMA HealCopy ==
  ASSUME HealInv, NEW w \in Saver, Copy(w) PROVE LoneFits' /\ StateKept'
<1>0. StateTypeOK
  BY DEF HealInv, TablesOK
<1>1. /\ UNCHANGED <<file, tmp, state, mixed, table>>
      /\ saver[w].at = "copy" /\ saver'[w].at = "open" /\ saver'[w].copy = table
      /\ \A v \in Saver \ {w} : saver'[v] = saver[v]
      /\ met' = IF Holding = {} THEN {} ELSE Holding \cup {w}
  BY <1>0 DEF Copy, StateTypeOK
<1>2. Holding' = Holding \cup {w}
  BY <1>1 DEF Holding
<1>3. LoneFits'
  BY <1>1, <1>2 DEF LoneFits
<1>4. StateKept'
  BY <1>1, <1>2 DEF HealInv, StateKept, StateFileParses
<1> QED BY <1>3, <1>4

\* The file that is emptied is not the one called state.json.
LEMMA HealOpen ==
  ASSUME HealInv, NEW w \in Saver, Open(w) PROVE tmp' # state' /\ LoneFits' /\ StateKept'
<1>0. StateTypeOK
  BY DEF HealInv, TablesOK
<1>1. PICK i \in Inode : /\ tmp' = i /\ file' = [file EXCEPT ![i] = Junk]
                         /\ saver' = [saver EXCEPT ![w].at = "write", ![w].fd = i]
                         /\ IF tmp = None THEN i # state ELSE i = tmp
  BY DEF Open
<1>2. saver[w].at = "open" /\ UNCHANGED <<table, state, met, mixed>>
  BY DEF Open
<1>3. i # None /\ i # state
  BY <1>1, StateFileAssumption DEF HealInv
<1>4. file'[i].len = 0 /\ \A j \in Inode \ {i} : file'[j] = file[j]
  BY <1>0, <1>1 DEF StateTypeOK, Junk
<1>5. /\ saver'[w].at = "write" /\ saver'[w].fd = i /\ saver'[w].copy = saver[w].copy
      /\ \A v \in Saver \ {w} : saver'[v] = saver[v]
  BY <1>0, <1>1 DEF StateTypeOK
<1>6. Holding' = Holding /\ Pending' = Pending /\ w \in Holding
  BY <1>2, <1>5 DEF Holding, Pending
<1>7. LoneFits'
  <2> SUFFICES ASSUME NEW v \in Holding, v \notin met
               PROVE  /\ Holding = {v}
                      /\ Pending \/ saver'[v].copy = table
                      /\ saver'[v].at = "write" => saver'[v].fd = tmp' /\ tmp' # None /\ file'[tmp'].len = 0
                      /\ saver'[v].at # "rename"
    BY <1>2, <1>6 DEF LoneFits
  <2>1. v = w /\ Holding = {v} /\ (Pending \/ saver[v].copy = table)
    BY <1>6 DEF HealInv, LoneFits
  <2> QED BY <2>1, <1>1, <1>3, <1>4, <1>5
<1>8. StateKept'
  <2>1. state # None => file'[state] = file[state]
    BY <1>0, <1>3, <1>4 DEF StateTypeOK
  <2> QED BY <2>1, <1>2, <1>3, <1>5, <1>6 DEF HealInv, StateKept, StateFileParses
<1> QED BY <1>1, <1>2, <1>3, <1>7, <1>8

\* A write of a save that is alone fills the empty state.tmp; no write is to state.json unless
\* a save that was not alone has been renamed.
LEMMA HealWrite ==
  ASSUME HealInv, NEW w \in Saver, Write(w) PROVE LoneFits' /\ StateKept'
<1>0. StateTypeOK
  BY DEF HealInv, TablesOK
<1>1. /\ saver[w].at = "write" /\ saver'[w].at = "rename" /\ saver'[w].copy = saver[w].copy
      /\ \A v \in Saver \ {w} : saver'[v] = saver[v]
      /\ UNCHANGED <<table, tmp, state, met, mixed>>
  BY <1>0 DEF Write, StateTypeOK
<1>2. Holding' = Holding /\ Pending' = Pending /\ w \in Holding
  BY <1>1 DEF Holding, Pending
<1>3. LoneFits'
  <2> SUFFICES ASSUME NEW v \in Holding, v \notin met
               PROVE  /\ Holding = {v}
                      /\ Pending \/ saver'[v].copy = table
                      /\ saver'[v].at # "write"
                      /\ saver'[v].at = "rename" => tmp # None /\ file'[tmp].holds = saver'[v].copy
    BY <1>1, <1>2 DEF LoneFits
  <2>1. v = w /\ Holding = {v} /\ (Pending \/ saver[v].copy = table)
    BY <1>2 DEF HealInv, LoneFits
  <2>2. saver[w].fd = tmp /\ tmp \in Inode /\ file[tmp].len = 0
    BY <1>0, <1>1, <2>1 DEF HealInv, LoneFits, StateTypeOK
  <2>3. Size(saver[w].copy) \in Nat \ {0}
    BY SizeIsPositive DEF HealInv, TablesOK, StateTypeOK, FiniteTables
  <2>4. file'[tmp].holds = saver[w].copy
    BY <1>0, <2>2, <2>3 DEF Write, Overwritten, StateTypeOK
  <2> QED BY <1>1, <2>1, <2>2, <2>4, StateFileAssumption
<1>4. StateKept'
  <2>1. ~mixed /\ state # None => file'[state] = file[state]
    BY <1>0, <1>1 DEF Write, HealInv, StateKept, StateTypeOK
  <2> QED BY <1>1, <1>2, <2>1 DEF HealInv, StateKept, StateFileParses
<1> QED BY <1>3, <1>4

\* The rename of a save that was alone leaves its snapshot behind and nobody writing.
LEMMA HealRename ==
  ASSUME HealInv, NEW w \in Saver, Rename(w) PROVE LoneFits' /\ StateKept'
<1>0. StateTypeOK
  BY DEF HealInv, TablesOK
<1>1. /\ saver[w].at = "rename" /\ saver'[w].at = "idle"
      /\ \A v \in Saver \ {w} : saver'[v] = saver[v]
      /\ mixed' = (w \in met) /\ met' = met \ {w}
      /\ UNCHANGED <<table, file>>
  BY <1>0 DEF Rename, NoSave, StateTypeOK
<1>2. Holding' = Holding \ {w} /\ Pending' = Pending /\ w \in Holding
  BY <1>1 DEF Holding, Pending
<1>3. LoneFits'
  BY <1>1, <1>2 DEF HealInv, LoneFits
<1>4. CASE w \in met
  BY <1>1, <1>3, <1>4 DEF StateKept
<1>5. CASE w \notin met
  <2>1. /\ Holding = {w} /\ (Pending \/ saver[w].copy = table)
        /\ tmp \in Inode /\ file[tmp].holds = saver[w].copy
    BY <1>0, <1>1, <1>2, <1>5 DEF HealInv, LoneFits, StateTypeOK
  <2>2. state' = tmp /\ tmp # None
    BY <2>1, StateFileAssumption DEF Rename
  <2>3. saver[w].copy # None
    BY <1>0, StateFileAssumption DEF StateTypeOK
  <2>4. \A v \in Saver : saver'[v].at # "write"
    BY <1>1, <2>1 DEF Holding
  <2>5. StateFileParses' /\ Loaded' = saver[w].copy
    BY <1>1, <2>1, <2>2, <2>3 DEF StateFileParses, Loaded
  <2>6. StateKept'
    BY <1>1, <1>2, <2>1, <2>4, <2>5 DEF StateKept
  <2> QED BY <1>3, <2>6
<1> QED BY <1>4, <1>5

LEMMA HealStep == HealInv /\ [Next]_stateVars => HealInv'
<1> SUFFICES ASSUME HealInv, [Next]_stateVars
             PROVE  (tmp' # None => tmp' # state') /\ LoneFits' /\ StateKept'
  BY TablesStep DEF HealInv
<1>1. ASSUME NEW w \in Saver, NEW t, NEW ids, Change(w, t, ids)
      PROVE  (tmp' # None => tmp' # state') /\ LoneFits' /\ StateKept'
  BY <1>1, HealChange
<1>2. ASSUME NEW w \in Saver, Save(w)
      PROVE  (tmp' # None => tmp' # state') /\ LoneFits' /\ StateKept'
  <2>1. tmp' # None => tmp' # state'
    BY <1>2, HealOpen DEF Save, Copy, Write, Rename, HealInv
  <2> QED BY <1>2, <2>1, HealCopy, HealOpen, HealWrite, HealRename DEF Save
<1>3. CASE Crash
  <2>1. /\ table' = Loaded /\ Loaded' = Loaded /\ UNCHANGED <<file, tmp, state, mixed>>
        /\ \A v \in Saver : saver'[v].at = "idle"
    BY <1>3 DEF Crash, NoSave, Loaded
  <2>2. Holding' = {}
    BY <2>1 DEF Holding
  <2> QED BY <2>1, <2>2 DEF HealInv, LoneFits, StateKept, StateFileParses
<1>4. CASE UNCHANGED stateVars
  BY <1>4 DEF stateVars, HealInv, LoneFits, StateKept, StateFileParses, Holding, Pending, Loaded
<1> QED
  BY <1>1, <1>2, <1>3, <1>4 DEF Next, Create, Kill, Switch, Announce

\* For any number of threads that save, whatever those that ran beside one another have left and
\* wherever the daemon died: once a save that had no other beside it has been renamed, the state
\* file can be read back, and holds the table when every save is over, until one that was not
\* alone is renamed again.
THEOREM LoneSavesHeal == Spec => []LoneSaveHeals
<1>1. HealInv => LoneSaveHeals
  BY DEF HealInv, StateKept, LoneSaveHeals, SavedWhenIdle, Idle, Holding, Pending
<1> QED BY <1>1, HealInit, HealStep, PTL DEF Spec

--------------------------------------------------------------------------------
(***************************************************************************)
(* The conversations, on top of the table.  A step of the sessions, of the *)
(* agents or of the scanner is a step of the table's savers or leaves the  *)
(* table alone, so what was proved of the state file holds beside them.    *)
(***************************************************************************)
\* The scanner is at some session, which has a process until its file is read.
ScanFits ==
  /\ scan.at = "idle" => scan.sid = None
  /\ scan.at # "idle" => scan.sid \in Sid
  /\ scan.at = "file" => proc[scan.sid] # None

PlacesOK == TablesOK /\ ConvTypeOK /\ ScanFits

LEMMA PlacesInit == ConvInit => PlacesOK
BY TablesInit DEF ConvInit, PlacesOK, ConvTypeOK, ScanFits, NotScanning

LEMMA ConvSteps == PlacesOK /\ [ConvNext]_<<stateVars, convVars>> => [Next]_stateVars
<1> SUFFICES ASSUME PlacesOK, [ConvNext]_<<stateVars, convVars>> PROVE [Next]_stateVars
  OBVIOUS
<1>1. CASE Requests
  BY <1>1 DEF Requests, CreateConv, Restart, KillConv, Exit, Unused, Next
<1>2. CASE Agents
  BY <1>2 DEF Agents, Moves, Turn
<1>3. CASE Scanner
  <2>1. CASE UNCHANGED stateVars
    BY <2>1
  <2>2. ASSUME NEW w \in Saver, scan.at = "apply", Applies, Switch(w, scan.sid, scan.conv)
        PROVE  [Next]_stateVars
    <3>1. scan.conv \in Conv /\ scan.sid \in Sid
      BY <2>2 DEF Applies, PlacesOK, ConvTypeOK, ScanFits
    <3> QED BY <2>2, <3>1 DEF Next
  <2> QED BY <1>3, <2>1, <2>2 DEF Scanner, ScanApply
<1>4. CASE Saving
  BY <1>4 DEF Saving, Next
<1>5. CASE CrashConv
  BY <1>5 DEF CrashConv, Next
<1>6. CASE UNCHANGED <<stateVars, convVars>>
  BY <1>6
<1> QED BY <1>1, <1>2, <1>3, <1>4, <1>5, <1>6 DEF ConvNext

\* What a handler does to the process of one session, and to a scan that is at it.
LEMMA EndsStep ==
  ASSUME PlacesOK, NEW s \in Sid, Ends(s) PROVE ConvTypeOK' /\ ScanFits'
<1>1. scan' \in [at : {"idle", "file", "apply"}, sid : Sid \cup {None}, conv : Conv \cup {None}]
  BY DEF Ends, PlacesOK, ConvTypeOK
<1>2. ConvTypeOK'
  BY <1>1 DEF Ends, PlacesOK, ConvTypeOK
<1>3. ScanFits'
  BY DEF Ends, PlacesOK, ConvTypeOK, ScanFits
<1> QED BY <1>2, <1>3

LEMMA PlacesStep == PlacesOK /\ [ConvNext]_<<stateVars, convVars>> => ConvTypeOK' /\ ScanFits'
<1> SUFFICES ASSUME PlacesOK, [ConvNext]_<<stateVars, convVars>> PROVE ConvTypeOK' /\ ScanFits'
  OBVIOUS
<1>0. ConvTypeOK /\ ScanFits
  BY DEF PlacesOK
<1>1. ASSUME NEW s \in Sid, NEW c \in Conv, proc' = [proc EXCEPT ![s] = Launched(c)],
             UNCHANGED <<transcripts, scan>>
      PROVE  ConvTypeOK' /\ ScanFits'
  <2>1. Launched(c) \in Proc
    BY DEF Launched, Proc
  <2>2. proc' \in [Sid -> Proc \cup {None}]
    BY <1>0, <1>1, <2>1 DEF ConvTypeOK
  <2>3. ScanFits'
    BY <1>0, <1>1, <2>1, ConvAssumption DEF ConvTypeOK, ScanFits
  <2> QED BY <1>0, <1>1, <2>2, <2>3 DEF ConvTypeOK
<1>2. CASE Requests
  <2>1. ASSUME NEW w \in Saver, NEW s \in Sid, CreateConv(w, s) PROVE ConvTypeOK' /\ ScanFits'
    BY <1>1, <2>1 DEF CreateConv, Unused
  <2>2. ASSUME NEW w \in Saver, NEW s \in Sid, Restart(w, s) PROVE ConvTypeOK' /\ ScanFits'
    <3>1. table[s] \in Conv
      BY <2>2 DEF Restart, PlacesOK, TablesOK, StateTypeOK, Table
    <3> QED BY <1>1, <2>2, <3>1 DEF Restart
  <2>3. ASSUME NEW w \in Saver, NEW s \in Sid, KillConv(w, s) \/ Exit(w, s) PROVE ConvTypeOK' /\ ScanFits'
    BY <2>3, EndsStep DEF KillConv, Exit
  <2> QED BY <1>2, <2>1, <2>2, <2>3 DEF Requests
<1>3. ASSUME NEW s \in Sid, Moves(s) PROVE ConvTypeOK' /\ ScanFits'
  <2>1. PICK c \in Conv : proc' = [proc EXCEPT ![s].conv = c, ![s].turned = FALSE]
    BY <1>0, <1>3 DEF Moves, Unused, ConvTypeOK
  <2>2. proc[s] \in Proc /\ UNCHANGED <<transcripts, scan>>
    BY <1>0, <1>3 DEF Moves, ConvTypeOK
  <2>3. /\ proc' \in [Sid -> Proc \cup {None}]
        /\ \A t \in Sid : proc[t] # None => proc'[t] # None
    BY <1>0, <2>1, <2>2, ConvAssumption DEF ConvTypeOK, Proc
  <2> QED BY <1>0, <2>2, <2>3 DEF ConvTypeOK, ScanFits
<1>4. ASSUME NEW s \in Sid, Turn(s) PROVE ConvTypeOK' /\ ScanFits'
  <2>1. proc[s] \in Proc /\ UNCHANGED scan
    BY <1>0, <1>4 DEF Turn, ConvTypeOK
  <2>2. /\ proc' \in [Sid -> Proc \cup {None}]
        /\ \A t \in Sid : proc[t] # None => proc'[t] # None
    BY <1>0, <1>4, <2>1, ConvAssumption DEF Turn, ConvTypeOK, Proc
  <2>3. transcripts' \in SUBSET Conv
    BY <1>0, <1>4, <2>1 DEF Turn, ConvTypeOK, Proc
  <2> QED BY <1>0, <2>1, <2>2, <2>3 DEF ConvTypeOK, ScanFits
<1>5. ASSUME ScanLooks, UNCHANGED transcripts PROVE ConvTypeOK' /\ ScanFits'
  <2>1. CASE \E s \in Sid :
               /\ proc[s] # None /\ proc[s].moved
               /\ proc' = [proc EXCEPT ![s].moved = FALSE]
               /\ scan' = [at |-> "file", sid |-> s, conv |-> None]
    <3>1. PICK s \in Sid :
               /\ proc[s] # None
               /\ proc' = [proc EXCEPT ![s].moved = FALSE]
               /\ scan' = [at |-> "file", sid |-> s, conv |-> None]
      BY <2>1
    <3>2. proc[s] \in Proc
      BY <1>0, <3>1 DEF ConvTypeOK
    <3>3. proc' \in [Sid -> Proc \cup {None}] /\ proc'[s] # None
      BY <1>0, <3>1, <3>2, ConvAssumption DEF ConvTypeOK, Proc
    <3> QED BY <1>0, <1>5, <3>1, <3>3, StateFileAssumption DEF ConvTypeOK, ScanFits
  <2>2. CASE /\ scan.at = "file"
             /\ scan' = [scan EXCEPT !.at = "apply", !.conv = proc[scan.sid].conv]
             /\ UNCHANGED proc
    <3>1. proc[scan.sid] \in Proc
      BY <1>0, <2>2 DEF ConvTypeOK, ScanFits
    <3>2. scan' \in [at : {"idle", "file", "apply"}, sid : Sid \cup {None}, conv : Conv \cup {None}]
      BY <1>0, <2>2, <3>1 DEF ConvTypeOK, Proc
    <3> QED BY <1>0, <1>5, <2>2, <3>2 DEF ConvTypeOK, ScanFits
  <2> QED BY <1>5, <2>1, <2>2 DEF ScanLooks
<1>6. ASSUME NEW w \in Saver, ScanApply(w) PROVE ConvTypeOK' /\ ScanFits'
  BY <1>0, <1>6 DEF ScanApply, NotScanning, ConvTypeOK, ScanFits
<1>7. CASE UNCHANGED convVars
  BY <1>0, <1>7 DEF convVars, ConvTypeOK, ScanFits
<1>8. CASE CrashConv
  BY <1>0, <1>8 DEF CrashConv, NotScanning, ConvTypeOK, ScanFits
<1> QED
  BY <1>2, <1>3, <1>4, <1>5, <1>6, <1>7, <1>8 DEF ConvNext, Agents, Scanner, Saving

LEMMA PlacesAlways == ConvSpec => []PlacesOK
<1>1. PlacesOK /\ [ConvNext]_<<stateVars, convVars>> => PlacesOK'
  BY ConvSteps, PlacesStep, TablesStep DEF PlacesOK
<1> QED BY <1>1, PlacesInit, PTL DEF ConvSpec

\* Whatever sessions, agents and the scanner do is a life of the table and its file.
THEOREM ConvImplementsStateFile == ConvSpec => Spec
<1>1. ConvInit => Init
  BY DEF ConvInit
<1> QED BY <1>1, ConvSteps, PlacesAlways, PTL DEF ConvSpec, Spec

\* So the saves heal the file beside the scanner and the agents too.
THEOREM ConvKeepsStateFile == ConvSpec => []LoneSaveHeals
BY ConvImplementsStateFile, LoneSavesHeal

--------------------------------------------------------------------------------
(***************************************************************************)
(* Which conversation is remembered.  A scan that has read the process's   *)
(* file and not written the table has read the conversation the process    *)
(* still is in, unless there has been news since that another scan will    *)
(* see, or the process has yet to have a turn there.                       *)
(***************************************************************************)
Scanned(s) == proc[s] # None /\ proc[s].turned /\ ~proc[s].moved

ReadIsCurrent == scan.at = "apply" /\ Scanned(scan.sid) => scan.conv = proc[scan.sid].conv

TurnInv == PlacesOK /\ ReadIsCurrent /\ TurnIsRemembered

\* A process of one session that is new, gone, elsewhere or in the middle of a turn is not
\* one to be remembered yet, and the others are left alone.
LEMMA UnscannedStep ==
  ASSUME TurnInv, NEW s \in Sid, ~Scanned(s)',
         \A t \in Sid \ {s} : proc'[t] = proc[t] /\ table'[t] = table[t],
         \/ UNCHANGED scan
         \/ scan.sid = s /\ scan'.sid = s
  PROVE  ReadIsCurrent' /\ TurnIsRemembered'
<1>1. ReadIsCurrent'
  BY DEF TurnInv, PlacesOK, ScanFits, ConvTypeOK, ReadIsCurrent, Scanned
<1>2. TurnIsRemembered'
  BY DEF TurnInv, TurnIsRemembered, Scanned
<1> QED BY <1>1, <1>2

LEMMA TurnStep ==
  TurnInv /\ [ConvNext]_<<stateVars, convVars>> => ReadIsCurrent' /\ TurnIsRemembered'
<1> SUFFICES ASSUME TurnInv, [ConvNext]_<<stateVars, convVars>> PROVE ReadIsCurrent' /\ TurnIsRemembered'
  OBVIOUS
<1>0. /\ ConvTypeOK /\ ScanFits
      /\ table \in Table
  BY DEF TurnInv, PlacesOK, TablesOK, StateTypeOK
<1>1. ASSUME NEW w \in Saver, NEW s \in Sid, CreateConv(w, s) PROVE ReadIsCurrent' /\ TurnIsRemembered'
  <2>1. ~Scanned(s)'
    BY <1>0, <1>1 DEF CreateConv, Launched, Scanned, ConvTypeOK
  <2>2. \A t \in Sid \ {s} : proc'[t] = proc[t] /\ table'[t] = table[t]
    BY <1>0, <1>1 DEF CreateConv, Create, Change, ConvTypeOK, Table
  <2> QED BY <1>1, <2>1, <2>2, UnscannedStep DEF CreateConv
<1>2. ASSUME NEW w \in Saver, NEW s \in Sid, Restart(w, s) PROVE ReadIsCurrent' /\ TurnIsRemembered'
  <2>1. ~Scanned(s)'
    BY <1>0, <1>2 DEF Restart, Launched, Scanned, ConvTypeOK
  <2>2. \A t \in Sid \ {s} : proc'[t] = proc[t] /\ table'[t] = table[t]
    BY <1>0, <1>2 DEF Restart, Announce, Change, ConvTypeOK
  <2> QED BY <1>2, <2>1, <2>2, UnscannedStep DEF Restart
<1>3. ASSUME NEW w \in Saver, NEW s \in Sid, KillConv(w, s) \/ Exit(w, s)
      PROVE  ReadIsCurrent' /\ TurnIsRemembered'
  <2>1. Ends(s)
    BY <1>3 DEF KillConv, Exit
  <2>2. ~Scanned(s)'
    BY <1>0, <2>1 DEF Ends, Scanned, ConvTypeOK
  <2>3. \A t \in Sid \ {s} : proc'[t] = proc[t] /\ table'[t] = table[t]
    BY <1>0, <1>3, <2>1 DEF Ends, KillConv, Kill, Exit, Announce, Change, ConvTypeOK, Table
  <2>4. UNCHANGED scan \/ (scan.sid = s /\ scan'.sid = s)
    BY <1>0, <2>1 DEF Ends, ConvTypeOK
  <2> QED BY <2>2, <2>3, <2>4, UnscannedStep
<1>4. ASSUME NEW s \in Sid, Moves(s) \/ Turn(s) PROVE ReadIsCurrent' /\ TurnIsRemembered'
  <2>1. proc[s] \in Proc /\ UNCHANGED <<table, scan>>
    BY <1>0, <1>4 DEF Moves, Turn, ConvTypeOK, stateVars
  <2>2. ~Scanned(s)' /\ \A t \in Sid \ {s} : proc'[t] = proc[t]
    <3>1. \/ \E c \in Conv : proc' = [proc EXCEPT ![s].conv = c, ![s].turned = FALSE]
          \/ proc' = [proc EXCEPT ![s].turned = TRUE, ![s].moved = TRUE]
      BY <1>0, <1>4 DEF Moves, Turn, Unused, ConvTypeOK
    <3>2. \A t \in Sid \ {s} : proc'[t] = proc[t]
      BY <1>0, <3>1 DEF ConvTypeOK
    <3>3. ~proc'[s].turned \/ proc'[s].moved
      <4>1. DOMAIN proc[s] = {"conv", "turned", "moved"} /\ proc \in [Sid -> Proc \cup {None}]
        BY <1>0, <2>1 DEF ConvTypeOK, Proc
      <4>2. ASSUME NEW c \in Conv, proc' = [proc EXCEPT ![s].conv = c, ![s].turned = FALSE]
            PROVE  proc'[s].turned = FALSE
        BY <4>1, <4>2, Zenon
      <4>3. ASSUME proc' = [proc EXCEPT ![s].turned = TRUE, ![s].moved = TRUE]
            PROVE  proc'[s].moved = TRUE
        BY <4>1, <4>3, Zenon
      <4> QED BY <3>1, <4>2, <4>3
    <3> QED BY <3>2, <3>3 DEF Scanned
  <2> QED BY <2>1, <2>2, UnscannedStep
<1>5. ASSUME ScanLooks, UNCHANGED stateVars PROVE ReadIsCurrent' /\ TurnIsRemembered'
  <2>1. CASE \E s \in Sid :
               /\ scan.at = "idle" /\ proc[s] # None
               /\ proc' = [proc EXCEPT ![s].moved = FALSE]
               /\ scan' = [at |-> "file", sid |-> s, conv |-> None]
    <3>1. PICK s \in Sid :
               /\ scan.at = "idle" /\ proc[s] # None
               /\ proc' = [proc EXCEPT ![s].moved = FALSE]
               /\ scan' = [at |-> "file", sid |-> s, conv |-> None]
      BY <2>1
    <3>2. \A t \in Sid \ {s} : proc'[t] = proc[t] /\ scan.sid # t
      BY <1>0, <3>1, StateFileAssumption DEF ConvTypeOK, ScanFits
    <3> QED BY <1>5, <3>1, <3>2 DEF stateVars, TurnInv, ReadIsCurrent, TurnIsRemembered
  <2>2. CASE /\ scan.at = "file"
             /\ scan' = [scan EXCEPT !.at = "apply", !.conv = proc[scan.sid].conv]
             /\ UNCHANGED proc
    <3>1. scan'.sid = scan.sid /\ scan'.conv = proc[scan.sid].conv
      BY <1>0, <2>2 DEF ConvTypeOK
    <3> QED BY <1>5, <2>2, <3>1 DEF stateVars, TurnInv, ReadIsCurrent, TurnIsRemembered
  <2> QED BY <1>5, <2>1, <2>2 DEF ScanLooks
<1>6. ASSUME NEW w \in Saver, ScanApply(w) PROVE ReadIsCurrent' /\ TurnIsRemembered'
  <2>1. /\ scan.at = "apply" /\ scan' = NotScanning /\ UNCHANGED proc
        /\ scan.sid \in Sid
    BY <1>0, <1>6 DEF ScanApply, ScanFits
  <2>2. \A t \in Sid \ {scan.sid} : table'[t] = table[t]
    BY <1>0, <1>6, <2>1 DEF ScanApply, Switch, Change, stateVars, Table
  <2>3. Scanned(scan.sid) => table'[scan.sid] = proc[scan.sid].conv
    <3>1. SUFFICES ASSUME Scanned(scan.sid) PROVE table'[scan.sid] = proc[scan.sid].conv
      OBVIOUS
    <3>2. scan.conv = proc[scan.sid].conv /\ scan.conv \in Conv /\ proc[scan.sid] # None
      BY <1>0, <2>1, <3>1 DEF TurnInv, ReadIsCurrent, Scanned, ConvTypeOK, Proc
    <3>3. CASE Applies
      BY <1>0, <1>6, <2>1, <3>2, <3>3 DEF ScanApply, Switch, Change, Table
    <3>4. CASE ~Applies
      BY <1>6, <3>2, <3>4, StateFileAssumption DEF ScanApply, Applies, stateVars
    <3> QED BY <3>3, <3>4
  <2>4. TurnIsRemembered'
    BY <2>1, <2>2, <2>3 DEF TurnInv, TurnIsRemembered, Scanned
  <2> QED BY <2>1, <2>4 DEF ReadIsCurrent, NotScanning
<1>7. ASSUME NEW w \in Saver, Save(w), UNCHANGED convVars PROVE ReadIsCurrent' /\ TurnIsRemembered'
  <2>1. UNCHANGED table
    BY <1>7 DEF Save, Copy, Open, Write, Rename
  <2> QED BY <1>7, <2>1 DEF convVars, TurnInv, ReadIsCurrent, TurnIsRemembered, Scanned
<1>8. CASE CrashConv
  BY <1>8 DEF CrashConv, NotScanning, ReadIsCurrent, TurnIsRemembered
<1>9. CASE UNCHANGED <<stateVars, convVars>>
  BY <1>9 DEF stateVars, convVars, TurnInv, ReadIsCurrent, TurnIsRemembered, Scanned
<1> QED
  BY <1>1, <1>2, <1>3, <1>4, <1>5, <1>6, <1>7, <1>8, <1>9
     DEF ConvNext, Requests, Agents, Scanner, Saving

\* A turn that has been scanned is remembered: what a restart resumes is the conversation
\* the session had its latest turns in, whatever saves, crashes and scans are under way.
THEOREM TurnsAreRemembered == ConvSpec => []TurnIsRemembered
<1>1. ConvInit => TurnInv
  BY PlacesInit DEF TurnInv, ConvInit, ReadIsCurrent, TurnIsRemembered, NotScanning
<1>2. TurnInv /\ [ConvNext]_<<stateVars, convVars>> => TurnInv'
  BY ConvSteps, PlacesStep, TablesStep, TurnStep DEF TurnInv, PlacesOK
<1>3. TurnInv => TurnIsRemembered
  BY DEF TurnInv
<1> QED BY <1>1, <1>2, <1>3, PTL DEF ConvSpec

--------------------------------------------------------------------------------
(***************************************************************************)
(* Modes of output that is cut in two and of output put together.          *)
(***************************************************************************)
IsLast(S, i) == i \in S /\ \A j \in S : j <= i

\* A set of places has a last one.
LEMMA LastPlace ==
  ASSUME NEW n \in Nat, NEW S \in SUBSET (1..n), S # {}
  PROVE  \E i : IsLast(S, i)
<1> DEFINE T == {m \in 0..n : n - m \in S}
<1>1. T \in SUBSET Nat /\ T # {}
  <2>1. PICK i \in S : TRUE
    OBVIOUS
  <2>2. i \in 1..n
    BY <2>1
  <2>3. n - i \in 0..n /\ n - (n - i) = i
    BY <2>2
  <2>4. n - (n - i) \in S
    BY <2>1, <2>3
  <2>5. n - i \in T
    BY <2>3, <2>4
  <2>6. \A m \in 0..n : m \in Nat
    OBVIOUS
  <2> QED
    BY <2>5, <2>6
<1>2. IsWellFoundedOn(OpToRel(<, Nat), Nat)
  BY NatLessThanWellFounded
<1>3. PICK m \in T : \A k \in T : ~(<<k, m>> \in OpToRel(<, Nat))
  <2> HIDE DEF T
  <2> QED
    BY <1>1, <1>2, WFMin
<1>4. \A k \in T : ~(k < m)
  BY <1>1, <1>3 DEF OpToRel
<1>5. n - m \in S /\ m \in 0..n
  BY <1>3
<1>6. ASSUME NEW j \in S PROVE j <= n - m
  <2>0. j \in 1..n
    OBVIOUS
  <2>1. n - j \in 0..n /\ n - (n - j) = j
    BY <2>0
  <2>2. ~(n - j < m)
    BY <1>4, <2>1
  <2> QED
    BY <1>5, <2>0, <2>2
<1> QED
  BY <1>5, <1>6 DEF IsLast

\* What ModeOf chooses.
LEMMA ModeOfIs ==
  ASSUME NEW f, NEW S \in SUBSET Nat
  PROVE  /\ S = {} => ModeOf(f, S) = "-"
         /\ \A i : IsLast(S, i) => LastOf(S) = i /\ ModeOf(f, S) = f[i]
<1>1. S = {} => ModeOf(f, S) = "-"
  BY DEF ModeOf
<1>2. ASSUME NEW i, IsLast(S, i) PROVE LastOf(S) = i /\ ModeOf(f, S) = f[i]
  <2>1. \A j : IsLast(S, j) => j = i
    BY <1>2 DEF IsLast
  <2>2. S # {} /\ i \in S /\ \A j \in S : j <= i
    BY <1>2 DEF IsLast
  <2>3. LastOf(S) \in S /\ \A j \in S : j <= LastOf(S)
    BY <2>2 DEF LastOf
  <2>4. LastOf(S) = i
    BY <2>1, <2>3 DEF IsLast
  <2> QED
    BY <2>2, <2>4 DEF ModeOf
<1> QED
  BY <1>1, <1>2

\* The places of f where a sequence ends.
LEMMA WholeIs ==
  ASSUME NEW f \in Seq(Says)
  PROVE  /\ Whole(f) \in SUBSET (1..Len(f)) /\ Whole(f) \in SUBSET Nat
         /\ Whole(f) # {} => \E i : IsLast(Whole(f), i)
         /\ \A i \in Whole(f) : f[i] \in {"h", "l"}
         /\ ModeAfter(f) \in Mode
<1>1. Len(f) \in Nat
  BY LenProperties
<1>2. Whole(f) \in SUBSET (1..Len(f)) /\ Whole(f) \in SUBSET Nat
  BY <1>1 DEF Whole
<1>3. Whole(f) # {} => \E i : IsLast(Whole(f), i)
  BY <1>1, <1>2, LastPlace
<1>4. \A i \in Whole(f) : f[i] \in {"h", "l"}
  BY DEF Whole
<1>5. ModeAfter(f) \in Mode
  BY <1>2, <1>3, <1>4, ModeOfIs DEF ModeAfter, Mode, IsLast
<1> QED
  BY <1>2, <1>3, <1>4, <1>5

\* In output without broken-off sequences the scan of mode_prelude finds all there are.
LEMMA SoundIsCollected ==
  ASSUME NEW f \in Seq(Says), Sound(f) PROVE Collected(f) = Whole(f)
<1>1. Len(f) \in Nat
  BY LenProperties
<1>2. ASSUME NEW i \in Whole(f) PROVE i \in Collected(f)
  <2>1. i \in 2..Len(f) /\ f[i - 1] = "e" /\ i - 2 \in 0..(i - 2) /\ (i - 2) + 1 = i - 1 /\ i - (i - 2) = 2
    BY <1>1 DEF Whole
  <2>2. i - 2 = 0 \/ f[i - 2] # "e"
    <3>1. CASE i - 2 # 0
      <4>1. i - 1 \in 2..Len(f) /\ (i - 1) - 1 = i - 2
        BY <1>1, <2>1, <3>1
      <4> QED
        BY <2>1, <4>1 DEF Sound
    <3> QED
      BY <3>1
  <2>3. \A t \in ((i - 2) + 1)..(i - 1) : f[t] = "e"
    BY <1>1, <2>1
  <2>4. 2 % 2 = 0
    OBVIOUS
  <2> QED
    BY <2>1, <2>2, <2>3, <2>4 DEF Collected
<1> QED
  BY <1>2 DEF Collected

\* What is before a file's last k pieces, and these.
LEMMA SplitIs ==
  ASSUME NEW f \in Seq(Says), NEW k \in Nat
  PROVE  /\ HeadBefore(f, k) \in Seq(Says) /\ TailOf(f, k) \in Seq(Says)
         /\ Len(f) <= k => HeadBefore(f, k) = <<>> /\ TailOf(f, k) = f
         /\ Len(f) > k => /\ Len(HeadBefore(f, k)) = Len(f) - k
                          /\ \A i \in 1..(Len(f) - k) : HeadBefore(f, k)[i] = f[i]
                          /\ Len(TailOf(f, k)) = k
                          /\ \A i \in 1..k : TailOf(f, k)[i] = f[Len(f) - k + i]
<1> DEFINE n == Len(f)
           h == HeadBefore(f, k)
           t == TailOf(f, k)
<1>1. n \in Nat /\ DOMAIN f = 1..n /\ <<>> \in Seq(Says) /\ \A i \in 1..n : f[i] \in Says
  BY LenProperties, ElementOfSeq
<1>2. ASSUME n <= k PROVE h = <<>> /\ t = f
  BY <1>2 DEF HeadBefore, TailOf
<1>3. ASSUME n > k
      PROVE  /\ h \in Seq(Says) /\ t \in Seq(Says)
             /\ Len(h) = n - k /\ \A i \in 1..(n - k) : h[i] = f[i]
             /\ Len(t) = k /\ \A i \in 1..k : t[i] = f[n - k + i]
  <2>1. h = SubSeq(f, 1, n - k) /\ t = SubSeq(f, n - k + 1, n)
    BY <1>1, <1>3 DEF HeadBefore, TailOf
  <2> HIDE DEF h, t, n
  <2>2. /\ h \in Seq(Says) /\ Len(h) = n - k /\ \A i \in 1..(n - k) : h[i] = f[i]
    <3>1. n - k \in Int /\ 1 \in Int /\ 1 <= n - k /\ (n - k) - 1 + 1 = n - k /\ \A i \in 1..(n - k) : 1 + i - 1 = i
      BY <1>1, <1>3
    <3>2. \A i \in 1..(n - k) : f[i] \in Says
      BY <1>1
    <3>3. /\ h \in Seq(Says) /\ Len(h) = (n - k) - 1 + 1
          /\ \A i \in 1..((n - k) - 1 + 1) : h[i] = f[1 + i - 1]
      BY <2>1, <3>1, <3>2, SubSeqProperties
    <3> QED
      BY <3>1, <3>3
  <2>3. /\ t \in Seq(Says) /\ Len(t) = k /\ \A i \in 1..k : t[i] = f[n - k + i]
    <3>1. /\ n - k + 1 \in Int /\ n \in Int /\ n - (n - k + 1) + 1 = k
          /\ (IF n - k + 1 <= n THEN n - (n - k + 1) + 1 ELSE 0) = k
          /\ \A i \in 1..k : n - k + 1 + i - 1 = n - k + i
      BY <1>1, <1>3
    <3>2. \A i \in (n - k + 1)..n : f[i] \in Says
      BY <1>1, <1>3
    <3>3. /\ t \in Seq(Says) /\ Len(t) = IF n - k + 1 <= n THEN n - (n - k + 1) + 1 ELSE 0
          /\ \A i \in 1..(n - (n - k + 1) + 1) : t[i] = f[n - k + 1 + i - 1]
      BY <2>1, <3>1, <3>2, SubSeqProperties
    <3> QED
      BY <3>1, <3>3
  <2> QED
    BY <2>2, <2>3
<1> QED
  <2>1. n <= k \/ n > k
    BY <1>1
  <2>2. n <= k => ~(n > k)
    BY <1>1
  <2> HIDE DEF n, h, t
  <2>3. n <= k => h \in Seq(Says) /\ t \in Seq(Says) /\ h = <<>> /\ t = f
    BY <1>1, <1>2
  <2>4. n > k => /\ h \in Seq(Says) /\ t \in Seq(Says)
                 /\ Len(h) = n - k /\ \A i \in 1..(n - k) : h[i] = f[i]
                 /\ Len(t) = k /\ \A i \in 1..k : t[i] = f[n - k + i]
    BY <1>3
  <2>5. /\ h \in Seq(Says) /\ t \in Seq(Says)
        /\ n <= k => h = <<>> /\ t = f
        /\ n > k => /\ Len(h) = n - k /\ \A i \in 1..(n - k) : h[i] = f[i]
                    /\ Len(t) = k /\ \A i \in 1..k : t[i] = f[n - k + i]
    BY <2>1, <2>3, <2>4
  <2> QED
    BY <2>5 DEF n, h, t

\* Between them, what is before the cut and what is after it tell the mode, unless the cut falls
\* into the sequence that told it.
LEMMA SplitTells ==
  ASSUME NEW f \in Seq(Says), NEW k \in Nat
  PROVE  /\ ModeBefore(f, k) \in Mode
         /\ Sound(f) /\ ~CutThrough(f, k) =>
              ModeAfter(f) = IF Whole(TailOf(f, k)) = {} THEN ModeBefore(f, k) ELSE ModeAfter(TailOf(f, k))
<1> DEFINE n == Len(f)
           h == HeadBefore(f, k)
           t == TailOf(f, k)
<1>1. /\ n \in Nat /\ h \in Seq(Says) /\ t \in Seq(Says) /\ Len(h) \in Nat
      /\ ModeBefore(f, k) = ModeOf(h, Collected(h))
  BY SplitIs, LenProperties DEF ModeBefore
<1>2. ModeBefore(f, k) \in Mode
  <2>1. Collected(h) \subseteq Whole(h) /\ Collected(h) \in SUBSET (1..Len(h)) /\ Collected(h) \in SUBSET Nat
    BY <1>1, WholeIs DEF Collected
  <2>2. CASE Collected(h) # {}
    <3>1. PICK i : IsLast(Collected(h), i)
      BY <1>1, <2>1, <2>2, LastPlace
    <3> QED
      BY <1>1, <2>1, <3>1, ModeOfIs, WholeIs DEF IsLast, Mode
  <2> QED
    BY <1>1, <2>1, <2>2, ModeOfIs DEF Mode
<1>3. CASE n <= k
  <2>1. h = <<>> /\ t = f
    BY <1>3, SplitIs
  <2>2. Collected(h) = {}
    BY <2>1 DEF Collected, Whole
  <2>3. ModeBefore(f, k) = "-" /\ (Whole(f) = {} => ModeAfter(f) = "-")
    BY <1>1, <2>2 DEF ModeOf, ModeAfter
  <2> QED
    BY <1>2, <2>1, <2>3
<1>4. CASE n > k
  <2> SUFFICES ASSUME Sound(f), ~CutThrough(f, k)
               PROVE  ModeAfter(f) = IF Whole(t) = {} THEN ModeBefore(f, k) ELSE ModeAfter(t)
    BY <1>2
  <2>1. /\ Len(h) = n - k /\ \A i \in 1..(n - k) : h[i] = f[i]
        /\ Len(t) = k /\ \A i \in 1..k : t[i] = f[n - k + i]
    BY <1>4, SplitIs
  <2>2. ~CutThrough(f, k) => ~(Whole(f) # {} /\ LastOf(Whole(f)) = n - k + 1)
    BY DEF CutThrough
  <2> HIDE DEF n, h, t
  <2>3. \A i \in Whole(t) : n - k + i \in Whole(f) /\ f[n - k + i] = t[i] /\ i \in 2..k
    <3> SUFFICES ASSUME NEW i \in Whole(t)
                 PROVE  n - k + i \in Whole(f) /\ f[n - k + i] = t[i] /\ i \in 2..k
      OBVIOUS
    <3>1. i \in 2..k /\ t[i - 1] = "e" /\ t[i] \in {"h", "l"}
      BY <2>1 DEF Whole
    <3>2. i - 1 \in 1..k /\ i \in 1..k /\ n - k + i \in 2..n /\ n - k + (i - 1) = (n - k + i) - 1
      BY <1>1, <1>4, <3>1
    <3>3. f[(n - k + i) - 1] = "e" /\ f[n - k + i] = t[i]
      BY <2>1, <3>1, <3>2
    <3> QED
      BY <3>1, <3>2, <3>3 DEF Whole, n
  <2>4. \A i \in Whole(f) : \/ i \in 2..(n - k)
                            \/ i = n - k + 1
                            \/ i - (n - k) \in Whole(t) /\ i = n - k + (i - (n - k))
    <3> SUFFICES ASSUME NEW i \in Whole(f)
                 PROVE  \/ i \in 2..(n - k)
                        \/ i = n - k + 1
                        \/ i - (n - k) \in Whole(t) /\ i = n - k + (i - (n - k))
      OBVIOUS
    <3>0. i \in 2..n /\ (i \in 2..(n - k) \/ i = n - k + 1 \/ i > n - k + 1)
      BY <1>1, <1>4 DEF Whole, n
    <3> SUFFICES ASSUME i > n - k + 1
                 PROVE  i - (n - k) \in Whole(t) /\ i = n - k + (i - (n - k))
      BY <3>0
    <3> DEFINE j == i - (n - k)
    <3>1. i \in 2..n /\ f[i - 1] = "e" /\ f[i] \in {"h", "l"}
      BY DEF Whole, n
    <3>2. j \in 2..k /\ j - 1 \in 1..k /\ j \in 1..k /\ n - k + (j - 1) = i - 1 /\ n - k + j = i
      BY <1>1, <1>4, <3>1
    <3>3. t[j - 1] = "e" /\ t[j] \in {"h", "l"}
      BY <2>1, <3>1, <3>2
    <3> QED
      BY <2>1, <3>2, <3>3 DEF Whole
  <2>5. CASE Whole(t) # {}
    <3>1. PICK i : IsLast(Whole(t), i)
      BY <1>1, <2>5, WholeIs
    <3>2. IsLast(Whole(f), n - k + i)
      <4>1. n - k + i \in Whole(f) /\ i \in 2..k
        BY <2>3, <3>1 DEF IsLast
      <4>2. ASSUME NEW j \in Whole(f) PROVE j <= n - k + i
        <5>1. CASE j \in 2..(n - k) \/ j = n - k + 1
          BY <1>1, <1>4, <4>1, <5>1
        <5>2. CASE j - (n - k) \in Whole(t) /\ j = n - k + (j - (n - k))
          <6>1. j - (n - k) <= i /\ j \in Nat
            BY <3>1, <5>2, WholeIs DEF IsLast
          <6> QED
            BY <1>1, <1>4, <4>1, <6>1
        <5> QED
          BY <2>4, <5>1, <5>2
      <4> QED
        BY <4>1, <4>2 DEF IsLast
    <3>3. ModeAfter(f) = f[n - k + i] /\ ModeAfter(t) = t[i]
      BY <1>1, <3>1, <3>2, WholeIs, ModeOfIs DEF ModeAfter
    <3> QED
      BY <2>3, <2>5, <3>1, <3>3 DEF IsLast
  <2>6. CASE Whole(t) = {}
    <3>1. Sound(h)
      <4>1. \A i \in 2..(n - k) : h[i] = f[i] /\ h[i - 1] = f[i - 1] /\ i \in 2..n
        BY <1>1, <1>4, <2>1
      <4> QED
        BY <2>1, <4>1 DEF Sound, n
    <3>2. n - k + 1 \notin Whole(f)
      <4> SUFFICES ASSUME n - k + 1 \in Whole(f) PROVE FALSE
        OBVIOUS
      <4>1. \A i \in Whole(f) : i <= n - k + 1
        BY <1>1, <1>4, <2>4, <2>6
      <4>2. IsLast(Whole(f), n - k + 1)
        BY <4>1 DEF IsLast
      <4>3. LastOf(Whole(f)) = n - k + 1 /\ Whole(f) # {}
        BY <4>2, WholeIs, ModeOfIs DEF IsLast
      <4> QED
        BY <2>2, <4>3
    <3>3. Whole(f) = Whole(h)
      <4>1. \A i \in 2..(n - k) : h[i] = f[i] /\ h[i - 1] = f[i - 1] /\ i \in 2..n
        BY <1>1, <1>4, <2>1
      <4>2. \A i \in 2..(n - k) : i \in Whole(f) <=> i \in Whole(h)
        BY <2>1, <4>1 DEF Whole, n
      <4>3. \A i \in Whole(h) : i \in 2..(n - k)
        BY <2>1 DEF Whole
      <4>4. \A i \in Whole(f) : i \in 2..(n - k)
        BY <2>4, <2>6, <3>2
      <4> QED
        BY <4>2, <4>3, <4>4
    <3>4. Collected(h) = Whole(h)
      BY <1>1, <3>1, SoundIsCollected
    <3>5. CASE Whole(h) # {}
      <4>1. PICK i : IsLast(Whole(h), i)
        BY <1>1, <3>5, WholeIs
      <4>2. h[i] = f[i]
        BY <1>1, <1>4, <2>1, <4>1 DEF IsLast, Whole
      <4>3. ModeAfter(f) = f[i] /\ ModeOf(h, Whole(h)) = h[i]
        BY <1>1, <3>3, <4>1, WholeIs, ModeOfIs DEF ModeAfter
      <4> QED
        BY <1>1, <2>6, <3>4, <4>2, <4>3
    <3>6. CASE Whole(h) = {}
      BY <1>1, <2>6, <3>3, <3>4, <3>6 DEF ModeAfter, ModeOf
    <3> QED
      BY <3>5, <3>6
  <2> QED
    BY <2>5, <2>6
<1> QED
  <2>1. n <= k \/ n > k
    BY <1>1
  <2> QED
    BY <1>2, <1>3, <1>4, <2>1
\* Where the sequences end in c when it comes behind output that an "e" ends, or does not.
EndsOpen(f) == Len(f) > 0 /\ f[Len(f)] = "e"
Completed(open, c) ==
  {j \in 1..Len(c) : c[j] \in {"h", "l"} /\ IF j = 1 THEN open ELSE c[j - 1] = "e"}

\* What was told before counts until a later sequence is complete.
LEMMA BothTell ==
  ASSUME NEW f \in Seq(Says), NEW c \in Seq(Says)
  PROVE  /\ f \o c \in Seq(Says) /\ Len(f \o c) = Len(f) + Len(c)
         /\ \A i \in 1..Len(f) : (f \o c)[i] = f[i]
         /\ \A j \in 1..Len(c) : (f \o c)[Len(f) + j] = c[j]
         /\ \A i \in Whole(f) : i \in Whole(f \o c) /\ i <= Len(f)
         /\ \A j \in Completed(EndsOpen(f), c) : Len(f) + j \in Whole(f \o c) /\ j >= 1
         /\ \A i \in Whole(f \o c) :
               \/ i \in Whole(f) /\ i <= Len(f)
               \/ i - Len(f) \in Completed(EndsOpen(f), c) /\ i > Len(f)
         /\ ModeAfter(f \o c) = IF Completed(EndsOpen(f), c) = {} THEN ModeAfter(f)
                                ELSE c[LastOf(Completed(EndsOpen(f), c))]
<1> DEFINE n == Len(f)
           k == Len(c)
           b == f \o c
           open == EndsOpen(f)
           new == Completed(open, c)
<1>1. n \in Nat /\ k \in Nat
  BY LenProperties
<1>2. b \in Seq(Says) /\ Len(b) = n + k
  BY ConcatProperties
<1>3. \A i \in 1..(n + k) : b[i] = IF i <= n THEN f[i] ELSE c[i - n]
  BY ConcatProperties
<1>4. open <=> n > 0 /\ f[n] = "e"
  BY DEF EndsOpen
<1>5. new = {j \in 1..k : c[j] \in {"h", "l"} /\ IF j = 1 THEN open ELSE c[j - 1] = "e"}
  BY DEF Completed
<1>6. Whole(b) = {i \in 2..(n + k) : b[i - 1] = "e" /\ b[i] \in {"h", "l"}}
  BY <1>2 DEF Whole
<1>7. Whole(f) = {i \in 2..n : f[i - 1] = "e" /\ f[i] \in {"h", "l"}}
  BY DEF Whole
<1>8. b \in Seq(Says) => /\ Whole(b) \in SUBSET (1..Len(b)) /\ Whole(b) \in SUBSET Nat
                         /\ Whole(b) # {} => \E i : IsLast(Whole(b), i)
  BY WholeIs
<1>9. Whole(f) \in SUBSET Nat /\ (Whole(f) # {} => \E i : IsLast(Whole(f), i))
  BY WholeIs
<1>10. new \in SUBSET (1..k) /\ new \in SUBSET Nat
  BY <1>1, <1>5
<1>11. new # {} => \E j : IsLast(new, j)
  BY <1>1, <1>10, LastPlace
<1>12. /\ ModeAfter(b) = ModeOf(b, Whole(b)) /\ ModeAfter(f) = ModeOf(f, Whole(f))
  BY DEF ModeAfter
<1> HIDE DEF n, k, b, open, new
<1>13. \A i \in 1..n : b[i] = f[i]
  BY <1>1, <1>3
<1>14. \A j \in 1..k : b[n + j] = c[j]
  <2> SUFFICES ASSUME NEW j \in 1..k PROVE b[n + j] = c[j]
    OBVIOUS
  <2>1. n + j \in 1..(n + k) /\ ~(n + j <= n) /\ (n + j) - n = j
    BY <1>1
  <2> QED
    BY <1>3, <2>1
<1>15. ASSUME NEW i \in Whole(f) PROVE i \in Whole(b) /\ i <= n
  <2>1. i \in 2..n /\ f[i - 1] = "e" /\ f[i] \in {"h", "l"}
    BY <1>7
  <2>2. i \in 2..(n + k) /\ i \in 1..n /\ i - 1 \in 1..n /\ i <= n
    BY <1>1, <2>1
  <2> QED
    BY <1>6, <1>13, <2>1, <2>2
<1>16. ASSUME NEW j \in new PROVE n + j \in Whole(b) /\ j >= 1
  <2>1. j \in 1..k /\ c[j] \in {"h", "l"} /\ (IF j = 1 THEN open ELSE c[j - 1] = "e")
    BY <1>5
  <2>2. b[n + j] \in {"h", "l"} /\ j >= 1
    BY <1>14, <2>1
  <2>3. CASE j = 1
    <3>1. n > 0 /\ f[n] = "e"
      BY <1>4, <2>1, <2>3
    <3>2. n \in 1..n /\ n + j \in 2..(n + k) /\ (n + j) - 1 = n
      BY <1>1, <2>1, <2>3, <3>1
    <3>3. b[(n + j) - 1] = "e"
      BY <1>13, <3>1, <3>2
    <3> QED
      BY <1>6, <2>2, <3>2, <3>3
  <2>4. CASE j # 1
    <3>1. c[j - 1] = "e"
      BY <2>1, <2>4
    <3>2. j - 1 \in 1..k /\ n + j \in 2..(n + k) /\ (n + j) - 1 = n + (j - 1)
      BY <1>1, <2>1, <2>4
    <3>3. b[(n + j) - 1] = "e"
      BY <1>14, <3>1, <3>2
    <3> QED
      BY <1>6, <2>2, <3>2, <3>3
  <2> QED
    BY <2>3, <2>4
<1>17. ASSUME NEW i \in Whole(b)
       PROVE  \/ i \in Whole(f) /\ i <= n
              \/ i - n \in new /\ i > n
  <2>1. i \in 2..(n + k) /\ b[i - 1] = "e" /\ b[i] \in {"h", "l"}
    BY <1>6
  <2>2. CASE i <= n
    <3>1. i \in 2..n /\ i \in 1..n /\ i - 1 \in 1..n
      BY <1>1, <2>1, <2>2
    <3>2. f[i - 1] = "e" /\ f[i] \in {"h", "l"}
      BY <1>13, <2>1, <3>1
    <3> QED
      BY <1>7, <2>2, <3>1, <3>2
  <2>3. CASE i = n + 1
    <3>1. n \in 1..n /\ n > 0 /\ 1 \in 1..k /\ i - n = 1 /\ i - 1 = n /\ i > n
      BY <1>1, <2>1, <2>3
    <3>2. f[n] = "e" /\ c[1] \in {"h", "l"}
      BY <1>13, <1>14, <2>1, <2>3, <3>1
    <3>3. open
      BY <1>4, <3>1, <3>2
    <3>4. 1 \in new
      BY <1>5, <3>1, <3>2, <3>3
    <3> QED
      BY <3>1, <3>4
  <2>4. CASE i > n + 1
    <3> DEFINE j == i - n
    <3>1. j \in 1..k /\ j - 1 \in 1..k /\ j # 1 /\ n + j = i /\ n + (j - 1) = i - 1 /\ i > n
      BY <1>1, <2>1, <2>4
    <3>2. c[j - 1] = "e" /\ c[j] \in {"h", "l"}
      BY <1>14, <2>1, <3>1
    <3>3. j \in new
      <4> HIDE DEF j
      <4> QED
        BY <1>5, <3>1, <3>2
    <3> QED
      BY <3>1, <3>3
  <2> QED
    <3>1. i <= n \/ i = n + 1 \/ i > n + 1
      BY <1>1, <2>1
    <3> QED
      BY <2>2, <2>3, <2>4, <3>1
<1>18. ModeAfter(b) = IF new = {} THEN ModeAfter(f) ELSE c[LastOf(new)]
  <2>1. CASE new # {}
    <3>1. PICK j : IsLast(new, j)
      BY <1>11, <2>1
    <3>2. j \in new /\ j \in 1..k /\ \A l \in new : l <= j
      BY <1>10, <3>1 DEF IsLast
    <3>3. IsLast(Whole(b), n + j)
      <4>1. n + j \in Whole(b)
        BY <1>16, <3>2
      <4>2. ASSUME NEW i \in Whole(b) PROVE i <= n + j
        <5>1. i \in Int
          BY <1>6
        <5>2. i <= n \/ i - n <= j
          BY <1>17, <3>2
        <5> QED
          BY <1>1, <3>2, <5>1, <5>2
      <4> QED
        BY <4>1, <4>2 DEF IsLast
    <3>4. LastOf(new) = j /\ ModeOf(b, Whole(b)) = b[n + j]
      BY <1>2, <1>8, <1>10, <3>1, <3>3, ModeOfIs
    <3> QED
      BY <1>12, <1>14, <2>1, <3>2, <3>4
  <2>2. CASE new = {}
    <3>1. Whole(b) = Whole(f)
      BY <1>15, <1>17, <2>2
    <3>2. CASE Whole(f) = {}
      BY <1>12, <2>2, <3>1, <3>2 DEF ModeOf
    <3>3. CASE Whole(f) # {}
      <4>1. PICK i : IsLast(Whole(f), i)
        BY <1>9, <3>3
      <4>2. i \in 1..n
        BY <1>1, <1>7, <4>1 DEF IsLast
      <4>3. ModeOf(f, Whole(f)) = f[i] /\ ModeOf(b, Whole(f)) = b[i]
        BY <1>9, <4>1, ModeOfIs
      <4> QED
        BY <1>12, <1>13, <2>2, <3>1, <4>2, <4>3
    <3> QED
      BY <3>2, <3>3
  <2> QED
    BY <2>1, <2>2
<1> QED
  BY <1>2, <1>13, <1>14, <1>15, <1>16, <1>17, <1>18 DEF n, k, b, open, new

\* What comes behind output decides with what it ends; the two together are sound if each is
\* and they do not meet between two ESCs.
LEMMA BothEnd ==
  ASSUME NEW f \in Seq(Says), NEW c \in Seq(Says)
  PROVE  /\ EndsOpen(f \o c) <=> IF Len(c) > 0 THEN EndsOpen(c) ELSE EndsOpen(f)
         /\ Sound(f \o c) <=> Sound(f) /\ Sound(c) /\ ~(EndsOpen(f) /\ Len(c) > 0 /\ c[1] = "e")
<1> DEFINE n == Len(f)
           k == Len(c)
           b == f \o c
<1>1. n \in Nat /\ k \in Nat
  BY LenProperties
<1>2. Len(b) = n + k /\ (\A i \in 1..n : b[i] = f[i]) /\ (\A j \in 1..k : b[n + j] = c[j])
  BY BothTell
<1>3. /\ EndsOpen(b) <=> n + k > 0 /\ b[n + k] = "e"
      /\ EndsOpen(f) <=> n > 0 /\ f[n] = "e"
      /\ EndsOpen(c) <=> k > 0 /\ c[k] = "e"
  BY <1>2 DEF EndsOpen
<1>4. /\ Sound(b) <=> \A i \in 2..(n + k) : b[i - 1] = "e" => b[i] # "e"
      /\ Sound(f) <=> \A i \in 2..n : f[i - 1] = "e" => f[i] # "e"
      /\ Sound(c) <=> \A j \in 2..k : c[j - 1] = "e" => c[j] # "e"
  BY <1>2 DEF Sound
<1> HIDE DEF n, k, b
<1>5. CASE k > 0
  <2>1. k \in 1..k /\ n + k > 0 /\ 1 \in 1..k
    BY <1>1, <1>5
  <2>2. EndsOpen(b) <=> EndsOpen(c)
    BY <1>2, <1>3, <1>5, <2>1
  <2>3. ASSUME Sound(b) PROVE Sound(f) /\ Sound(c) /\ ~(EndsOpen(f) /\ c[1] = "e")
    <3>1. ASSUME NEW i \in 2..n, f[i - 1] = "e" PROVE f[i] # "e"
      <4>1. i \in 2..(n + k) /\ i \in 1..n /\ i - 1 \in 1..n
        BY <1>1
      <4> QED
        BY <1>2, <1>4, <2>3, <3>1, <4>1
    <3>2. ASSUME NEW j \in 2..k, c[j - 1] = "e" PROVE c[j] # "e"
      <4>1. n + j \in 2..(n + k) /\ j \in 1..k /\ j - 1 \in 1..k /\ (n + j) - 1 = n + (j - 1)
        BY <1>1
      <4>2. b[(n + j) - 1] = "e" /\ b[n + j] = c[j]
        BY <1>2, <3>2, <4>1
      <4> QED
        BY <1>4, <2>3, <4>1, <4>2
    <3>3. ASSUME EndsOpen(f), c[1] = "e" PROVE FALSE
      <4>1. n > 0 /\ f[n] = "e"
        BY <1>3, <3>3
      <4>2. n + 1 \in 2..(n + k) /\ n \in 1..n /\ (n + 1) - 1 = n
        BY <1>1, <1>5, <4>1
      <4>3. b[(n + 1) - 1] = "e" /\ b[n + 1] = "e"
        BY <1>2, <2>1, <3>3, <4>1, <4>2
      <4> QED
        BY <1>4, <2>3, <4>2, <4>3
    <3> QED
      BY <1>4, <3>1, <3>2, <3>3
  <2>4. ASSUME Sound(f), Sound(c), ~(EndsOpen(f) /\ c[1] = "e"), NEW i \in 2..(n + k), b[i - 1] = "e"
        PROVE  b[i] # "e"
    <3>1. CASE i <= n
      <4>1. i \in 2..n /\ i \in 1..n /\ i - 1 \in 1..n
        BY <1>1, <3>1
      <4> QED
        BY <1>2, <1>4, <2>4, <4>1
    <3>2. CASE i = n + 1
      <4>1. n > 0 /\ n \in 1..n /\ i - 1 = n
        BY <1>1, <3>2
      <4>2. EndsOpen(f)
        BY <1>2, <1>3, <2>4, <4>1
      <4> QED
        BY <1>2, <2>1, <2>4, <3>2, <4>2
    <3>3. CASE i > n + 1
      <4> DEFINE j == i - n
      <4>1. j \in 2..k /\ j \in 1..k /\ j - 1 \in 1..k /\ n + j = i /\ n + (j - 1) = i - 1
        BY <1>1, <3>3
      <4> HIDE DEF j
      <4>2. c[j - 1] = "e" /\ b[i] = c[j]
        BY <1>2, <2>4, <4>1
      <4> QED
        BY <1>4, <2>4, <4>1, <4>2
    <3> QED
      <4>1. i <= n \/ i = n + 1 \/ i > n + 1
        BY <1>1
      <4> QED
        BY <3>1, <3>2, <3>3, <4>1
  <2> QED
    BY <1>4, <1>5, <2>2, <2>3, <2>4 DEF k, b
<1>6. CASE ~(k > 0)
  <2>1. k = 0 /\ n + k = n /\ ~(k > 0)
    BY <1>1, <1>6
  <2>2. \A i \in 2..n : i \in 1..n /\ i - 1 \in 1..n
    BY <1>1
  <2>3. Sound(b) <=> Sound(f)
    BY <1>2, <1>4, <2>1, <2>2
  <2>4. Sound(c)
    BY <1>4, <2>1
  <2>5. EndsOpen(b) <=> EndsOpen(f)
    <3>1. n > 0 => n \in 1..n
      BY <1>1
    <3> QED
      BY <1>2, <1>3, <2>1, <3>1
  <2> QED
    BY <2>1, <2>3, <2>4, <2>5 DEF k, b
<1> QED
  BY <1>5, <1>6

\* The sequence that sets a mode, and what comes behind it.
LEMMA RestoredTell ==
  ASSUME NEW m \in Mode, NEW t \in Seq(Says)
  PROVE  /\ Restores(m) \in Seq(Says) /\ Restores(m) \o t \in Seq(Says)
         /\ ModeAfter(Restores(m) \o t) \in Mode
         /\ ModeAfter(Restores(m) \o t) = IF Whole(t) = {} THEN m ELSE ModeAfter(t)
         /\ Sound(t) => Sound(Restores(m) \o t)
         /\ Len(t) > 0 => (EndsOpen(Restores(m) \o t) <=> EndsOpen(t))
<1> DEFINE r == Restores(m)
<1>1. r = IF m = "-" THEN <<>> ELSE <<"e", m>>
  BY DEF Restores
<1>2. r \in Seq(Says) /\ ~EndsOpen(r) /\ Sound(r) /\ ModeAfter(r) = m
  <2>1. CASE m = "-"
    <3>1. r = <<>> /\ r \in Seq(Says) /\ Len(r) = 0
      BY <1>1, <2>1
    <3>2. Whole(r) = {} /\ Sound(r) /\ ~EndsOpen(r)
      BY <3>1 DEF Whole, Sound, EndsOpen
    <3> QED
      BY <2>1, <3>1, <3>2 DEF ModeAfter, ModeOf
  <2>2. CASE m # "-"
    <3>1. m \in {"h", "l"} /\ r = <<"e", m>> /\ "e" \in Says /\ m \in Says /\ m # "e"
      BY <1>1, <2>2 DEF Mode, Says
    <3>2. r \in Seq(Says) /\ Len(r) = 2 /\ r[1] = "e" /\ r[2] = m
      BY <3>1
    <3>3. Whole(r) = {2} /\ Sound(r) /\ ~EndsOpen(r)
      BY <3>1, <3>2 DEF Whole, Sound, EndsOpen
    <3>4. IsLast(Whole(r), 2) /\ Whole(r) \in SUBSET Nat
      BY <3>3 DEF IsLast
    <3>5. ModeAfter(r) = r[2]
      BY <3>4, ModeOfIs DEF ModeAfter
    <3> QED
      BY <3>2, <3>3, <3>5
  <2> QED
    BY <2>1, <2>2
<1> HIDE DEF r
<1>3. Completed(EndsOpen(r), t) = Whole(t)
  <2>1. ASSUME NEW j \in Completed(EndsOpen(r), t) PROVE j \in Whole(t)
    <3>1. j \in 1..Len(t) /\ t[j] \in {"h", "l"} /\ j # 1 /\ t[j - 1] = "e"
      BY <1>2 DEF Completed
    <3>2. j \in 2..Len(t)
      BY <3>1, LenProperties
    <3> QED
      BY <3>1, <3>2 DEF Whole
  <2>2. ASSUME NEW j \in Whole(t) PROVE j \in Completed(EndsOpen(r), t)
    <3>1. j \in 2..Len(t) /\ t[j] \in {"h", "l"} /\ t[j - 1] = "e"
      BY DEF Whole
    <3>2. j \in 1..Len(t) /\ j # 1
      BY <3>1, LenProperties
    <3> QED
      BY <3>1, <3>2 DEF Completed
  <2> QED
    BY <2>1, <2>2
<1>4. ModeAfter(r \o t) = IF Whole(t) = {} THEN m ELSE t[LastOf(Whole(t))]
  BY <1>2, <1>3, BothTell
<1>5. Whole(t) # {} => ModeAfter(t) = t[LastOf(Whole(t))]
  BY DEF ModeAfter, ModeOf
<1>6. r \o t \in Seq(Says)
  BY <1>2, BothTell
<1>7. ModeAfter(r \o t) \in Mode
  BY <1>6, WholeIs
<1>8. Sound(t) => Sound(r \o t)
  BY <1>2, BothEnd
<1>9. Len(t) > 0 => (EndsOpen(r \o t) <=> EndsOpen(t))
  BY <1>2, BothEnd
<1> QED
  BY <1>2, <1>4, <1>5, <1>6, <1>7, <1>8, <1>9 DEF r

\* The end of a file is sound if the file is, and ends as it does.
LEMMA TailEnds ==
  ASSUME NEW f \in Seq(Says), NEW k \in Nat \ {0}
  PROVE  /\ Sound(f) => Sound(TailOf(f, k))
         /\ EndsOpen(TailOf(f, k)) <=> EndsOpen(f)
<1> DEFINE n == Len(f)
           t == TailOf(f, k)
<1>1. n \in Nat /\ (n <= k \/ n > k)
  BY LenProperties
<1>2. n <= k => t = f
  BY SplitIs
<1>3. n > k => Len(t) = k /\ \A i \in 1..k : t[i] = f[n - k + i]
  BY SplitIs
<1>4. /\ EndsOpen(f) <=> n > 0 /\ f[n] = "e"
      /\ EndsOpen(t) <=> Len(t) > 0 /\ t[Len(t)] = "e"
      /\ Sound(t) <=> \A i \in 2..Len(t) : t[i - 1] = "e" => t[i] # "e"
      /\ Sound(f) <=> \A i \in 2..n : f[i - 1] = "e" => f[i] # "e"
  BY DEF EndsOpen, Sound
<1> HIDE DEF n, t
<1>5. ASSUME n > k, Sound(f) PROVE Sound(t)
  <2>1. ASSUME NEW i \in 2..k, t[i - 1] = "e" PROVE t[i] # "e"
    <3> DEFINE j == n - k + i
    <3>1. j \in 2..n /\ i \in 1..k /\ i - 1 \in 1..k /\ n - k + (i - 1) = j - 1
      BY <1>1, <1>5
    <3>2. t[i] = f[j] /\ t[i - 1] = f[j - 1]
      BY <1>3, <1>5, <3>1
    <3> HIDE DEF j
    <3> QED
      BY <1>4, <1>5, <2>1, <3>1, <3>2
  <2> QED
    BY <1>3, <1>4, <1>5, <2>1
<1>6. ASSUME n > k PROVE EndsOpen(t) <=> EndsOpen(f)
  <2>1. k \in 1..k /\ n - k + k = n /\ n > 0 /\ k > 0
    BY <1>1, <1>6
  <2> QED
    BY <1>3, <1>4, <1>6, <2>1
<1> QED
  BY <1>1, <1>2, <1>5, <1>6 DEF n, t

\* A trim leaves the window that is replayed alone, and what the file tells too unless it
\* cuts through that.
LEMMA KeptTells ==
  ASSUME NEW f \in Seq(Says), Len(f) > LogMax
  PROVE  /\ Kept(f) \in Seq(Says) /\ TailOf(Kept(f), Replay) = TailOf(f, Replay)
         /\ EndsOpen(Kept(f)) <=> EndsOpen(f)
         /\ Sound(f) => Sound(Kept(f))
         /\ Sound(f) /\ ~CutThrough(f, LogKeep) => ModeAfter(Kept(f)) = ModeAfter(f)
<1> DEFINE m == ModeBefore(f, LogKeep)
           p == Restores(m)
           t == TailOf(f, LogKeep)
           g == Kept(f)
           n == Len(f)
<1>1. /\ LogKeep \in Nat \ {0} /\ Replay \in Nat \ {0} /\ Replay <= LogKeep /\ n \in Nat /\ n > LogKeep /\ n > Replay
  BY LogAssumption, LenProperties
<1>2. m \in Mode /\ g = p \o t
  BY <1>1, SplitTells DEF Kept, Prelude
<1>3. t \in Seq(Says) /\ Len(t) = LogKeep /\ \A i \in 1..LogKeep : t[i] = f[n - LogKeep + i]
  BY <1>1, SplitIs
<1>4. Sound(f) /\ ~CutThrough(f, LogKeep) => ModeAfter(f) = IF Whole(t) = {} THEN m ELSE ModeAfter(t)
  BY <1>1, SplitTells
<1>5. (Sound(f) => Sound(t)) /\ (EndsOpen(t) <=> EndsOpen(f))
  BY <1>1, TailEnds
<1> HIDE DEF m, t, g
<1>6. /\ p \in Seq(Says) /\ g \in Seq(Says) /\ ModeAfter(g) = IF Whole(t) = {} THEN m ELSE ModeAfter(t)
      /\ (Sound(t) => Sound(g)) /\ (EndsOpen(g) <=> EndsOpen(t))
  <2>1. Len(t) > 0
    BY <1>1, <1>3
  <2>2. p \in Seq(Says) /\ p \o t \in Seq(Says) /\ ModeAfter(p \o t) = IF Whole(t) = {} THEN m ELSE ModeAfter(t)
    BY <1>2, <1>3, RestoredTell
  <2>3. Sound(t) => Sound(p \o t)
    BY <1>2, <1>3, RestoredTell
  <2>4. EndsOpen(p \o t) <=> EndsOpen(t)
    BY <1>2, <1>3, <2>1, RestoredTell
  <2> QED
    BY <1>2, <2>2, <2>3, <2>4
<1> HIDE DEF p, n
<1>7. Len(p) \in Nat /\ Len(g) = Len(p) + LogKeep /\ \A i \in 1..LogKeep : g[Len(p) + i] = t[i]
  BY <1>2, <1>3, <1>6, BothTell, LenProperties
<1>8. /\ Len(TailOf(g, Replay)) = Replay /\ TailOf(g, Replay) \in Seq(Says)
      /\ \A i \in 1..Replay : TailOf(g, Replay)[i] = t[LogKeep - Replay + i]
  <2>1. TailOf(g, Replay) \in Seq(Says)
    BY <1>1, <1>6, SplitIs
  <2>2. Len(g) <= Replay => TailOf(g, Replay) = g
    BY <1>1, <1>6, SplitIs
  <2>3. Len(g) > Replay => /\ Len(TailOf(g, Replay)) = Replay
                           /\ \A i \in 1..Replay : TailOf(g, Replay)[i] = g[Len(g) - Replay + i]
    BY <1>1, <1>6, SplitIs
  <2>4. CASE Len(g) <= Replay
    <3>1. Len(p) = 0 /\ LogKeep = Replay /\ Len(g) = Replay
      BY <1>1, <1>7, <2>4
    <3>2. \A i \in 1..Replay : Len(p) + i = i /\ LogKeep - Replay + i = i
      BY <1>1, <3>1
    <3> QED
      BY <1>7, <2>1, <2>2, <2>4, <3>1, <3>2
  <2>5. CASE Len(g) > Replay
    <3>1. \A i \in 1..Replay : /\ LogKeep - Replay + i \in 1..LogKeep
                               /\ Len(g) - Replay + i = Len(p) + (LogKeep - Replay + i)
      BY <1>1, <1>7
    <3> QED
      BY <1>7, <2>1, <2>3, <2>5, <3>1
  <2> QED
    <3>1. Len(g) <= Replay \/ Len(g) > Replay
      BY <1>1, <1>7
    <3> QED
      BY <2>4, <2>5, <3>1
<1>9. /\ TailOf(f, Replay) \in Seq(Says) /\ Len(TailOf(f, Replay)) = Replay
      /\ \A i \in 1..Replay : TailOf(f, Replay)[i] = f[n - Replay + i]
  BY <1>1, SplitIs DEF n
<1>10. ASSUME NEW i \in 1..Replay PROVE t[LogKeep - Replay + i] = f[n - Replay + i]
  <2>1. LogKeep - Replay + i \in 1..LogKeep /\ n - LogKeep + (LogKeep - Replay + i) = n - Replay + i
    BY <1>1
  <2> QED
    BY <1>3, <2>1
<1>11. TailOf(g, Replay) = TailOf(f, Replay)
  BY <1>1, <1>8, <1>9, <1>10, SeqEqual
<1>12. Sound(f) /\ ~CutThrough(f, LogKeep) => ModeAfter(g) = ModeAfter(f)
  BY <1>4, <1>6
<1> QED
  BY <1>5, <1>6, <1>11, <1>12 DEF g

LEMMA SamePrefix ==
  ASSUME NEW f, NEW g, NEW n \in Nat, \A i \in 1..n : f[i] = g[i]
  PROVE  SubSeq(f, 1, n) = SubSeq(g, 1, n)
<1>1. SubSeq(f, 1, n) = [i \in 1..(n - 1 + 1) |-> f[1 + i - 1]]
  OBVIOUS
<1>2. SubSeq(g, 1, n) = [i \in 1..(n - 1 + 1) |-> g[1 + i - 1]]
  OBVIOUS
<1>3. n - 1 + 1 = n /\ \A i \in 1..n : 1 + i - 1 = i
  OBVIOUS
<1> QED
  BY <1>1, <1>2, <1>3

--------------------------------------------------------------------------------
(***************************************************************************)
(* The log and the looks at it.                                            *)
(***************************************************************************)
\* The log ends as the output does, and is as sound.
EndFits == (EndsOpen(log) <=> EndsOpen(said)) /\ (Sound(said) => Sound(log))

\* What is about to take the log's place was made of the log as it is.
TrimFits == writer = "rename" => Len(log) > LogMax /\ trimmed = Kept(log)

\* The mode an Attach has read still goes with the window it has yet to read.
LookFits ==
  look.at = "tail" =>
    /\ look.seen <= Len(said)
    /\ look.seen = Len(said) /\ ~look.lost /\ Sound(said) =>
         ModeAfter(Restores(look.head) \o TailOf(log, Replay)) = ModeAfter(said)

ReplayFits == replay.upto <= Len(said)

LogInv == LogTypeOK /\ ReplayRestoresModes /\ EndFits /\ TrimFits /\ LookFits /\ ReplayFits

LEMMA LogStarts == LogInit => LogInv
<1> SUFFICES ASSUME LogInit PROVE LogInv
  OBVIOUS
<1>1. <<>> \in Seq(Says) /\ Len(<<>>) = 0 /\ DOMAIN <<>> = {}
  OBVIOUS
<1>2. LogTypeOK
  <2>1. "-" \in Mode /\ 0 \in 0..MaxSaid /\ 0 \in 0..LogKeep /\ 0 \in 0..MaxRuns /\ 0 <= MaxSaid
    BY LogAssumption DEF Mode
  <2>2. look \in Reading /\ replay \in Sent
    BY <2>1 DEF LogInit, NoLook, Reading, Sent
  <2> QED
    BY <1>1, <2>1, <2>2 DEF LogInit, LogTypeOK
<1>3. ReplayRestoresModes /\ EndFits /\ TrimFits /\ LookFits /\ ReplayFits
  BY <1>1 DEF LogInit, ReplayRestoresModes, EndFits, TrimFits, LookFits, ReplayFits, NoLook
<1> QED
  BY <1>2, <1>3 DEF LogInv

\* A chunk reaches the log and, in time, the guest's terminal.
LEMMA ChunkStep == LogInv /\ WriteChunk => LogInv'
<1> SUFFICES ASSUME LogInv, WriteChunk PROVE LogInv'
  OBVIOUS
<1>0. /\ said \in Seq(Says) /\ log \in Seq(Says) /\ Len(said) \in Nat /\ replay.upto \in Nat /\ since \in 0..LogKeep
      /\ look \in Reading /\ replay \in Sent /\ look.seen \in Nat /\ hurt \in BOOLEAN
  BY LenProperties, LogAssumption DEF LogInv, LogTypeOK, Sent, Reading
<1>1. PICK chunk \in Chunks :
        /\ Len(said) + Len(chunk) <= MaxSaid
        /\ said' = said \o chunk /\ log' = log \o chunk
        /\ IF Due(since + Len(chunk))
             THEN since' = 0 /\ writer' = "trim"
             ELSE since' = since + Len(chunk) /\ UNCHANGED writer
        /\ hurt' = (hurt /\ \A i \in Whole(said \o chunk) : i <= Len(said))
  BY DEF WriteChunk
<1>2. UNCHANGED <<trimmed, runs, look, replay>> /\ writer = "read" /\ writer' \in {"read", "trim"}
  BY DEF WriteChunk
<1>3. chunk \in Seq(Says) /\ Len(chunk) \in Nat /\ Len(chunk) > 0
  <2>1. PICK n \in 1..MaxRead : chunk \in [1..n -> Says]
    BY DEF Chunks
  <2>2. n \in Nat /\ n > 0
    BY <2>1, LogAssumption
  <2>3. chunk \in Seq(Says) /\ DOMAIN chunk = 1..n
    BY <2>1, <2>2
  <2> QED
    BY <2>2, <2>3, LenProperties
<1>4. /\ said' \in Seq(Says) /\ log' \in Seq(Says) /\ Len(said') = Len(said) + Len(chunk)
      /\ \A i \in 1..Len(said) : said'[i] = said[i]
  BY <1>0, <1>1, <1>3, BothTell
<1>5. since' \in 0..LogKeep /\ hurt' \in BOOLEAN
  BY <1>0, <1>1, <1>3, LogAssumption DEF Due
<1>6. LogTypeOK'
  <2>1. Len(said') <= MaxSaid
    BY <1>1, <1>4
  <2> QED
    BY <1>0, <1>2, <1>4, <1>5, <2>1, LogAssumption DEF LogInv, LogTypeOK
<1> DEFINE new == Completed(EndsOpen(said), chunk)
<1>7. EndsOpen(log) = EndsOpen(said)
  <2>1. EndsOpen(log) \in BOOLEAN /\ EndsOpen(said) \in BOOLEAN /\ (EndsOpen(log) <=> EndsOpen(said))
    BY DEF LogInv, EndFits, EndsOpen
  <2> QED
    BY <2>1
<1>8. /\ ModeAfter(said') = IF new = {} THEN ModeAfter(said) ELSE chunk[LastOf(new)]
      /\ ModeAfter(log') = IF new = {} THEN ModeAfter(log) ELSE chunk[LastOf(new)]
  <2>1. ModeAfter(said \o chunk) = IF new = {} THEN ModeAfter(said) ELSE chunk[LastOf(new)]
    BY <1>0, <1>3, BothTell
  <2>2. ModeAfter(log \o chunk) = IF Completed(EndsOpen(log), chunk) = {} THEN ModeAfter(log)
                                 ELSE chunk[LastOf(Completed(EndsOpen(log), chunk))]
    BY <1>0, <1>3, BothTell
  <2> HIDE DEF new
  <2>3. Completed(EndsOpen(log), chunk) = new
    BY <1>7 DEF new
  <2> QED
    BY <1>1, <2>1, <2>2, <2>3
<1>9. ~hurt' => ~hurt \/ new # {}
  <2> SUFFICES ASSUME ~hurt', hurt PROVE new # {}
    OBVIOUS
  <2>1. PICK i \in Whole(said \o chunk) : ~(i <= Len(said))
    BY <1>1
  <2>2. i - Len(said) \in new
    BY <1>0, <1>3, <2>1, BothTell
  <2> QED
    BY <2>2
<1> HIDE DEF new
<1>10. /\ EndsOpen(said') <=> EndsOpen(chunk)
       /\ EndsOpen(log') <=> EndsOpen(chunk)
  <2>1. EndsOpen(said \o chunk) <=> EndsOpen(chunk)
    BY <1>0, <1>3, BothEnd
  <2>2. EndsOpen(log \o chunk) <=> EndsOpen(chunk)
    BY <1>0, <1>3, BothEnd
  <2> QED
    BY <1>1, <2>1, <2>2
<1>11. Sound(said') => Sound(said) /\ Sound(log')
  <2>1. Sound(said \o chunk) <=> Sound(said) /\ Sound(chunk) /\ ~(EndsOpen(said) /\ Len(chunk) > 0 /\ chunk[1] = "e")
    BY <1>0, <1>3, BothEnd
  <2>2. Sound(log \o chunk) <=> Sound(log) /\ Sound(chunk) /\ ~(EndsOpen(log) /\ Len(chunk) > 0 /\ chunk[1] = "e")
    BY <1>0, <1>3, BothEnd
  <2>3. Sound(said) => Sound(log)
    BY DEF LogInv, EndFits
  <2>4. EndsOpen(log) <=> EndsOpen(said)
    BY <1>7
  <2> QED
    BY <1>1, <2>1, <2>2, <2>3, <2>4
<1>12. ReplayRestoresModes'
  <2> SUFFICES ASSUME Sound(said')
               PROVE  /\ ~hurt' => ModeAfter(log') = ModeAfter(said')
                      /\ replay'.calm /\ ~replay'.lost => replay'.mode = ModeAfter(SubSeq(said', 1, replay'.upto))
    BY DEF ReplayRestoresModes
  <2>1. ~hurt => ModeAfter(log) = ModeAfter(said)
    BY <1>11 DEF LogInv, ReplayRestoresModes
  <2>2. ~hurt' => ModeAfter(log') = ModeAfter(said')
    BY <1>8, <1>9, <2>1
  <2>3. SubSeq(said', 1, replay.upto) = SubSeq(said, 1, replay.upto)
    <3>1. \A i \in 1..replay.upto : i \in 1..Len(said)
      BY <1>0 DEF LogInv, ReplayFits
    <3> QED
      BY <1>0, <1>4, <3>1, SamePrefix
  <2>4. replay.calm /\ ~replay.lost => replay.mode = ModeAfter(SubSeq(said, 1, replay.upto))
    BY <1>11 DEF LogInv, ReplayRestoresModes
  <2> QED
    BY <1>2, <2>2, <2>3, <2>4
<1>13. EndFits' /\ TrimFits' /\ ReplayFits'
  BY <1>0, <1>2, <1>3, <1>4, <1>10, <1>11 DEF LogInv, EndFits, TrimFits, ReplayFits
<1>14. LookFits'
  <2>1. look.at = "tail" => look.seen <= Len(said)
    BY DEF LogInv, LookFits
  <2>2. look' = look /\ (look.at = "tail" => look.seen < Len(said'))
    BY <1>0, <1>2, <1>3, <1>4, <2>1
  <2>3. ~(look.seen < Len(said')) \/ (look.seen <= Len(said') /\ look.seen # Len(said'))
    BY <1>0, <1>3, <1>4
  <2> QED
    BY <2>2, <2>3 DEF LookFits
<1> QED
  BY <1>6, <1>12, <1>13, <1>14 DEF LogInv

\* Wherever the writer stops, the log is whole: a trim that was under way has left it alone.
LEMMA WriterStep == LogInv /\ (OpenLog \/ CloseLog \/ TrimWrite) => LogInv'
<1> SUFFICES ASSUME LogInv, OpenLog \/ CloseLog \/ TrimWrite PROVE LogInv'
  OBVIOUS
<1>1. UNCHANGED <<said, log, look, replay, hurt>> /\ since' \in {0, since}
  BY DEF OpenLog, CloseLog, TrimWrite
<1>2. \/ writer' # "rename" /\ trimmed' = trimmed
      \/ Len(log) > LogMax /\ trimmed' = Kept(log)
  <2>1. ASSUME TrimWrite, writer' = "rename" PROVE Len(log) > LogMax /\ trimmed' = Kept(log)
    <3>1. ~(Len(log) <= LogMax)
      BY <2>1 DEF TrimWrite
    <3>2. Len(log) \in Nat /\ LogMax \in Nat
      BY LenProperties, LogAssumption DEF LogInv, LogTypeOK
    <3> QED
      BY <2>1, <3>1, <3>2 DEF TrimWrite
  <2> QED
    BY <2>1 DEF OpenLog, CloseLog, TrimWrite
<1>3. trimmed' \in Seq(Says)
  BY <1>2, KeptTells DEF LogInv, LogTypeOK
<1>4. writer' \in {"closed", "read", "trim", "rename"} /\ runs' \in 0..MaxRuns /\ since' \in 0..LogKeep
  <2>1. writer' \in {"closed", "read", "rename"}
    BY DEF OpenLog, CloseLog, TrimWrite
  <2>2. runs' = runs \/ (runs < MaxRuns /\ runs' = runs + 1)
    BY DEF OpenLog, CloseLog, TrimWrite
  <2> QED
    BY <1>1, <2>1, <2>2, LogAssumption DEF LogInv, LogTypeOK
<1>5. LogTypeOK'
  BY <1>1, <1>3, <1>4 DEF LogInv, LogTypeOK
<1>6. ReplayRestoresModes' /\ EndFits' /\ TrimFits' /\ LookFits' /\ ReplayFits'
  BY <1>1, <1>2 DEF LogInv, ReplayRestoresModes, EndFits, TrimFits, LookFits, ReplayFits
<1> QED
  BY <1>5, <1>6 DEF LogInv

LEMMA RenameStep == LogInv /\ TrimRename => LogInv'
<1> SUFFICES ASSUME LogInv, TrimRename PROVE LogInv'
  OBVIOUS
<1>1. /\ log' = Kept(log) /\ Len(log) > LogMax /\ log \in Seq(Says) /\ trimmed' = <<>> /\ writer' = "read"
      /\ hurt' = (hurt \/ CutThrough(log, LogKeep)) /\ hurt \in BOOLEAN
      /\ UNCHANGED <<said, since, runs, look, replay>>
  BY DEF LogInv, LogTypeOK, TrimFits, TrimRename
<1>2. /\ log' \in Seq(Says) /\ TailOf(log', Replay) = TailOf(log, Replay)
      /\ Sound(log) /\ ~CutThrough(log, LogKeep) => ModeAfter(log') = ModeAfter(log)
  BY <1>1, KeptTells
<1>3. (EndsOpen(log') <=> EndsOpen(log)) /\ (Sound(log) => Sound(log'))
  BY <1>1, KeptTells
<1>4. <<>> \in Seq(Says) /\ hurt' \in BOOLEAN
  BY <1>1 DEF CutThrough
<1>5. LogTypeOK'
  BY <1>1, <1>2, <1>4 DEF LogInv, LogTypeOK
<1>6. EndFits' /\ TrimFits' /\ ReplayFits'
  BY <1>1, <1>3 DEF LogInv, EndFits, TrimFits, ReplayFits
<1>7. ReplayRestoresModes'
  BY <1>1, <1>2 DEF LogInv, EndFits, ReplayRestoresModes
<1>8. LookFits'
  BY <1>1, <1>2 DEF LogInv, LookFits
<1> QED
  BY <1>5, <1>6, <1>7, <1>8 DEF LogInv

LEMMA LookStep == LogInv /\ (LookAtHead \/ LookAtTail) => LogInv'
<1> SUFFICES ASSUME LogInv, LookAtHead \/ LookAtTail PROVE LogInv'
  OBVIOUS
<1>0. /\ said \in Seq(Says) /\ log \in Seq(Says) /\ Len(said) \in 0..MaxSaid /\ look \in Reading /\ Replay \in Nat
      /\ hurt \in BOOLEAN /\ CutThrough(log, Replay) \in BOOLEAN
      /\ Sound(said) => Sound(log) /\ (~hurt => ModeAfter(log) = ModeAfter(said))
  BY LenProperties, LogAssumption DEF LogInv, LogTypeOK, ReplayRestoresModes, EndFits, CutThrough
<1>1. UNCHANGED <<said, log, trimmed, since, writer, runs, hurt>>
  BY DEF LookAtHead, LookAtTail
<1>2. TrimFits' /\ EndFits'
  BY <1>1 DEF LogInv, TrimFits, EndFits
<1>3. TailOf(log, Replay) \in Seq(Says)
  BY <1>0, SplitIs
<1>4. CASE LookAtHead
  <2> DEFINE head == ModeBefore(log, Replay)
             lost == hurt \/ CutThrough(log, Replay)
  <2>1. look' = [at |-> "tail", head |-> head, seen |-> Len(said), lost |-> lost] /\ replay' = replay
    BY <1>4 DEF LookAtHead
  <2>2. head \in Mode /\ lost \in BOOLEAN
    BY <1>0, SplitTells
  <2>3. Sound(log) /\ ~lost =>
          ModeAfter(log) = IF Whole(TailOf(log, Replay)) = {} THEN head ELSE ModeAfter(TailOf(log, Replay))
    BY <1>0, SplitTells
  <2>4. ~lost => ~hurt
    OBVIOUS
  <2> HIDE DEF head, lost
  <2>5. ModeAfter(Restores(head) \o TailOf(log, Replay)) =
          IF Whole(TailOf(log, Replay)) = {} THEN head ELSE ModeAfter(TailOf(log, Replay))
    BY <1>3, <2>2, RestoredTell
  <2>6. look' \in Reading
    BY <1>0, <2>1, <2>2 DEF Reading
  <2>7. LogTypeOK' /\ ReplayRestoresModes' /\ ReplayFits'
    BY <1>1, <2>1, <2>6 DEF LogInv, LogTypeOK, ReplayRestoresModes, ReplayFits
  <2>8. LookFits'
    <3>1. look'.head = head /\ look'.seen = Len(said) /\ look'.lost = lost
      BY <2>1
    <3>2. Len(said) <= Len(said)
      BY <1>0
    <3>3. Sound(said) /\ ~lost => ModeAfter(Restores(head) \o TailOf(log, Replay)) = ModeAfter(said)
      BY <1>0, <2>3, <2>4, <2>5
    <3> QED
      BY <1>1, <3>1, <3>2, <3>3 DEF LookFits
  <2> QED
    BY <1>2, <2>7, <2>8 DEF LogInv
<1>5. CASE LookAtTail
  <2> DEFINE mode == ModeAfter(Restores(look.head) \o TailOf(log, Replay))
             calm == look.seen = Len(said)
  <2>1. /\ replay' = [mode |-> mode, upto |-> Len(said), calm |-> calm, lost |-> look.lost]
        /\ look' = NoLook /\ look.at = "tail" /\ calm \in BOOLEAN
    BY <1>5 DEF LookAtTail
  <2>2. mode \in Mode
    BY <1>0, <1>3, RestoredTell DEF Reading
  <2>3. calm /\ ~look.lost /\ Sound(said) => mode = ModeAfter(said)
    BY <2>1 DEF LogInv, LookFits
  <2>4. SubSeq(said, 1, Len(said)) = said
    BY <1>0, SubSeqFull
  <2> HIDE DEF mode, calm
  <2>5. replay' \in Sent /\ look' \in Reading
    <3>1. "-" \in Mode /\ 0 \in 0..MaxSaid /\ look.lost \in BOOLEAN
      BY <1>0, LogAssumption DEF Mode, Reading
    <3> QED
      BY <1>0, <2>1, <2>2, <3>1 DEF Sent, Reading, NoLook
  <2>6. LogTypeOK'
    BY <1>1, <2>5 DEF LogInv, LogTypeOK
  <2>7. ReplayRestoresModes' /\ ReplayFits'
    <3>1. replay'.upto = Len(said) /\ replay'.mode = mode /\ replay'.calm = calm /\ replay'.lost = look.lost
      BY <2>1
    <3>2. Len(said) <= Len(said)
      BY <1>0
    <3> QED
      BY <1>0, <1>1, <2>3, <2>4, <3>1, <3>2 DEF ReplayRestoresModes, ReplayFits
  <2>8. LookFits'
    BY <2>1 DEF LookFits, NoLook
  <2> QED
    BY <1>2, <2>6, <2>7, <2>8 DEF LogInv
<1> QED
  BY <1>4, <1>5

\* However the sequences were cut by reads, deaths, trims and replays, the log ends as the output
\* does and tells its mode while no trim has hurt it, and each look goes with the window that is
\* still to be read (SessionLog, mode_prelude and Attach in server.rs).
THEOREM LogInductive == LogSpec => []LogInv
<1>1. LogInv /\ UNCHANGED logVars => LogInv'
  BY DEF LogInv, LogTypeOK, ReplayRestoresModes, EndFits, TrimFits, LookFits, ReplayFits, logVars
<1>2. LogInv /\ [LogNext]_logVars => LogInv'
  BY <1>1, ChunkStep, WriterStep, RenameStep, LookStep DEF LogNext
<1> QED
  BY <1>2, LogStarts, PTL DEF LogSpec

\* For any output, any reads of it and any sizes of the log and the replay: a mode is lost to an
\* Attach only by a cut through the sequence that last told it, and only until a newer one is
\* complete (mode_prelude and trim in server.rs).
THEOREM ModesAreRestored == LogSpec => []ReplayRestoresModes
<1>1. LogInv => ReplayRestoresModes
  BY DEF LogInv
<1> QED
  BY <1>1, LogInductive, PTL

--------------------------------------------------------------------------------
(***************************************************************************)
(* What a client is sent.                                                  *)
(***************************************************************************)
\* The channel is one chunk behind the log while the reader is between the two, level with
\* it otherwise, and one ahead once Exited has been sent.
ReaderFits ==
  logged = IF reader = "send" THEN sent + 1 ELSE IF ExitedSent THEN sent - 1 ELSE sent

\* A forwarder is at most level with the channel, is made by the last step of its attach,
\* and is told to abort by the attach after it, so that only the current one can be live. That
\* one only ends after Exited, and does not pass it by.
ForwarderFits(c, k) ==
  fwd[c][k].at # "none" =>
    /\ fwd[c][k].from \in 1..fwd[c][k].next /\ fwd[c][k].next <= sent + 1
    /\ k <= conn[c].attach
    /\ k = conn[c].attach => conn[c].at = "idle" /\ fwd[c][k].at # "aborted"
    /\ k < conn[c].attach => fwd[c][k].at # "live"
    /\ k = conn[c].attach /\ fwd[c][k].at = "ended" => ExitedSent
    /\ Forwarding(c, k) /\ ExitedSent /\ fwd[c][k].from <= sent => fwd[c][k].next <= sent

\* A handler past its first step is serving some attach, and what it has seen of the log is
\* there. Once it has replied, what the client gets starts with that reply.
Replied(c) == conn[c].at \in {"idle", "subscribe"} /\ conn[c].attach # 0
HandlerFits(c) ==
  /\ conn[c].upto <= logged
  /\ conn[c].at # "idle" => conn[c].attach # 0
  /\ Replied(c) => /\ out[c] # <<>> /\ out[c][1].kind = "replay"
                   /\ out[c][1].attach = conn[c].attach /\ out[c][1].n <= logged

\* A forwarder is of the attach that is replayed, and then has nothing before the end of that
\* replay to take, or it is of an earlier one and has been told to stop.
Current(c) == conn[c].attach
ForwarderFollows(c, k) ==
  fwd[c][k].at # "none" =>
    /\ out[c] # <<>> /\ k <= out[c][1].attach
    /\ k = out[c][1].attach => out[c][1].n <= fwd[c][k].next
    /\ k < out[c][1].attach => fwd[c][k].at # "live"

\* A live frame comes from a forwarder, which goes on behind it; the frames of one forwarder
\* are in order, and behind the replay if it is the one of that.
LiveOf(c, j, k) == out[c][j].kind = "live" /\ out[c][j].attach = k
FrameFollows(c, j) ==
  \A k \in Attach : LiveOf(c, j, k) =>
    /\ fwd[c][k].at # "none" /\ out[c][j].n < fwd[c][k].next
    /\ k = out[c][1].attach => out[c][1].n <= out[c][j].n
    /\ \A h \in 2..(j - 1) : LiveOf(c, h, k) => out[c][h].n < out[c][j].n

\* Only the first frame is a replay.
QueueFits(c) ==
  /\ \A j \in DOMAIN out[c] : out[c][j].kind = "replay" <=> j = 1
  /\ \A k \in Attach : ForwarderFollows(c, k)
  /\ \A j \in DOMAIN out[c] : FrameFollows(c, j)

ExitToldTo(c) ==
  \A k \in Attach : k = Current(c) /\ fwd[c][k].at = "ended" /\ fwd[c][k].from <= sent =>
    \E i \in DOMAIN out[c] : out[c][i].kind = "exited" /\ out[c][i].attach = k

ClientFits(c) ==
  /\ \A k \in Attach : ForwarderFits(c, k)
  /\ HandlerFits(c) /\ QueueFits(c) /\ ExitToldTo(c)

AttachInv == AttachTypeOK /\ ReaderFits /\ \A c \in Client : ClientFits(c)

--------------------------------------------------------------------------------
\* One more frame at the end of a queue leaves the others where they were.
LEMMA OneMoreFrame ==
  ASSUME NEW S, NEW s \in Seq(S), NEW e \in S
  PROVE  LET t == s \o <<e>> IN
           /\ t \in Seq(S)
           /\ DOMAIN s = 1..Len(s) /\ DOMAIN t = 1..(Len(s) + 1) /\ Len(s) \in Nat
           /\ \A i \in 1..Len(s) : t[i] = s[i] /\ i \in 1..(Len(s) + 1)
           /\ t[Len(s) + 1] = e /\ Len(s) + 1 \in 1..(Len(s) + 1)
           /\ \A i \in 1..(Len(s) + 1) : i \in 1..Len(s) \/ i = Len(s) + 1
<1>1. <<e>> \in Seq(S) /\ Len(<<e>>) = 1 /\ <<e>>[1] = e
  OBVIOUS
<1>2. /\ Len(s) \in Nat /\ DOMAIN s = 1..Len(s)
      /\ s \o <<e>> \in Seq(S) /\ Len(s \o <<e>>) = Len(s) + 1
      /\ \A i \in 1..(Len(s) + 1) :
           (s \o <<e>>)[i] = IF i <= Len(s) THEN s[i] ELSE <<e>>[i - Len(s)]
  BY <1>1, ConcatProperties, LenProperties
<1>3. DOMAIN (s \o <<e>>) = 1..(Len(s) + 1)
  BY <1>2, LenProperties
<1> QED
  BY <1>1, <1>2, <1>3

LEMMA QueueHoldsFrames ==
  ASSUME AttachTypeOK, NEW c \in Client
  PROVE  \A j \in DOMAIN out[c] : out[c][j] \in Frame /\ out[c][j].attach \in Attach /\ out[c][j].n \in Nat
<1>1. out[c] \in Seq(Frame)
  BY DEF AttachTypeOK
<1>2. \A j \in DOMAIN out[c] : out[c][j] \in Frame
  BY <1>1, LenProperties
<1> QED
  BY <1>2 DEF Frame

\* What a step leaves alone of a client still fits, as long as the run is where it was.
LEMMA ClientLeftAlone ==
  ASSUME NEW c \in Client, ClientFits(c),
         conn'[c] = conn[c], fwd'[c] = fwd[c], out'[c] = out[c],
         UNCHANGED <<logged, reader, sent>>
  PROVE  ClientFits(c)'
BY DEF ClientFits, ForwarderFits, HandlerFits, QueueFits, ForwarderFollows, FrameFollows, ExitToldTo,
       Replied, Current, LiveOf, Forwarding, ExitedSent

\* At the start nobody is attached and nothing has been sent.
LEMMA AttachInitFits == AttachInit => AttachInv
<1> SUFFICES ASSUME AttachInit PROVE AttachInv
  OBVIOUS
<1>1. AttachTypeOK
  BY AttachAssumption DEF AttachInit, AttachTypeOK, Attach, Forwarder, NoForwarder
<1>2. ReaderFits
  BY DEF AttachInit, ReaderFits, ExitedSent
<1>3. ASSUME NEW c \in Client PROVE ClientFits(c)
  BY <1>1 DEF AttachInit, ClientFits, ForwarderFits, HandlerFits, QueueFits, ForwarderFollows,
       FrameFollows, ExitToldTo, Replied, Current, LiveOf, NoForwarder, Attach, AttachTypeOK
<1> QED
  BY <1>1, <1>2, <1>3 DEF AttachInv

--------------------------------------------------------------------------------
\* The reader's steps: they touch no client, and move the log and the channel by one.
LEMMA ReaderKeepsType ==
  ASSUME AttachInv, Reader
  PROVE  AttachTypeOK' /\ ReaderFits'
<1>1. /\ logged \in 0..MaxChunks /\ sent \in 0..(MaxChunks + 1) /\ MaxChunks \in Nat
      /\ run \in {"hand", "table", "dropped"} /\ reader \in {"read", "send", "wait", "exited", "done"} /\ ReaderFits
  BY AttachAssumption DEF AttachInv, AttachTypeOK
<1>2. ReaderFits'
  BY <1>1 DEF ReaderFits, Reader, LogChunk, Send, Eof, SendExited, MarkStopped, ExitedSent
<1>3. logged' \in 0..MaxChunks /\ sent' \in 0..(MaxChunks + 1)
  BY <1>1 DEF ReaderFits, Reader, LogChunk, Send, Eof, SendExited, MarkStopped, ExitedSent
<1>5. run' \in {"hand", "table", "dropped"} /\ reader' \in {"read", "send", "wait", "exited", "done"}
  BY <1>1 DEF Reader, LogChunk, Send, Eof, SendExited, MarkStopped
<1>4. conn' = conn /\ fwd' = fwd /\ out' = out
  BY DEF Reader, LogChunk, Send, Eof, SendExited, MarkStopped
<1> QED
  BY <1>2, <1>3, <1>4, <1>5 DEF AttachInv, AttachTypeOK

LEMMA ReaderKeepsForwarders ==
  ASSUME AttachInv, Reader, NEW c \in Client, NEW k \in Attach
  PROVE  ForwarderFits(c, k)'
<1>1. /\ ForwarderFits(c, k) /\ fwd[c][k] \in Forwarder
      /\ fwd' = fwd /\ conn' = conn /\ sent \in Nat
  BY DEF AttachInv, ClientFits, AttachTypeOK, Reader, LogChunk, Send, Eof, SendExited, MarkStopped
<1>2. \/ sent' = sent /\ ExitedSent' = ExitedSent
      \/ sent' = sent + 1 /\ ~ExitedSent /\ ~ExitedSent'
      \/ sent' = sent + 1 /\ ~ExitedSent /\ ExitedSent'
  BY DEF Reader, LogChunk, Send, Eof, SendExited, MarkStopped, ExitedSent
<1> QED
  BY <1>1, <1>2 DEF ForwarderFits, Forwarding, Forwarder, ExitedSent

LEMMA ReaderKeepsClients ==
  ASSUME AttachInv, Reader, NEW c \in Client
  PROVE  ClientFits(c)'
<1>a. /\ fwd' = fwd /\ conn' = conn /\ out' = out
      /\ logged' = logged \/ logged' = logged + 1
      /\ sent' = sent \/ (sent' = sent + 1 /\ ~ExitedSent)
  BY DEF Reader, LogChunk, Send, Eof, SendExited, MarkStopped, ExitedSent
<1>b. /\ ClientFits(c) /\ logged \in Nat /\ sent \in Nat /\ conn[c].upto \in Nat
      /\ fwd[c] \in [Attach -> Forwarder] /\ out[c] \in Seq(Frame)
  BY DEF AttachInv, AttachTypeOK
<1>1. /\ ClientFits(c) /\ fwd' = fwd /\ conn' = conn /\ out' = out
      /\ logged \in Nat /\ (logged' = logged \/ logged' = logged + 1)
      /\ conn[c].upto \in Nat
      /\ sent \in Nat /\ (sent' = sent \/ (sent' = sent + 1 /\ ~ExitedSent))
      /\ fwd[c] \in [Attach -> Forwarder] /\ out[c] \in Seq(Frame)
  BY <1>a, <1>b
<1>2. \A k \in Attach : ForwarderFits(c, k)'
  BY ReaderKeepsForwarders
<1>3. HandlerFits(c)'
  <2>1. Replied(c) => out[c][1].n \in Nat
    <3>1. SUFFICES ASSUME Replied(c) PROVE out[c][1].n \in Nat
      OBVIOUS
    <3>2. out[c] # <<>>
      BY <1>1, <3>1 DEF ClientFits, HandlerFits
    <3>3. out[c][1] \in Frame
      BY <1>1, <3>2
    <3> QED
      BY <3>3 DEF Frame
  <2> QED
    BY <1>1, <2>1 DEF ClientFits, HandlerFits, Replied
<1>4. QueueFits(c)'
  BY <1>1 DEF ClientFits, QueueFits, ForwarderFollows, FrameFollows, LiveOf
<1>5. ExitToldTo(c)'
  BY <1>1 DEF ClientFits, ForwarderFits, ExitToldTo, Current, Forwarder
<1> QED
  BY <1>2, <1>3, <1>4, <1>5 DEF ClientFits

\* The Run comes into the table and leaves it: who is attached then, and what is on its way
\* to them, is untouched.
LEMMA RunMoves ==
  ASSUME AttachInv, Register \/ Removed
  PROVE  AttachInv'
<1>1. UNCHANGED <<logged, reader, sent, conn, fwd, out>> /\ run' \in {"hand", "table", "dropped"}
  BY DEF Register, Removed
<1>2. AttachTypeOK' /\ ReaderFits'
  BY <1>1 DEF AttachInv, AttachTypeOK, ReaderFits, ExitedSent
<1>3. \A c \in Client : ClientFits(c)'
  BY <1>1, ClientLeftAlone DEF AttachInv
<1> QED
  BY <1>2, <1>3 DEF AttachInv

--------------------------------------------------------------------------------
\* The handler's steps: they move no forwarder but the client's own.
LEMMA HandlerKeepsType ==
  ASSUME AttachInv, NEW c \in Client, AttachStart(c) \/ AttachSteps(c)
  PROVE  AttachTypeOK' /\ ReaderFits'
<1>1. /\ logged \in 0..MaxChunks /\ sent \in Nat /\ MaxAttach \in Nat /\ MaxChunks \in Nat
      /\ conn[c].attach \in 0..MaxAttach /\ conn[c].upto \in 0..MaxChunks
      /\ conn[c] = [at |-> conn[c].at, attach |-> conn[c].attach, upto |-> conn[c].upto]
      /\ fwd[c] \in [Attach -> Forwarder]
      /\ conn[c].at # "idle" => conn[c].attach \in Attach
  BY AttachAssumption DEF AttachInv, AttachTypeOK, ClientFits, HandlerFits, Attach
<1>2. UNCHANGED <<logged, reader, sent, run>> /\ ReaderFits'
  BY DEF AttachInv, ReaderFits, ExitedSent, AttachStart, AttachSteps, ReadLog, Reply, Subscribe
<1>3. conn' \in [Client -> [at : {"idle", "read", "reply", "subscribe"},
                            attach : 0..MaxAttach, upto : 0..MaxChunks]]
  <2>1. conn' = [conn EXCEPT ![c] = conn'[c]]
    BY DEF AttachInv, AttachTypeOK, AttachStart, AttachSteps, ReadLog, Reply, Subscribe
  <2>2. \/ /\ conn[c].attach < MaxAttach
           /\ conn'[c] = [at |-> "read", attach |-> conn[c].attach + 1, upto |-> 0]
        \/ conn'[c] = [at |-> "reply", attach |-> conn[c].attach, upto |-> logged]
        \/ conn'[c] = [at |-> "subscribe", attach |-> conn[c].attach, upto |-> conn[c].upto]
        \/ conn'[c] = [at |-> "idle", attach |-> conn[c].attach, upto |-> 0]
    BY <1>1 DEF AttachInv, AttachTypeOK, AttachStart, AttachSteps, ReadLog, Reply, Subscribe
  <2>3. conn'[c] \in [at : {"idle", "read", "reply", "subscribe"},
                      attach : 0..MaxAttach, upto : 0..MaxChunks]
    BY <1>1, <2>2
  <2> QED
    BY <2>1, <2>3 DEF AttachInv, AttachTypeOK
<1>4. fwd' \in [Client -> [Attach -> Forwarder]]
  <2>1. CASE AttachStart(c)
    <3>1. \A k \in Attach : AbortOld(fwd[c][k]) \in Forwarder
      BY <1>1 DEF AbortOld, Forwarder
    <3> QED
      BY <2>1, <3>1 DEF AttachInv, AttachTypeOK, AttachStart
  <2>2. CASE Subscribe(c)
    <3>1. [at |-> "live", from |-> SubscribeAt, next |-> SubscribeAt] \in Forwarder
      BY <1>1 DEF SubscribeAt, Forwarder
    <3> QED
      BY <2>2, <3>1 DEF AttachInv, AttachTypeOK, Subscribe
  <2>3. CASE ReadLog(c) \/ Reply(c)
    BY <2>3 DEF AttachInv, AttachTypeOK, ReadLog, Reply
  <2> QED
    BY <2>1, <2>2, <2>3 DEF AttachSteps
<1>5. out' \in [Client -> Seq(Frame)]
  <2>1. CASE Reply(c)
    <3>1. FrameOf("replay", conn[c].attach, conn[c].upto) \in Frame
      BY <1>1, <2>1 DEF Reply, FrameOf, Frame
    <3>2. <<FrameOf("replay", conn[c].attach, conn[c].upto)>> \in Seq(Frame)
      BY <3>1
    <3> QED
      BY <2>1, <3>2 DEF AttachInv, AttachTypeOK, Reply
  <2>2. CASE ~Reply(c)
    BY <2>2 DEF AttachInv, AttachTypeOK, AttachStart, AttachSteps, ReadLog, Subscribe
  <2> QED
    BY <2>1, <2>2
<1> QED
  BY <1>2, <1>3, <1>4, <1>5 DEF AttachInv, AttachTypeOK

LEMMA OthersKeepFitting ==
  ASSUME AttachInv, NEW c \in Client, AttachStart(c) \/ AttachSteps(c), NEW d \in Client, d # c
  PROVE  ClientFits(d)'
<1>1. /\ conn'[d] = conn[d] /\ fwd'[d] = fwd[d] /\ out'[d] = out[d]
      /\ UNCHANGED <<logged, reader, sent>>
  BY DEF AttachInv, AttachTypeOK, AttachStart, AttachSteps, ReadLog, Reply, Subscribe
<1> QED
  BY <1>1, ClientLeftAlone DEF AttachInv

\* AttachStart: no forwarder has the new attach yet, the ones before it are told to abort.
LEMMA AttachStartFits ==
  ASSUME AttachInv, NEW c \in Client, AttachStart(c)
  PROVE  ClientFits(c)'
<1>1. /\ ClientFits(c) /\ conn[c].attach \in Nat /\ fwd[c] \in [Attach -> Forwarder]
      /\ conn'[c] = [at |-> "read", attach |-> conn[c].attach + 1, upto |-> 0]
      /\ fwd'[c] = [k \in Attach |-> AbortOld(fwd[c][k])]
      /\ out'[c] = out[c] /\ out[c] \in Seq(Frame)
      /\ UNCHANGED <<logged, reader, sent>> /\ logged \in Nat
  BY DEF AttachInv, AttachTypeOK, AttachStart
<1>2. \A k \in Attach : /\ fwd'[c][k].from = fwd[c][k].from /\ fwd'[c][k].next = fwd[c][k].next
                        /\ fwd'[c][k].at = "none" <=> fwd[c][k].at = "none"
                        /\ Forwarding(c, k)' <=> Forwarding(c, k)
                        /\ fwd[c][k].at # "none" => k # conn[c].attach + 1
                        /\ fwd'[c][k].at # "live"
                        /\ k \in Nat
  BY <1>1 DEF AbortOld, Forwarder, Forwarding, ClientFits, ForwarderFits, Attach
<1>9. conn'[c].attach = conn[c].attach + 1
  BY <1>1
<1>8. \A k \in Attach : k = conn'[c].attach => fwd'[c][k].at = "none"
  BY <1>2, <1>9
<1>3. \A k \in Attach : ForwarderFits(c, k)'
  BY <1>1, <1>2 DEF ClientFits, ForwarderFits, ExitedSent
<1>4. HandlerFits(c)'
  BY <1>1 DEF HandlerFits, Replied
<1>6. QueueFits(c)'
  <2>1. \A k \in Attach : ForwarderFollows(c, k)'
    BY <1>1, <1>2 DEF ClientFits, QueueFits, ForwarderFollows
  <2>2. \A j \in DOMAIN out[c] : FrameFollows(c, j)'
    BY <1>1, <1>2 DEF ClientFits, QueueFits, FrameFollows, LiveOf
  <2>3. \A j \in DOMAIN out[c] : out[c][j].kind = "replay" <=> j = 1
    BY <1>1 DEF ClientFits, QueueFits
  <2> QED
    BY <1>1, <2>1, <2>2, <2>3 DEF QueueFits
<1>7. ExitToldTo(c)'
  BY <1>1, <1>8 DEF ExitToldTo, Current
<1> QED
  BY <1>3, <1>4, <1>6, <1>7 DEF ClientFits

\* ReadLog: the handler sees the log as it is.
LEMMA ReadLogFits ==
  ASSUME AttachInv, NEW c \in Client, ReadLog(c)
  PROVE  ClientFits(c)'
<1>1. /\ ClientFits(c) /\ conn[c].at = "read"
      /\ conn'[c] = [at |-> "reply", attach |-> conn[c].attach, upto |-> logged]
      /\ UNCHANGED <<logged, reader, sent, fwd, out>> /\ logged \in Nat
  <2>1. ClientFits(c) /\ logged \in 0..MaxChunks
    BY DEF AttachInv, AttachTypeOK
  <2>2. conn \in [Client -> [at : {"idle", "read", "reply", "subscribe"},
                             attach : 0..MaxAttach, upto : 0..MaxChunks]]
    BY DEF AttachInv, AttachTypeOK
  <2>3. conn[c] = [at |-> conn[c].at, attach |-> conn[c].attach, upto |-> conn[c].upto]
    BY <2>2
  <2> QED
    <3>1. conn'[c] = [[conn[c] EXCEPT !.at = "reply"] EXCEPT !.upto = logged]
      BY <2>2 DEF ReadLog
    <3>2. conn'[c] = [at |-> "reply", attach |-> conn[c].attach, upto |-> logged]
      BY <2>3, <3>1
    <3> QED
      BY <2>1, <2>2, <3>2 DEF ReadLog
<1> QED
  BY <1>1 DEF ClientFits, ForwarderFits, HandlerFits, QueueFits, ForwarderFollows, FrameFollows,
       ExitToldTo, Replied, Current, LiveOf, Forwarding, ExitedSent

\* Reply: what the client gets starts over with the replay; the attach has no forwarder yet.
LEMMA ReplyFits ==
  ASSUME AttachInv, NEW c \in Client, Reply(c)
  PROVE  ClientFits(c)'
<1>1. /\ ClientFits(c) /\ conn[c].at = "reply"
      /\ conn'[c] = [at |-> "subscribe", attach |-> conn[c].attach, upto |-> conn[c].upto]
      /\ out'[c] = <<FrameOf("replay", conn[c].attach, conn[c].upto)>>
      /\ UNCHANGED <<logged, reader, sent, fwd>> /\ logged \in Nat
  <2>1. ClientFits(c) /\ logged \in 0..MaxChunks /\ out \in [Client -> Seq(Frame)]
    BY DEF AttachInv, AttachTypeOK
  <2>2. conn \in [Client -> [at : {"idle", "read", "reply", "subscribe"},
                             attach : 0..MaxAttach, upto : 0..MaxChunks]]
    BY DEF AttachInv, AttachTypeOK
  <2> QED
    BY <2>1, <2>2 DEF Reply
<1>2. /\ DOMAIN out'[c] = {1} /\ out'[c] # <<>>
      /\ out'[c][1] = [kind |-> "replay", attach |-> conn[c].attach, n |-> conn[c].upto]
  BY <1>1 DEF FrameOf
<1>3. \A k \in Attach : k = conn[c].attach => fwd[c][k].at = "none"
  BY <1>1 DEF ClientFits, ForwarderFits
<1>4. \A k \in Attach : ForwarderFits(c, k)'
  BY <1>1 DEF ClientFits, ForwarderFits, Forwarding, ExitedSent
<1>5. HandlerFits(c)'
  BY <1>1, <1>2 DEF ClientFits, HandlerFits, Replied
<1>6. QueueFits(c)'
  <2>1. conn[c].attach \in Nat /\ \A k \in Attach : k \in Nat
    BY AttachAssumption DEF AttachInv, AttachTypeOK, Attach
  <2>2. \A k \in Attach : ForwarderFollows(c, k)'
    BY <1>1, <1>2, <2>1 DEF ClientFits, ForwarderFits, ForwarderFollows
  <2>3. \A j \in DOMAIN out'[c] : FrameFollows(c, j)'
    BY <1>2 DEF FrameFollows, LiveOf
  <2> QED
    BY <1>2, <2>2, <2>3 DEF QueueFits
<1>7. ExitToldTo(c)'
  BY <1>1, <1>3 DEF ExitToldTo, Current
<1> QED
  BY <1>4, <1>5, <1>6, <1>7 DEF ClientFits

\* Subscribe: the forwarder starts behind what has been sent, so not before what the replay
\* ends with.
LEMMA SubscribeFits ==
  ASSUME AttachInv, NEW c \in Client, Subscribe(c)
  PROVE  ClientFits(c)'
<1> DEFINE k0 == conn[c].attach
<1>1. /\ ClientFits(c) /\ conn[c].at = "subscribe" /\ k0 \in Nat
      /\ conn'[c] = [at |-> "idle", attach |-> k0, upto |-> 0]
      /\ out'[c] = out[c] /\ out[c] \in Seq(Frame)
      /\ fwd[c] \in [Attach -> Forwarder]
      /\ UNCHANGED <<logged, reader, sent>> /\ logged \in Nat /\ sent \in Nat
  <2>1. ClientFits(c) /\ logged \in 0..MaxChunks /\ sent \in 0..(MaxChunks + 1)
        /\ out \in [Client -> Seq(Frame)] /\ fwd \in [Client -> [Attach -> Forwarder]]
    BY DEF AttachInv, AttachTypeOK
  <2>2. conn \in [Client -> [at : {"idle", "read", "reply", "subscribe"},
                             attach : 0..MaxAttach, upto : 0..MaxChunks]]
    BY DEF AttachInv, AttachTypeOK
  <2>3. conn[c] = [at |-> conn[c].at, attach |-> conn[c].attach, upto |-> conn[c].upto]
    BY <2>2
  <2> QED
    <3>1. conn'[c] = [[conn[c] EXCEPT !.at = "idle"] EXCEPT !.upto = 0]
      BY <2>2 DEF Subscribe
    <3>2. conn'[c] = [at |-> "idle", attach |-> k0, upto |-> 0]
      BY <2>3, <3>1
    <3>3. conn[c].attach \in Nat
      BY <2>2
    <3> QED
      BY <2>1, <2>2, <3>2, <3>3 DEF Subscribe
<1>2. k0 \in Attach /\ fwd[c][k0].at = "none"
  <2>1. k0 \in Attach
    BY <1>1, AttachAssumption DEF AttachInv, AttachTypeOK, ClientFits, HandlerFits, Attach
  <2> QED
    BY <1>1, <2>1 DEF ClientFits, ForwarderFits
<1>3. \A k \in Attach \ {k0} : fwd'[c][k] = fwd[c][k]
  BY <1>1 DEF AttachInv, AttachTypeOK, Subscribe
<1>4. \/ fwd'[c][k0] = fwd[c][k0]
      \/ fwd'[c][k0] = [at |-> "live", from |-> sent + 1, next |-> sent + 1]
  BY <1>1, <1>2 DEF AttachInv, AttachTypeOK, Subscribe, SubscribeAt
<1>5. logged <= sent + 1
  BY <1>1 DEF AttachInv, ReaderFits
<1>6. out[c] # <<>> /\ out[c][1].n <= logged /\ out[c][1].n \in Nat
      /\ out[c][1].attach = k0 /\ out[c][1].kind = "replay"
  <2>1. out[c] # <<>> /\ out[c][1].n <= logged /\ out[c][1].attach = k0
        /\ out[c][1].kind = "replay"
    BY <1>1 DEF ClientFits, HandlerFits, Replied
  <2>2. out[c][1] \in Frame
    BY <1>1, <2>1
  <2> QED
    BY <2>1, <2>2 DEF Frame
<1>7. \A k \in Attach : ForwarderFits(c, k)'
  <2> TAKE k \in Attach
  <2>1. CASE k = k0
    BY <1>1, <1>2, <1>4, <2>1 DEF ClientFits, ForwarderFits, Forwarding, ExitedSent
  <2>2. CASE k # k0
    BY <1>1, <1>3, <2>2 DEF ClientFits, ForwarderFits, Forwarding, ExitedSent
  <2> QED
    BY <2>1, <2>2
<1>8. HandlerFits(c)'
  BY <1>1, <1>6 DEF HandlerFits, Replied
<1>9. \A j \in DOMAIN out[c] : ~LiveOf(c, j, k0)
  BY <1>1, <1>2 DEF ClientFits, QueueFits, FrameFollows
<1>10. QueueFits(c)'
  <2>1. fwd'[c][k0].at # "none" => out[c][1].n <= fwd'[c][k0].next
    <3>1. CASE fwd'[c][k0] = fwd[c][k0]
      BY <1>2, <3>1
    <3>2. CASE fwd'[c][k0] = [at |-> "live", from |-> sent + 1, next |-> sent + 1]
      <4>1. fwd'[c][k0].next = sent + 1 /\ sent \in Nat /\ logged \in Nat
        BY <1>1, <3>2
      <4> QED
        BY <1>5, <1>6, <4>1
    <3> QED
      BY <1>4, <3>1, <3>2
  <2>2. \A k \in Attach : ForwarderFollows(c, k)'
    <3> TAKE k \in Attach
    <3>1. CASE k = k0
      BY <1>1, <1>6, <2>1, <3>1 DEF ForwarderFollows
    <3>2. CASE k # k0
      BY <1>1, <1>3, <3>2 DEF ClientFits, QueueFits, ForwarderFollows
    <3> QED
      BY <3>1, <3>2
  <2>3. \A j \in DOMAIN out[c] : FrameFollows(c, j)'
    <3> SUFFICES ASSUME NEW j \in DOMAIN out[c], NEW k \in Attach, LiveOf(c, j, k)'
                 PROVE  /\ fwd'[c][k].at # "none" /\ out'[c][j].n < fwd'[c][k].next
                        /\ k = out'[c][1].attach => out'[c][1].n <= out'[c][j].n
                        /\ \A h \in 2..(j - 1) : LiveOf(c, h, k)' => out'[c][h].n < out'[c][j].n
      BY DEF FrameFollows
    <3>1. LiveOf(c, j, k) /\ k # k0
      BY <1>1, <1>9 DEF LiveOf
    <3>2. fwd'[c][k] = fwd[c][k]
      BY <1>3, <3>1
    <3> QED
      BY <1>1, <3>1, <3>2 DEF ClientFits, QueueFits, FrameFollows, LiveOf
  <2> QED
    BY <1>1, <2>2, <2>3 DEF ClientFits, QueueFits
<1>11. ExitToldTo(c)'
  BY <1>1, <1>2, <1>4 DEF ExitToldTo, Current
<1> QED
  BY <1>7, <1>8, <1>10, <1>11 DEF ClientFits

--------------------------------------------------------------------------------
\* What the steps of a forwarder have in common: it was made before, nothing else moves, and
\* it never goes back.
ForwarderMoves(c, k) ==
  /\ UNCHANGED <<logged, reader, sent, conn>>
  /\ \A d \in Client \ {c} : fwd'[d] = fwd[d] /\ out'[d] = out[d]
  /\ \A l \in Attach \ {k} : fwd'[c][l] = fwd[c][l]
  /\ Forwarding(c, k) /\ fwd'[c][k].at \in {fwd[c][k].at, "ended"}
  /\ fwd'[c][k].from = fwd[c][k].from
  /\ fwd'[c][k].next \in Nat /\ fwd[c][k].next <= fwd'[c][k].next /\ fwd'[c][k].next <= sent + 1
  /\ \A l \in Attach : fwd[c][l].from \in Nat /\ fwd[c][l].next \in Nat

LEMMA OldestIsSent ==
  ASSUME AttachTypeOK
  PROVE  /\ Oldest \in Nat /\ Oldest >= 1
         /\ \A n \in Nat : n >= 1 /\ n < Oldest => Oldest <= sent
BY AttachAssumption DEF AttachTypeOK, Oldest

LEMMA ForwarderStepMoves ==
  ASSUME AttachInv, NEW c \in Client, NEW k \in Attach, Forward(c, k) \/ Aborted(c, k)
  PROVE  /\ ForwarderMoves(c, k)
         /\ fwd' \in [Client -> [Attach -> Forwarder]]
         /\ reader' = reader /\ run' = run
<1> DEFINE f == fwd[c][k]
           g == fwd'[c][k]
<1>1. /\ fwd \in [Client -> [Attach -> Forwarder]] /\ out \in [Client -> Seq(Frame)]
      /\ f \in Forwarder /\ sent \in Nat /\ ForwarderFits(c, k)
      /\ f = [at |-> f.at, from |-> f.from, next |-> f.next]
      /\ \A l \in Attach : fwd[c][l].from \in Nat /\ fwd[c][l].next \in Nat
  BY DEF AttachInv, AttachTypeOK, ClientFits, Forwarder
<1>2. Forwarding(c, k)
  BY DEF Forward, ForwardChunk, ForwardExited, Lagged, ChannelClosed, Aborted, Forwarding
<1>3. f.from \in Nat /\ f.next \in Nat /\ f.next >= 1 /\ f.next <= sent + 1
  BY <1>1, <1>2 DEF Forwarder, ForwarderFits, Forwarding
<1>4. /\ g \in Forwarder
      /\ fwd' = [fwd EXCEPT ![c][k] = g]
      /\ g.at \in {f.at, "ended"} /\ g.from = f.from
      /\ f.next <= g.next /\ g.next <= sent + 1
  <2>1. CASE ForwardChunk(c, k)
    <3>1. fwd' = [fwd EXCEPT ![c][k] = [f EXCEPT !.next = f.next + 1]] /\ f.next <= sent
      BY <1>1, <2>1 DEF ForwardChunk
    <3>2. [f EXCEPT !.next = f.next + 1] = [at |-> f.at, from |-> f.from, next |-> f.next + 1]
      BY <1>1
    <3>3. g = [at |-> f.at, from |-> f.from, next |-> f.next + 1]
      BY <1>1, <3>1, <3>2
    <3>4. fwd' = [fwd EXCEPT ![c][k] = g]
      BY <3>1, <3>2, <3>3
    <3>5. g \in Forwarder
      BY <1>1, <1>3, <3>3 DEF Forwarder
    <3> QED
      BY <1>1, <1>3, <3>1, <3>3, <3>4, <3>5
  <2>2. CASE ForwardExited(c, k) \/ ChannelClosed(c, k) \/ Aborted(c, k)
    <3>1. fwd' = [fwd EXCEPT ![c][k] = [f EXCEPT !.at = "ended"]]
      BY <1>1, <2>2 DEF ForwardExited, ChannelClosed, Aborted
    <3>2. [f EXCEPT !.at = "ended"] = [at |-> "ended", from |-> f.from, next |-> f.next]
      BY <1>1
    <3>3. g = [at |-> "ended", from |-> f.from, next |-> f.next]
      BY <1>1, <3>1, <3>2
    <3>4. fwd' = [fwd EXCEPT ![c][k] = g]
      BY <3>1, <3>2, <3>3
    <3>5. g \in Forwarder
      BY <1>1, <1>3, <3>3 DEF Forwarder
    <3> QED
      BY <1>1, <1>3, <3>1, <3>3, <3>4, <3>5
  <2>3. CASE Lagged(c, k)
    <3>1. fwd' = [fwd EXCEPT ![c][k] = [f EXCEPT !.next = Oldest]] /\ f.next < Oldest
      BY <1>1, <2>3 DEF Lagged, Skip
    <3>2. [f EXCEPT !.next = Oldest] = [at |-> f.at, from |-> f.from, next |-> Oldest]
      BY <1>1
    <3>3. Oldest \in Nat /\ Oldest <= sent
      BY <1>3, <3>1, OldestIsSent DEF AttachInv
    <3>4. g = [at |-> f.at, from |-> f.from, next |-> Oldest]
      BY <1>1, <3>1, <3>2
    <3>5. fwd' = [fwd EXCEPT ![c][k] = g]
      BY <3>1, <3>2, <3>4
    <3>6. g \in Forwarder
      BY <1>1, <3>3, <3>4 DEF Forwarder
    <3> QED
      BY <1>1, <1>3, <3>1, <3>3, <3>4, <3>5, <3>6
  <2> QED
    BY <2>1, <2>2, <2>3 DEF Forward
<1>5. \A l \in Attach \ {k} : fwd'[c][l] = fwd[c][l]
  BY <1>1, <1>4
<1>6. \A d \in Client \ {c} : fwd'[d] = fwd[d] /\ out'[d] = out[d]
  BY <1>1 DEF Forward, ForwardChunk, ForwardExited, Lagged, ChannelClosed, Aborted
<1>7. UNCHANGED <<logged, reader, sent, conn, run>>
  BY DEF Forward, ForwardChunk, ForwardExited, Lagged, ChannelClosed, Aborted
<1>8. g.next \in Nat
  BY <1>4 DEF Forwarder
<1>9. fwd' \in [Client -> [Attach -> Forwarder]]
  <2>1. [fwd[c] EXCEPT ![k] = g] \in [Attach -> Forwarder]
    BY <1>1, <1>4
  <2> QED
    BY <1>1, <1>4, <2>1
<1> QED
  BY <1>1, <1>2, <1>4, <1>5, <1>6, <1>7, <1>8, <1>9 DEF ForwarderMoves

\* A chunk is a place in the output: it has been logged.
LEMMA ForwardedIsLogged ==
  ASSUME AttachInv, NEW c \in Client, NEW k \in Attach, ForwardChunk(c, k)
  PROVE  fwd[c][k].next \in 0..MaxChunks
<1>1. /\ fwd[c][k].next \in Nat /\ sent \in Nat /\ logged \in 0..MaxChunks /\ MaxChunks \in Nat
      /\ fwd[c][k].next <= sent /\ (ExitedSent => fwd[c][k].next # sent) /\ ReaderFits
  BY AttachAssumption DEF AttachInv, AttachTypeOK, Forwarder, ForwardChunk, Exited
<1> QED
  BY <1>1 DEF ReaderFits

LEMMA ForwarderKeepsType ==
  ASSUME AttachInv, NEW c \in Client, NEW k \in Attach, Forward(c, k) \/ Aborted(c, k)
  PROVE  AttachTypeOK' /\ ReaderFits'
<1>1. /\ fwd' \in [Client -> [Attach -> Forwarder]]
      /\ UNCHANGED <<logged, reader, sent, conn, run>>
  BY ForwarderStepMoves DEF ForwarderMoves
<1>2. out' \in [Client -> Seq(Frame)]
  <2>1. out \in [Client -> Seq(Frame)]
    BY DEF AttachInv, AttachTypeOK
  <2>2. CASE ForwardChunk(c, k)
    <3>1. FrameOf("live", k, fwd[c][k].next) \in Frame
      BY <2>2, ForwardedIsLogged DEF FrameOf, Frame
    <3>2. out[c] \o <<FrameOf("live", k, fwd[c][k].next)>> \in Seq(Frame)
      BY <2>1, <3>1, OneMoreFrame
    <3> QED
      BY <2>1, <2>2, <3>2 DEF ForwardChunk
  <2>3. CASE ForwardExited(c, k)
    <3>1. FrameOf("exited", k, 0) \in Frame
      BY AttachAssumption DEF FrameOf, Frame
    <3>2. out[c] \o <<FrameOf("exited", k, 0)>> \in Seq(Frame)
      BY <2>1, <3>1, OneMoreFrame
    <3> QED
      BY <2>1, <2>3, <3>2 DEF ForwardExited
  <2>4. CASE Lagged(c, k) \/ ChannelClosed(c, k) \/ Aborted(c, k)
    BY <2>1, <2>4 DEF Lagged, ChannelClosed, Aborted
  <2> QED
    BY <2>2, <2>3, <2>4 DEF Forward
<1> QED
  BY <1>1, <1>2 DEF AttachInv, AttachTypeOK, ReaderFits, ExitedSent

\* The client's other forwarders and its handler: a forwarder's step is nothing to them, as
\* long as it adds to the end of the queue.
LEMMA MovesKeepHandler ==
  ASSUME AttachInv, NEW c \in Client, NEW k \in Attach, ForwarderMoves(c, k),
         out[c] # <<>> => out'[c] # <<>> /\ out'[c][1] = out[c][1]
  PROVE  HandlerFits(c)'
BY DEF AttachInv, ClientFits, HandlerFits, Replied, ForwarderMoves

\* A step of a forwarder that queues nothing.
LEMMA QuietStepFits ==
  ASSUME AttachInv, NEW c \in Client, NEW k \in Attach,
         Lagged(c, k) \/ ChannelClosed(c, k) \/ Aborted(c, k)
  PROVE  ClientFits(c)'
<1>1. ForwarderMoves(c, k) /\ ClientFits(c) /\ out' = out /\ sent \in Nat /\ out[c] \in Seq(Frame)
      /\ fwd[c][k] \in Forwarder
  <2>1. ForwarderMoves(c, k)
    BY ForwarderStepMoves DEF Forward
  <2> QED
    BY <2>1 DEF AttachInv, AttachTypeOK, Lagged, ChannelClosed, Aborted
<1>2. /\ fwd'[c][k].at = "ended" =>
           (k = conn[c].attach => ExitedSent /\ ~(fwd[c][k].from <= sent))
      /\ Forwarding(c, k)' /\ ExitedSent /\ fwd[c][k].from <= sent => fwd'[c][k].next <= sent
  <2>1. CASE Lagged(c, k)
    <3>1. fwd'[c][k] = [fwd[c][k] EXCEPT !.next = Oldest] /\ fwd[c][k].next < Oldest
      BY <2>1 DEF AttachInv, AttachTypeOK, Lagged, Skip
    <3>2. fwd[c][k].next >= 1 /\ fwd[c][k].next \in Nat
      BY <1>1 DEF ForwarderMoves, ClientFits, ForwarderFits, Forwarding, Forwarder
    <3>3. Oldest <= sent
      BY <3>1, <3>2, OldestIsSent DEF AttachInv
    <3>4. fwd'[c][k].next = Oldest /\ fwd'[c][k].at = fwd[c][k].at
      BY <1>1, <3>1 DEF Forwarder
    <3> QED
      BY <1>1, <2>1, <3>3, <3>4 DEF Lagged, Forwarding
  <2>2. CASE ChannelClosed(c, k)
    <3>1. fwd'[c][k].at = "ended" /\ ExitedSent /\ fwd[c][k].next > sent
      BY <1>1, <2>2 DEF AttachInv, AttachTypeOK, ChannelClosed, Closed, ExitedSent, Forwarder
    <3>2. ~(fwd[c][k].from <= sent)
      BY <1>1, <2>2, <3>1 DEF ChannelClosed, ClientFits, ForwarderFits, ForwarderMoves, Forwarding
    <3> QED
      BY <1>1, <3>1, <3>2 DEF ForwarderMoves, Forwarding
  <2>3. CASE Aborted(c, k)
    <3>1. fwd'[c][k].at = "ended"
      BY <1>1, <2>3 DEF AttachInv, AttachTypeOK, Aborted, Forwarder
    <3>2. k # conn[c].attach
      BY <1>1, <2>3 DEF Aborted, ClientFits, ForwarderFits
    <3> QED
      BY <3>1, <3>2 DEF Forwarding
  <2> QED
    BY <2>1, <2>2, <2>3
<1>3. ASSUME NEW l \in Attach PROVE ForwarderFits(c, l)'
  <2>1. CASE l = k
    BY <1>1, <1>2, <2>1 DEF ForwarderMoves, ClientFits, ForwarderFits, Forwarding, ExitedSent
  <2>2. CASE l # k
    BY <1>1, <2>2 DEF ForwarderMoves, ClientFits, ForwarderFits, Forwarding, ExitedSent
  <2> QED
    BY <2>1, <2>2
<1>4. HandlerFits(c)'
  BY <1>1, MovesKeepHandler
<1>5. QueueFits(c)'
  <2>1. \A j \in DOMAIN out[c] : out[c][j].attach \in Attach /\ out[c][j].n \in Nat
    BY QueueHoldsFrames DEF AttachInv
  <2>2. \A l \in Attach : /\ fwd'[c][l].at = "none" <=> fwd[c][l].at = "none"
                          /\ fwd'[c][l].at = "live" => fwd[c][l].at = "live"
                          /\ fwd[c][l].next <= fwd'[c][l].next
                          /\ fwd[c][l].next \in Nat /\ fwd'[c][l].next \in Nat
    BY <1>1 DEF ForwarderMoves, Forwarding
  <2>3. out[c] # <<>> => out[c][1].n \in Nat
    BY <1>1, <2>1
  <2>4. \A l \in Attach : ForwarderFollows(c, l)'
    BY <1>1, <2>2, <2>3 DEF ClientFits, QueueFits, ForwarderFollows
  <2>5. \A j \in DOMAIN out[c] : FrameFollows(c, j)'
    <3> SUFFICES ASSUME NEW j \in DOMAIN out[c], NEW l \in Attach, LiveOf(c, j, l)
                 PROVE  /\ fwd'[c][l].at # "none" /\ out[c][j].n < fwd'[c][l].next
                        /\ l = out[c][1].attach => out[c][1].n <= out[c][j].n
                        /\ \A h \in 2..(j - 1) : LiveOf(c, h, l) => out[c][h].n < out[c][j].n
      BY <1>1 DEF FrameFollows, LiveOf
    <3>1. /\ fwd[c][l].at # "none" /\ out[c][j].n < fwd[c][l].next
          /\ l = out[c][1].attach => out[c][1].n <= out[c][j].n
          /\ \A h \in 2..(j - 1) : LiveOf(c, h, l) => out[c][h].n < out[c][j].n
      BY <1>1 DEF ClientFits, QueueFits, FrameFollows
    <3>2. out[c][j].n < fwd'[c][l].next
      BY <2>1, <2>2, <3>1
    <3> QED
      BY <2>2, <3>1, <3>2
  <2> QED
    BY <1>1, <2>4, <2>5 DEF ClientFits, QueueFits
<1>6. ExitToldTo(c)'
  <2>1. \A l \in Attach : l = Current(c) /\ fwd'[c][l].at = "ended" /\ fwd'[c][l].from <= sent =>
          l # k /\ fwd'[c][l] = fwd[c][l]
    BY <1>1, <1>2 DEF ForwarderMoves, Current
  <2> QED
    BY <1>1, <2>1 DEF ForwarderMoves, ClientFits, ExitToldTo, Current
<1> QED
  BY <1>3, <1>4, <1>5, <1>6 DEF ClientFits

\* A frame a forwarder queues: it goes behind the replay and behind what this forwarder has
\* queued before, which is all before its next chunk.
LEMMA QueuedFrameFits ==
  ASSUME AttachInv, NEW c \in Client, NEW k \in Attach, ForwarderMoves(c, k), NEW e \in Frame,
         out'[c] = out[c] \o <<e>>,
         e.kind \in {"live", "exited"},
         e.kind = "live" => /\ e.attach = k /\ e.n = fwd[c][k].next
                            /\ fwd'[c][k].next = fwd[c][k].next + 1
  PROVE  HandlerFits(c)' /\ QueueFits(c)'
<1> DEFINE s == out[c]
           t == out'[c]
           L == Len(out[c])
<1>1. /\ s \in Seq(Frame) /\ L \in Nat /\ DOMAIN s = 1..L /\ DOMAIN t = 1..(L + 1)
      /\ \A j \in 1..L : t[j] = s[j]
      /\ t[L + 1] = e
      /\ t \in Seq(Frame)
  <2>1. s \in Seq(Frame)
    BY DEF AttachInv, AttachTypeOK
  <2> QED
    BY <2>1, OneMoreFrame
<1>2. /\ ClientFits(c) /\ conn' = conn
      /\ \A l \in Attach : /\ fwd'[c][l].at = "none" <=> fwd[c][l].at = "none"
                           /\ fwd'[c][l].at = "live" => fwd[c][l].at = "live"
                           /\ fwd[c][l].next <= fwd'[c][l].next
                           /\ fwd[c][l].next \in Nat /\ fwd'[c][l].next \in Nat
      /\ fwd[c][k].at # "none"
  <2>1. ClientFits(c) /\ conn' = conn
    BY DEF AttachInv, ForwarderMoves
  <2>2. fwd[c][k].at # "none" /\ fwd'[c][k].at # "none"
    BY DEF ForwarderMoves, Forwarding
  <2>3. \A l \in Attach \ {k} : fwd'[c][l] = fwd[c][l]
    BY DEF ForwarderMoves
  <2>4. \A l \in Attach : /\ fwd'[c][l].at = "none" <=> fwd[c][l].at = "none"
                          /\ fwd'[c][l].at = "live" => fwd[c][l].at = "live"
    BY <2>2, <2>3 DEF ForwarderMoves
  <2>5. /\ \A l \in Attach : fwd[c][l].next \in Nat
        /\ fwd'[c][k].next \in Nat /\ fwd[c][k].next <= fwd'[c][k].next
    BY DEF ForwarderMoves
  <2>6. \A l \in Attach : fwd'[c][l].next \in Nat /\ fwd[c][l].next <= fwd'[c][l].next
    BY <2>3, <2>5
  <2> QED
    BY <2>1, <2>2, <2>4, <2>5, <2>6
<1>3. s # <<>> /\ L >= 1 /\ 1 \in 1..L
  <2>1. s # <<>>
    BY <1>2 DEF ClientFits, QueueFits, ForwarderFollows
  <2> QED
    BY <1>1, <2>1, EmptySeq
<1>4. t # <<>> /\ t[1] = s[1]
  BY <1>1, <1>3
<1>5. HandlerFits(c)'
  BY <1>4, MovesKeepHandler
<1>6. \A j \in 1..L : s[j].attach \in Attach /\ s[j].n \in Nat
  BY <1>1, QueueHoldsFrames DEF AttachInv
<1>7. \A j \in 1..(L + 1) : t[j].kind = "replay" <=> j = 1
  BY <1>1, <1>2, <1>3 DEF ClientFits, QueueFits
<1>8. \A l \in Attach : ForwarderFollows(c, l)'
  <2>1. s[1].n \in Nat
    BY <1>3, <1>6
  <2>2. \A l \in Attach : ForwarderFollows(c, l)
    BY <1>2 DEF ClientFits, QueueFits
  <2> QED
    BY <1>2, <1>4, <2>1, <2>2 DEF ForwarderFollows
<1>9. \A j \in 1..L : FrameFollows(c, j) /\ \A l \in Attach : LiveOf(c, j, l)' <=> LiveOf(c, j, l)
  BY <1>1, <1>2 DEF ClientFits, QueueFits, LiveOf
<1>10. ASSUME NEW j \in 1..L PROVE FrameFollows(c, j)'
  <2> SUFFICES ASSUME NEW l \in Attach, LiveOf(c, j, l)'
               PROVE  /\ fwd'[c][l].at # "none" /\ t[j].n < fwd'[c][l].next
                      /\ l = t[1].attach => t[1].n <= t[j].n
                      /\ \A h \in 2..(j - 1) : LiveOf(c, h, l)' => t[h].n < t[j].n
    BY DEF FrameFollows
  <2>1. LiveOf(c, j, l) /\ t[j] = s[j] /\ s[j].n \in Nat
    BY <1>1, <1>6, <1>9
  <2>2. /\ fwd[c][l].at # "none" /\ s[j].n < fwd[c][l].next
        /\ l = s[1].attach => s[1].n <= s[j].n
        /\ \A h \in 2..(j - 1) : LiveOf(c, h, l) => s[h].n < s[j].n
    BY <1>9, <2>1 DEF FrameFollows
  <2>3. \A h \in 2..(j - 1) : h \in 1..L
    BY <1>1
  <2>4. fwd'[c][l].at # "none" /\ t[j].n < fwd'[c][l].next
    BY <1>2, <2>1, <2>2
  <2> QED
    BY <1>1, <1>4, <1>9, <2>1, <2>2, <2>3, <2>4
<1>11. ASSUME NEW j, j = L + 1 PROVE FrameFollows(c, j)'
  <2> SUFFICES ASSUME NEW l \in Attach, LiveOf(c, j, l)'
               PROVE  /\ fwd'[c][l].at # "none" /\ t[j].n < fwd'[c][l].next
                      /\ l = t[1].attach => t[1].n <= t[j].n
                      /\ \A h \in 2..(j - 1) : LiveOf(c, h, l)' => t[h].n < t[j].n
    BY DEF FrameFollows
  <2>1. e.kind = "live" /\ l = k /\ t[j] = e
    BY <1>1, <1>11 DEF LiveOf
  <2>2. e.n = fwd[c][k].next /\ fwd'[c][k].next = e.n + 1 /\ e.n \in Nat
    BY <1>2, <2>1
  <2>3. l = s[1].attach => s[1].n <= e.n
    BY <1>2, <2>1, <2>2 DEF ClientFits, QueueFits, ForwarderFollows
  <2>4. \A h \in 1..L : LiveOf(c, h, k) => s[h].n < e.n
    BY <1>9, <2>2 DEF FrameFollows
  <2>5. \A h \in 2..(j - 1) : h \in 1..L
    BY <1>1, <1>11
  <2>6. \A h \in 2..(j - 1) : LiveOf(c, h, l)' => t[h].n < t[j].n
    BY <1>1, <1>9, <2>1, <2>4, <2>5
  <2>7. fwd'[c][l].at # "none"
    BY <1>2, <2>1
  <2>8. t[j].n < fwd'[c][l].next
    <3>1. t[j].n = e.n /\ fwd'[c][l].next = fwd'[c][k].next
      BY <2>1
    <3>2. e.n < fwd'[c][k].next
      BY <2>2
    <3> QED
      BY <3>1, <3>2
  <2>9. l = t[1].attach => t[1].n <= t[j].n
    BY <1>4, <2>1, <2>3
  <2> QED
    BY <2>6, <2>7, <2>8, <2>9
<1>12. QueueFits(c)'
  <2>1. \A j \in 1..(L + 1) : j \in 1..L \/ j = L + 1
    BY <1>1
  <2>2. \A j \in 1..(L + 1) : FrameFollows(c, j)'
    BY <1>10, <1>11, <2>1
  <2> QED
    BY <1>1, <1>7, <1>8, <2>2 DEF QueueFits
<1> QED
  BY <1>5, <1>12

\* ForwardChunk: Exited is not what it takes, so there is still something after it then.
LEMMA ForwardChunkFits ==
  ASSUME AttachInv, NEW c \in Client, NEW k \in Attach, ForwardChunk(c, k)
  PROVE  ClientFits(c)'
<1> DEFINE n == fwd[c][k].next
           e == FrameOf("live", k, n)
<1>1. ForwarderMoves(c, k) /\ ClientFits(c) /\ sent \in Nat /\ n \in Nat /\ out[c] \in Seq(Frame)
  <2>1. ForwarderMoves(c, k)
    BY ForwarderStepMoves DEF Forward
  <2> QED
    BY <2>1 DEF AttachInv, AttachTypeOK, ForwarderMoves
<1>2. e \in Frame /\ e.kind = "live" /\ e.attach = k /\ e.n = n
  BY ForwardedIsLogged DEF FrameOf, Frame
<1>3. /\ out'[c] = out[c] \o <<e>> /\ fwd'[c][k].next = n + 1 /\ fwd'[c][k].at = fwd[c][k].at
      /\ n <= sent /\ (ExitedSent => n # sent) /\ Forwarding(c, k)
  BY DEF AttachInv, AttachTypeOK, Forwarder, ForwardChunk, Exited
<1>4. HandlerFits(c)' /\ QueueFits(c)'
  BY <1>1, <1>2, <1>3, QueuedFrameFits
<1>5. ASSUME NEW l \in Attach PROVE ForwarderFits(c, l)'
  <2>1. CASE l = k
    <3>1. ForwarderFits(c, k) /\ fwd[c][k].at # "none"
      BY <1>1, <1>3 DEF ClientFits, Forwarding
    <3>2. /\ fwd'[c][k].from = fwd[c][k].from /\ fwd'[c][k].next = n + 1
          /\ fwd'[c][k].at = fwd[c][k].at /\ fwd[c][k].at \in {"live", "aborted"}
          /\ conn' = conn /\ sent' = sent /\ reader' = reader
      BY <1>1, <1>3 DEF ForwarderMoves, Forwarding
    <3>3. fwd[c][k].from \in 1..(n + 1) /\ n + 1 <= sent + 1
      BY <1>1, <1>3, <3>1 DEF ForwarderFits
    <3>4. ExitedSent => n + 1 <= sent
      BY <1>1, <1>3
    <3> QED
      BY <2>1, <3>1, <3>2, <3>3, <3>4 DEF ForwarderFits, Forwarding, ExitedSent
  <2>2. CASE l # k
    BY <1>1, <2>2 DEF ForwarderMoves, ClientFits, ForwarderFits, Forwarding, ExitedSent
  <2> QED
    BY <2>1, <2>2
<1>6. ExitToldTo(c)'
  <2> SUFFICES ASSUME NEW l \in Attach, l = Current(c)', fwd'[c][l].at = "ended",
                      fwd'[c][l].from <= sent'
               PROVE  \E i \in DOMAIN out'[c] : out'[c][i].kind = "exited" /\ out'[c][i].attach = l
    BY DEF ExitToldTo
  <2>1. l # k /\ fwd'[c][l] = fwd[c][l] /\ l = Current(c) /\ sent' = sent
    BY <1>1, <1>3 DEF ForwarderMoves, Current, Forwarding
  <2>2. PICK i \in DOMAIN out[c] : out[c][i].kind = "exited" /\ out[c][i].attach = l
    BY <1>1, <2>1 DEF ClientFits, ExitToldTo
  <2>3. i \in DOMAIN out'[c] /\ out'[c][i] = out[c][i]
    BY <1>1, <1>2, <1>3, <2>2, OneMoreFrame
  <2> QED
    BY <2>2, <2>3
<1> QED
  BY <1>4, <1>5, <1>6 DEF ClientFits

\* ForwardExited: the client is told.
LEMMA ForwardExitedFits ==
  ASSUME AttachInv, NEW c \in Client, NEW k \in Attach, ForwardExited(c, k)
  PROVE  ClientFits(c)'
<1> DEFINE e == FrameOf("exited", k, 0)
<1>1. ForwarderMoves(c, k) /\ ClientFits(c) /\ sent \in Nat /\ out[c] \in Seq(Frame)
  <2>1. ForwarderMoves(c, k)
    BY ForwarderStepMoves DEF Forward
  <2> QED
    BY <2>1 DEF AttachInv, AttachTypeOK
<1>2. e \in Frame /\ e.kind = "exited" /\ e.attach = k
  BY AttachAssumption DEF FrameOf, Frame
<1>3. /\ out'[c] = out[c] \o <<e>> /\ fwd'[c][k].at = "ended" /\ ExitedSent
  BY DEF AttachInv, AttachTypeOK, Forwarder, ForwardExited, Exited
<1>4. HandlerFits(c)' /\ QueueFits(c)'
  BY <1>1, <1>2, <1>3, QueuedFrameFits
<1>5. ASSUME NEW l \in Attach PROVE ForwarderFits(c, l)'
  <2>1. CASE l = k
    BY <1>1, <1>3, <2>1 DEF ForwarderMoves, ClientFits, ForwarderFits, Forwarding, ExitedSent
  <2>2. CASE l # k
    BY <1>1, <2>2 DEF ForwarderMoves, ClientFits, ForwarderFits, Forwarding, ExitedSent
  <2> QED
    BY <2>1, <2>2
<1>6. ExitToldTo(c)'
  <2> SUFFICES ASSUME NEW l \in Attach, l = Current(c)', fwd'[c][l].at = "ended",
                      fwd'[c][l].from <= sent'
               PROVE  \E i \in DOMAIN out'[c] : out'[c][i].kind = "exited" /\ out'[c][i].attach = l
    BY DEF ExitToldTo
  <2>1. CASE l = k
    <3>1. Len(out[c]) + 1 \in DOMAIN out'[c] /\ out'[c][Len(out[c]) + 1] = e
      BY <1>1, <1>2, <1>3, OneMoreFrame
    <3> QED
      BY <1>2, <2>1, <3>1
  <2>2. CASE l # k
    <3>1. fwd'[c][l] = fwd[c][l] /\ l = Current(c) /\ sent' = sent
      BY <1>1, <2>2 DEF ForwarderMoves, Current
    <3>2. PICK i \in DOMAIN out[c] : out[c][i].kind = "exited" /\ out[c][i].attach = l
      BY <1>1, <3>1 DEF ClientFits, ExitToldTo
    <3>3. i \in DOMAIN out'[c] /\ out'[c][i] = out[c][i]
      BY <1>1, <1>2, <1>3, <3>2, OneMoreFrame
    <3> QED
      BY <3>2, <3>3
  <2> QED
    BY <2>1, <2>2
<1> QED
  BY <1>4, <1>5, <1>6 DEF ClientFits

LEMMA ForwarderStepFits ==
  ASSUME AttachInv, NEW c \in Client, NEW k \in Attach, Forward(c, k) \/ Aborted(c, k),
         NEW d \in Client
  PROVE  ClientFits(d)'
<1>1. CASE d = c
  BY <1>1, ForwardChunkFits, ForwardExitedFits, QuietStepFits DEF Forward
<1>2. CASE d # c
  <2>1. ForwarderMoves(c, k)
    BY ForwarderStepMoves
  <2> QED
    BY <1>2, <2>1, ClientLeftAlone DEF AttachInv, ForwarderMoves
<1> QED
  BY <1>1, <1>2

--------------------------------------------------------------------------------
\* AttachInv holds of every state the run's reader, the handlers and the forwarders can reach
\* together.
THEOREM AttachInductive == AttachSpec => []AttachInv
<1>1. AttachInit => AttachInv
  BY AttachInitFits
<1>2. AttachInv /\ [AttachNext]_attachVars => AttachInv'
  <2> SUFFICES ASSUME AttachInv, [AttachNext]_attachVars PROVE AttachInv'
    OBVIOUS
  <2>1. CASE Reader
    BY <2>1, ReaderKeepsType, ReaderKeepsClients DEF AttachInv
  <2>5. CASE Register \/ Removed
    BY <2>5, RunMoves
  <2>2. ASSUME NEW c \in Client, AttachStart(c) \/ AttachSteps(c) PROVE AttachInv'
    <3>1. ClientFits(c)'
      BY <2>2, AttachStartFits, ReadLogFits, ReplyFits, SubscribeFits DEF AttachSteps
    <3>2. \A d \in Client : ClientFits(d)'
      BY <2>2, <3>1, OthersKeepFitting
    <3> QED
      BY <2>2, <3>2, HandlerKeepsType DEF AttachInv
  <2>3. ASSUME NEW c \in Client, NEW k \in Attach, Forward(c, k) \/ Aborted(c, k)
        PROVE  AttachInv'
    BY <2>3, ForwarderKeepsType, ForwarderStepFits DEF AttachInv
  <2>4. CASE UNCHANGED attachVars
    <3>1. AttachTypeOK'
      BY <2>4 DEF AttachInv, AttachTypeOK, attachVars
    <3>2. ReaderFits'
      BY <2>4 DEF AttachInv, ReaderFits, ExitedSent, attachVars
    <3>3. \A c \in Client : ClientFits(c)'
      BY <2>4, ClientLeftAlone DEF AttachInv, attachVars
    <3> QED
      BY <3>1, <3>2, <3>3 DEF AttachInv
  <2> QED
    BY <2>1, <2>2, <2>3, <2>4, <2>5 DEF AttachNext
<1> QED
  BY <1>1, <1>2, PTL DEF AttachSpec

\* All live output is queued behind the latest replay, that of its own attach in order and with
\* at most the one chunk twice that the replay may end with; the rest is what forwarders already
\* told to stop send on (Attach in server.rs).
THEOREM LiveComesAfterReplay == AttachSpec => []LiveFollowsReplay
<1>1. AttachInv => LiveFollowsReplay
  <2> SUFFICES ASSUME AttachInv, NEW c \in Client, NEW j \in DOMAIN out[c], out[c][j].kind = "live"
               PROVE  LET f == out[c][j]
                          first == out[c][1]
                      IN /\ first.kind = "replay" /\ f.attach <= first.attach
                         /\ f.attach = first.attach => first.n <= f.n
                         /\ f.attach < first.attach => fwd[c][f.attach].at \in {"aborted", "ended"}
                         /\ \A h \in 2..(j - 1) :
                              out[c][h].kind = "live" /\ out[c][h].attach = f.attach => out[c][h].n < f.n
    BY DEF LiveFollowsReplay
  <2> DEFINE k == out[c][j].attach
  <2>1. ClientFits(c) /\ k \in Attach /\ LiveOf(c, j, k) /\ fwd[c][k] \in Forwarder
    BY QueueHoldsFrames DEF AttachInv, AttachTypeOK, LiveOf
  <2>2. 1 \in DOMAIN out[c]
    <3>1. out[c] \in Seq(Frame)
      BY DEF AttachInv, AttachTypeOK
    <3> QED
      BY <3>1, LenProperties
  <2>3. out[c][1].kind = "replay"
    BY <2>1, <2>2 DEF ClientFits, QueueFits
  <2>4. /\ fwd[c][k].at # "none"
        /\ k = out[c][1].attach => out[c][1].n <= out[c][j].n
        /\ \A h \in 2..(j - 1) : LiveOf(c, h, k) => out[c][h].n < out[c][j].n
    BY <2>1 DEF ClientFits, QueueFits, FrameFollows
  <2>5. /\ k <= out[c][1].attach
        /\ k < out[c][1].attach => fwd[c][k].at # "live"
    BY <2>1, <2>4 DEF ClientFits, QueueFits, ForwarderFollows
  <2>6. fwd[c][k].at \in {"none", "live", "aborted", "ended"}
    BY <2>1 DEF Forwarder
  <2> QED
    BY <2>3, <2>4, <2>5, <2>6 DEF LiveOf
<1> QED
  BY <1>1, AttachInductive, PTL

\* A client that was attached before the end of the run is told of it before its forwarder
\* ends, however far behind it was.
THEOREM EndIsTold == AttachSpec => []ExitTold
<1>1. AttachInv => ExitTold
  BY DEF AttachInv, ClientFits, ExitToldTo, ExitTold, Current
<1> QED
  BY <1>1, AttachInductive, PTL
================================================================================
