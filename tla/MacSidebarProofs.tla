---------------------------- MODULE MacSidebarProofs ----------------------------
(***************************************************************************)
(* What the sidebar of the macOS client makes of what it hears, for any    *)
(* number of machines, sessions and spaces, and however often connections  *)
(* drop, the client is started again and a list comes late.                *)
(***************************************************************************)
EXTENDS MacSidebar, SequenceTheorems, TLAPS

(***************************************************************************)
(* Types.                                                                  *)
(***************************************************************************)
Event == List \cup [kind : {"up"}]
Request == [kind : {"list"}] \cup [kind : {"create"}, name : Name] \cup [kind : {"kill"}, id : Sid]

\* A client has its fields; of most of them the type matters here.
ClientOK(c) ==
  /\ c = [sessions |-> c.sessions, spaces |-> c.spaces, members |-> c.members,
          showing |-> c.showing, waiting |-> c.waiting, filter |-> c.filter,
          selection |-> c.selection, lastSelection |-> c.lastSelection,
          last |-> c.last, done |-> c.done, banners |-> c.banners]
  /\ c.sessions \in [Sid -> Session \cup {None}]
  /\ c.spaces \subseteq Space /\ c.members \in [Space -> SUBSET Sid]
  /\ c.last \in [Sid -> Activity \cup {None}]
  /\ c.done \subseteq Sid
  /\ c.banners \in [Sid -> Nat]

DaemonsOK ==
  /\ table \in [Sid -> Session \cup {None}] /\ unused \subseteq Sid
  /\ answer \in [Vm -> List \cup {None}]
  /\ worked \in [Sid -> Nat] /\ late \in Nat

WiresOK ==
  /\ requests \in [Vm -> Seq(Request)]
  /\ events \in [Vm -> Seq(Event)]
  /\ \A v \in Vm \ up : requests[v] = <<>> /\ answer[v] = None

(***************************************************************************)
(* What a machine has told and the client has yet to hear, and in the end  *)
(* the answer its handler has in hand.                                     *)
(***************************************************************************)
Stream(v) == IF answer[v] = None THEN events[v] ELSE Append(events[v], answer[v])

IsList(e) == e.kind = "sessions"
IsNew(e) == IsList(e) /\ ~e.old
Has(e, s) == e.list[s] # None

\* The client has, or once had, the session in its hands.
Known(c, s) == c.sessions[s] # None \/ \E sp \in Space : s \in c.members[sp]

\* As long as a session is there, whoever has heard of it goes on hearing of it, by its name.
HeardFit(s) ==
  LET q == Stream(VmOf[s]) IN
  table[s] # None =>
    /\ \A i, j \in DOMAIN q : i < j /\ IsList(q[i]) /\ Has(q[i], s) /\ IsNew(q[j]) => Has(q[j], s)
    /\ Known(client, s) => \A j \in DOMAIN q : IsNew(q[j]) => Has(q[j], s)
    /\ \A i \in DOMAIN q : IsList(q[i]) /\ Has(q[i], s) => q[i].list[s].name = table[s].name

\* Nobody has heard of an id that has not been given out.
UnheardFit(s) ==
  LET q == Stream(VmOf[s]) IN
  s \in unused =>
    /\ ~Known(client, s) /\ client.last[s] = None /\ table[s] = None
    /\ \A i \in DOMAIN q : IsList(q[i]) => ~Has(q[i], s)

\* A session is in one space at most.
OneHome(c) == \A sp, t \in Space : c.members[sp] \cap c.members[t] # {} => sp = t

(***************************************************************************)
(* Each list was read after so many stretches of work (w), and so was the  *)
(* latest that counts for the client (b).  Who was at work in one list and *)
(* is not in a later one has ended a stretch between them.                 *)
(***************************************************************************)
Over(x) == x # None /\ x.activity \notin Busy
AtWork(x) == x # None /\ x.activity \in Busy

InTurn(q, w, s) ==
  /\ \A i, j \in DOMAIN q : i < j /\ IsNew(q[i]) /\ IsNew(q[j]) =>
       /\ w[i] <= w[j]
       /\ AtWork(q[i].list[s]) /\ Over(q[j].list[s]) => w[i] < w[j]
  /\ \A i \in DOMAIN q : IsNew(q[i]) /\ AtWork(q[i].list[s]) /\ Over(table[s]) => w[i] < worked[s]

CountFit(q, b, w, s) ==
  /\ client.banners[s] <= b + late
  /\ \A i \in DOMAIN q : IsNew(q[i]) => b <= w[i]
  /\ \/ client.last[s] \notin Busy
     \/ client.banners[s] < b + late
     \/ /\ \A i \in DOMAIN q : IsNew(q[i]) /\ Over(q[i].list[s]) => b < w[i]
        /\ Over(table[s]) => b < worked[s]

TurnsFit(s) ==
  LET q == Stream(VmOf[s]) IN
  \E b \in 0..worked[s], w \in [DOMAIN q -> 0..worked[s]] : InTurn(q, w, s) /\ CountFit(q, b, w, s)

\* A dot is on a session that is listed and idle, and was when it was last heard of.
DotsFit(c) ==
  \A s \in c.done : c.sessions[s] # None /\ c.sessions[s].activity = "idle" /\ c.last[s] = "idle"

Fit(s) == HeardFit(s) /\ UnheardFit(s) /\ TurnsFit(s)

SidebarInv ==
  /\ ClientOK(client) /\ DaemonsOK /\ WiresOK
  /\ \A s \in Sid : Fit(s)
  /\ OneHome(client) /\ DotsFit(client)


(***************************************************************************)
(* What the methods of the client leave of it.                             *)
(***************************************************************************)
\* All that matters here but the spaces and who is in them.
SameEars(c, d) == d.sessions = c.sessions /\ d.last = c.last /\ d.done = c.done /\ d.banners = c.banners
SameBook(c, d) == d.spaces = c.spaces /\ d.members = c.members

LEMMA PruneSelectionKeeps ==
  ASSUME NEW c, ClientOK(c), NEW previous
  PROVE  LET d == PruneSelection(c, previous)
         IN ClientOK(d) /\ SameEars(c, d) /\ SameBook(c, d) /\ d.showing = c.showing
<1> DEFINE next == Neighbour(c.selection, previous, Rows(c))
           d == PruneSelection(c, previous)
<1> SUFFICES ClientOK(d) /\ SameEars(c, d) /\ SameBook(c, d) /\ d.showing = c.showing
  OBVIOUS
<1>1. d = c \/ d = [c EXCEPT !.selection = next]
  BY DEF PruneSelection
<1> HIDE DEF next, d
<1>2. CASE d = c
  BY <1>2 DEF SameEars, SameBook
<1>3. CASE d = [c EXCEPT !.selection = next]
  BY <1>3 DEF ClientOK, SameEars, SameBook
<1> QED
  BY <1>1, <1>2, <1>3

LEMMA SelectSpaceKeeps ==
  ASSUME NEW c, ClientOK(c), NEW next
  PROVE  LET d == SelectSpace(c, next)
         IN ClientOK(d) /\ SameEars(c, d) /\ SameBook(c, d)
<1> DEFINE d == SelectSpace(c, next)
           left == [c EXCEPT !.lastSelection[c.showing] = c.selection, !.showing = next]
<1> SUFFICES ClientOK(d) /\ SameEars(c, d) /\ SameBook(c, d)
  OBVIOUS
<1>1. ClientOK(left) /\ SameEars(c, left) /\ SameBook(c, left)
  <2> DEFINE x == [c.lastSelection EXCEPT ![c.showing] = c.selection]
             noted == [c EXCEPT !.lastSelection = x]
  <2>1. left = [noted EXCEPT !.showing = next]
    BY DEF ClientOK
  <2> HIDE DEF left, x
  <2>2. ClientOK(noted) /\ SameEars(c, noted) /\ SameBook(c, noted)
    BY DEF ClientOK, SameEars, SameBook
  <2> HIDE DEF noted
  <2> QED
    BY <2>1, <2>2 DEF ClientOK, SameEars, SameBook
<1> HIDE DEF left
<1>2. d = c \/ \E x : d = [left EXCEPT !.selection = x]
  BY DEF SelectSpace, left
<1> HIDE DEF d
<1>3. CASE d = c
  BY <1>3 DEF SameEars, SameBook
<1>4. CASE \E x : d = [left EXCEPT !.selection = x]
  BY <1>1, <1>4 DEF ClientOK, SameEars, SameBook
<1> QED
  BY <1>2, <1>3, <1>4

LEMMA MovedKeeps ==
  ASSUME NEW c, ClientOK(c), OneHome(c), NEW keys \in SUBSET Sid, NEW sp
  PROVE  LET d == Moved(c, keys, sp)
         IN /\ ClientOK(d) /\ SameEars(c, d) /\ OneHome(d) /\ d.spaces = c.spaces
            /\ \A t \in Space : d.members[t] \subseteq c.members[t] \cup keys
<1> DEFINE d == Moved(c, keys, sp)
           m == [t \in Space |-> IF t = sp /\ sp \in c.spaces THEN c.members[t] \cup keys ELSE c.members[t] \ keys]
<1>1. d = [c EXCEPT !.members = m]
  BY DEF Moved
<1>2. m \in [Space -> SUBSET Sid] /\ \A t \in Space : m[t] \subseteq c.members[t] \cup keys
  BY DEF ClientOK
<1>3. \A t, u \in Space : m[t] \cap m[u] # {} => t = u
  <2> SUFFICES ASSUME NEW t \in Space, NEW u \in Space, NEW s \in m[t], s \in m[u] PROVE t = u
    OBVIOUS
  <2>1. CASE s \in keys
    BY <2>1
  <2>2. CASE s \notin keys
    BY <2>2 DEF OneHome
  <2> QED
    BY <2>1, <2>2
<1> HIDE DEF m, d
<1>4. ClientOK(d) /\ SameEars(c, d) /\ d.members = m /\ d.spaces = c.spaces
  BY <1>1, <1>2 DEF ClientOK, SameEars
<1> QED
  BY <1>2, <1>3, <1>4 DEF OneHome, d

\* Commands move sessions that are listed.
LEMMA MovableListed == Movable(client) \subseteq Listed(client) /\ Listed(client) \subseteq Sid
BY DEF Movable, SelectedSid, Listed

\* A command about spaces: whoever is in one was in one, or is listed.
Filing(c, d) ==
  /\ ClientOK(d) /\ OneHome(d) /\ SameEars(c, d)
  /\ \A sp \in Space : d.members[sp] \subseteq c.members[sp] \cup Listed(c)

LEMMA FilingGoesOn ==
  ASSUME NEW c, NEW d, Filing(c, d), NEW e, ClientOK(e), SameEars(d, e), SameBook(d, e)
  PROVE  Filing(c, e)
BY DEF Filing, SameEars, SameBook, OneHome

(***************************************************************************)
(* What a list leaves of the client.                                       *)
(***************************************************************************)
\* A claim moves fresh sessions only, and only those there is a request for.
LEMMA ClaimCreatedKeeps ==
  ASSUME NEW c, ClientOK(c), OneHome(c), NEW fresh \in SUBSET Sid
  PROVE  LET d == ClaimCreated(c, fresh)
         IN /\ ClientOK(d) /\ OneHome(d) /\ SameEars(c, d) /\ d.spaces = c.spaces
            /\ \A sp \in Space : d.members[sp] \subseteq c.members[sp] \cup fresh
            /\ \A sp \in Space : \A s \in c.members[sp] \ d.members[sp] :
                 s \in fresh /\ Awaited(c, s) # {}
<1> DEFINE d == ClaimCreated(c, fresh)
           claimed == {s \in fresh : \E i \in Awaited(c, s) : Takes(c, fresh, s, i)}
           Asked(s) == c.waiting[CHOOSE i \in Awaited(c, s) : Takes(c, fresh, s, i)].space
           m == [sp \in Space |-> (c.members[sp] \ claimed) \cup
                   {s \in claimed : Asked(s) = sp /\ sp \in c.spaces}]
<1>1. PICK w : d = [c EXCEPT !.waiting = w, !.members = m]
  BY DEF ClaimCreated
<1>2. claimed \subseteq fresh /\ \A s \in claimed : Awaited(c, s) # {}
  OBVIOUS
<1> HIDE DEF claimed, Asked, d
<1>3. m \in [Space -> SUBSET Sid] /\ \A sp \in Space : m[sp] \subseteq c.members[sp] \cup fresh
  BY <1>2 DEF ClientOK
<1>4. \A t, u \in Space : m[t] \cap m[u] # {} => t = u
  <2> SUFFICES ASSUME NEW t \in Space, NEW u \in Space, NEW s \in m[t], s \in m[u] PROVE t = u
    OBVIOUS
  <2>1. CASE s \in claimed
    BY <2>1
  <2>2. CASE s \notin claimed
    BY <2>2 DEF OneHome
  <2> QED
    BY <2>1, <2>2
<1>5. \A sp \in Space : \A s \in c.members[sp] \ m[sp] : s \in claimed
  OBVIOUS
<1> HIDE DEF m
<1>6. ClientOK(d) /\ SameEars(c, d) /\ d.members = m /\ d.spaces = c.spaces
  <2> DEFINE e == [c EXCEPT !.waiting = w]
  <2>1. ClientOK(e) /\ SameEars(c, e) /\ e.spaces = c.spaces
    BY DEF ClientOK, SameEars
  <2>2. d = [e EXCEPT !.members = m]
    BY <1>1 DEF ClientOK
  <2> HIDE DEF e
  <2> QED
    BY <1>3, <2>1, <2>2 DEF ClientOK, SameEars
<1> QED
  BY <1>2, <1>3, <1>4, <1>5, <1>6 DEF OneHome, d

LEMMA PruneKeeps ==
  ASSUME NEW c, ClientOK(c), OneHome(c), NEW v, NEW alive
  PROVE  LET d == Prune(c, v, alive)
         IN /\ ClientOK(d) /\ OneHome(d) /\ SameEars(c, d) /\ d.spaces = c.spaces
            /\ \A sp \in Space : d.members[sp] = {s \in c.members[sp] : VmOf[s] # v \/ s \in alive}
<1> DEFINE d == Prune(c, v, alive)
           m == [sp \in Space |-> {s \in c.members[sp] : VmOf[s] # v \/ s \in alive}]
<1>1. d = [c EXCEPT !.members = m]
  BY DEF Prune
<1>2. m \in [Space -> SUBSET Sid] /\ \A t, u \in Space : m[t] \cap m[u] # {} => t = u
  BY DEF ClientOK, OneHome
<1>3. \A sp \in Space : m[sp] = {s \in c.members[sp] : VmOf[s] # v \/ s \in alive}
  OBVIOUS
<1> HIDE DEF m, d
<1>4. ClientOK(d) /\ SameEars(c, d) /\ d.members = m /\ d.spaces = c.spaces
  BY <1>1, <1>2 DEF ClientOK, SameEars
<1> QED
  BY <1>2, <1>3, <1>4 DEF OneHome, d

LEMMA ForgetIs ==
  ASSUME NEW c, ClientOK(c), NEW gone
  PROVE  LET d == Forget(c, gone)
         IN /\ ClientOK(d) /\ SameBook(c, d) /\ d.sessions = c.sessions /\ d.banners = c.banners
            /\ d.done = c.done \ gone
            /\ \A s \in Sid : d.last[s] = IF s \in gone THEN None ELSE c.last[s]
<1> DEFINE d == Forget(c, gone)
           l == [s \in Sid |-> IF s \in gone THEN None ELSE c.last[s]]
           e == [c EXCEPT !.last = l]
<1>1. d = [e EXCEPT !.done = c.done \ gone]
  BY DEF Forget, ClientOK
<1>2. l \in [Sid -> Activity \cup {None}] /\ \A s \in Sid : l[s] = IF s \in gone THEN None ELSE c.last[s]
  BY DEF ClientOK
<1> HIDE DEF l, d
<1>3. ClientOK(e) /\ SameBook(c, e) /\ e.sessions = c.sessions /\ e.banners = c.banners /\ e.done = c.done /\ e.last = l
  BY <1>2 DEF ClientOK, SameBook
<1> HIDE DEF e
<1>4. /\ ClientOK(d) /\ SameBook(c, d) /\ d.sessions = c.sessions /\ d.banners = c.banners
      /\ d.done = c.done \ gone /\ d.last = l
  BY <1>1, <1>3 DEF ClientOK, SameBook
<1> QED
  BY <1>2, <1>4 DEF d

\* The sessions of a list that the user has just seen end a turn.
Ends(c, list) ==
  {s \in list : c.last[s] \notin {None, c.sessions[s].activity} /\ Finished(c, s)}

LEMMA ReadActivityIs ==
  ASSUME NEW c, ClientOK(c), NEW list \in SUBSET Sid, \A s \in list : c.sessions[s] # None
  PROVE  LET d == ReadActivity(c, list)
             read == {s \in list : c.last[s] \notin {None, c.sessions[s].activity} /\ c.sessions[s].activity # "idle"}
         IN /\ ClientOK(d) /\ SameBook(c, d) /\ d.sessions = c.sessions
            /\ d.done = (c.done \ read) \cup Ends(c, list)
            /\ \A s \in Sid : d.last[s] = IF s \in list THEN c.sessions[s].activity ELSE c.last[s]
            /\ \A s \in Sid : d.banners[s] = IF s \in Ends(c, list) THEN c.banners[s] + 1 ELSE c.banners[s]
<1> DEFINE d == ReadActivity(c, list)
           read == {s \in list : c.last[s] \notin {None, c.sessions[s].activity} /\ c.sessions[s].activity # "idle"}
           l == [s \in Sid |-> IF s \in list THEN c.sessions[s].activity ELSE c.last[s]]
           b == [s \in Sid |-> IF s \in Ends(c, list) THEN c.banners[s] + 1 ELSE c.banners[s]]
           o == (c.done \ read) \cup Ends(c, list)
           e == [c EXCEPT !.last = l]
           f == [e EXCEPT !.done = o]
<1>1. d = [f EXCEPT !.banners = b]
  <2> DEFINE changed == {s \in list : c.last[s] \notin {None, c.sessions[s].activity}}
  <2>1. {s \in changed : Finished(c, s)} = Ends(c, list) /\ {s \in changed : c.sessions[s].activity # "idle"} = read
    BY DEF Ends
  <2>2. d = [c EXCEPT !.last = l, !.done = o, !.banners = b]
    BY <2>1 DEF ReadActivity, Reading
  <2> HIDE DEF d, l, o, b
  <2> QED
    BY <2>2 DEF ClientOK
<1>2. /\ l \in [Sid -> Activity \cup {None}]
      /\ \A s \in Sid : l[s] = IF s \in list THEN c.sessions[s].activity ELSE c.last[s]
  <2>1. \A s \in list : c.sessions[s].activity \in Activity
    BY DEF ClientOK, Session
  <2> QED
    BY <2>1 DEF ClientOK
<1>3. /\ b \in [Sid -> Nat]
      /\ \A s \in Sid : b[s] = IF s \in Ends(c, list) THEN c.banners[s] + 1 ELSE c.banners[s]
  BY DEF ClientOK
<1>4. o \subseteq Sid
  BY DEF ClientOK, Ends
<1> HIDE DEF l, b, o, d
<1>5. ClientOK(e) /\ SameBook(c, e) /\ e.sessions = c.sessions /\ e.last = l
  BY <1>2 DEF ClientOK, SameBook
<1> HIDE DEF e
<1>6. ClientOK(f) /\ SameBook(c, f) /\ f.sessions = c.sessions /\ f.last = l /\ f.done = o
  BY <1>4, <1>5 DEF ClientOK, SameBook
<1> HIDE DEF f
<1>7. ClientOK(d) /\ SameBook(c, d) /\ d.sessions = c.sessions /\ d.last = l /\ d.done = o /\ d.banners = b
  BY <1>1, <1>3, <1>6 DEF ClientOK, SameBook
<1> QED
  BY <1>2, <1>3, <1>7 DEF d, o

\* All that a list does to the client.
LEMMA OnSessionsIs ==
  ASSUME ClientOK(client), OneHome(client), DotsFit(client),
         NEW v \in Vm, NEW list \in [Sid -> Session \cup {None}], OnSessions(v, list)
  PROVE  /\ ClientOK(client') /\ OneHome(client') /\ DotsFit(client')
         /\ \A s \in Sid : client'.sessions[s] = IF VmOf[s] = v THEN list[s] ELSE client.sessions[s]
         /\ \A s \in Sid : VmOf[s] = v /\ list[s] # None =>
              /\ client'.last[s] = list[s].activity
              /\ \/ client'.banners[s] = client.banners[s]
                 \/ /\ client'.banners[s] = client.banners[s] + 1
                    /\ client.last[s] \in Busy /\ list[s].activity = "idle"
         /\ \A s \in Sid : VmOf[s] = v /\ list[s] = None =>
              client'.last[s] \in {None, client.last[s]} /\ client'.banners[s] = client.banners[s]
         /\ \A s \in Sid : VmOf[s] # v =>
              client'.last[s] = client.last[s] /\ client'.banners[s] = client.banners[s]
         /\ \A sp \in Space : \A s \in client'.members[sp] \ client.members[sp] :
              VmOf[s] = v /\ list[s] # None
         /\ \A sp \in Space : \A s \in client.members[sp] \ client'.members[sp] :
              /\ VmOf[s] = v
              /\ \/ list[s] = None
                 \/ \E i \in DOMAIN client.waiting :
                      client.waiting[i].vm = v /\ client.waiting[i].name = list[s].name
<1> DEFINE alive == {s \in On(v) : list[s] # None}
           known == Listed(client) \cap On(v)
           all == [s \in Sid |-> IF s \in On(v) THEN list[s] ELSE client.sessions[s]]
           told == [client EXCEPT !.sessions = all]
           claimed == ClaimCreated(told, alive \ known)
           pruned == Prune(claimed, v, alive)
           forgot == Forget(pruned, known \ alive)
           heard == ReadActivity(forgot, alive)
<1>1. client' = PruneSelection(heard, Rows(client))
  BY DEF OnSessions
<1>2. alive \subseteq Sid /\ alive \ known \subseteq Sid /\ \A s \in Sid : s \in alive <=> VmOf[s] = v /\ list[s] # None
  BY DEF On
<1>3. known \subseteq Sid /\ \A s \in Sid : s \in known <=> VmOf[s] = v /\ client.sessions[s] # None
  BY DEF On, Listed
<1>4. /\ ClientOK(told) /\ OneHome(told) /\ told.last = client.last /\ told.done = client.done
      /\ told.banners = client.banners /\ SameBook(client, told) /\ told.sessions = all /\ told.waiting = client.waiting
  <2>1. all \in [Sid -> Session \cup {None}]
    BY DEF ClientOK
  <2> HIDE DEF all
  <2> QED
    BY <2>1 DEF ClientOK, OneHome, SameBook
<1>5. \A s \in Sid : all[s] = IF VmOf[s] = v THEN list[s] ELSE client.sessions[s]
  BY DEF On
<1> HIDE DEF alive, known, all, told
<1>6. /\ ClientOK(claimed) /\ OneHome(claimed) /\ SameEars(told, claimed) /\ claimed.spaces = told.spaces
      /\ \A sp \in Space : claimed.members[sp] \subseteq told.members[sp] \cup (alive \ known)
      /\ \A sp \in Space : \A s \in told.members[sp] \ claimed.members[sp] :
           s \in alive \ known /\ Awaited(told, s) # {}
  BY <1>2, <1>4, ClaimCreatedKeeps
<1> HIDE DEF claimed
<1>7. /\ ClientOK(pruned) /\ OneHome(pruned) /\ SameEars(claimed, pruned)
      /\ \A sp \in Space : pruned.members[sp] = {s \in claimed.members[sp] : VmOf[s] # v \/ s \in alive}
  BY <1>6, PruneKeeps
<1> HIDE DEF pruned
<1>8. /\ ClientOK(forgot) /\ SameBook(pruned, forgot) /\ forgot.sessions = pruned.sessions
      /\ forgot.banners = pruned.banners /\ forgot.done = pruned.done \ (known \ alive)
      /\ \A s \in Sid : forgot.last[s] = IF s \in known \ alive THEN None ELSE pruned.last[s]
  BY <1>7, ForgetIs
<1> HIDE DEF forgot
<1> DEFINE read == {s \in alive : forgot.last[s] \notin {None, forgot.sessions[s].activity}
                                  /\ forgot.sessions[s].activity # "idle"}
           ends == Ends(forgot, alive)
<1>9. /\ forgot.sessions = all /\ forgot.banners = client.banners /\ forgot.done = client.done \ (known \ alive)
      /\ \A s \in Sid : forgot.last[s] = IF s \in known \ alive THEN None ELSE client.last[s]
      /\ forgot.members = pruned.members /\ OneHome(forgot)
  BY <1>4, <1>6, <1>7, <1>8 DEF SameEars, SameBook, OneHome
<1>10. \A s \in alive : forgot.sessions[s] # None /\ forgot.sessions[s] = list[s]
  BY <1>2, <1>5, <1>9
<1>11. /\ ClientOK(heard) /\ SameBook(forgot, heard) /\ heard.sessions = forgot.sessions
       /\ heard.done = (forgot.done \ read) \cup ends
       /\ \A s \in Sid : heard.last[s] = IF s \in alive THEN forgot.sessions[s].activity ELSE forgot.last[s]
       /\ \A s \in Sid : heard.banners[s] = IF s \in ends THEN forgot.banners[s] + 1 ELSE forgot.banners[s]
  BY <1>2, <1>8, <1>10, ReadActivityIs
<1>12. \A s \in ends : s \in alive /\ client.last[s] \in Busy /\ list[s].activity = "idle"
  BY <1>2, <1>9, <1>10 DEF Ends, Finished
<1> HIDE DEF heard, ends, read
<1>13. ClientOK(client') /\ SameEars(heard, client') /\ SameBook(heard, client')
  BY <1>1, <1>11, PruneSelectionKeeps
<1>14. /\ client'.sessions = all /\ client'.members = pruned.members
       /\ client'.done = ((client.done \ (known \ alive)) \ read) \cup ends
       /\ \A s \in Sid : client'.last[s] = IF s \in alive THEN list[s].activity
                                           ELSE IF s \in known THEN None ELSE client.last[s]
       /\ \A s \in Sid : client'.banners[s] = IF s \in ends THEN client.banners[s] + 1 ELSE client.banners[s]
  BY <1>2, <1>9, <1>10, <1>11, <1>13 DEF SameEars, SameBook
<1>15. OneHome(client')
  BY <1>9, <1>14 DEF OneHome
<1>16. DotsFit(client')
  <2> SUFFICES ASSUME NEW s \in client'.done
               PROVE  client'.sessions[s] # None /\ client'.sessions[s].activity = "idle" /\ client'.last[s] = "idle"
    BY DEF DotsFit
  <2>0. s \in Sid
    BY <1>13 DEF ClientOK
  <2>1. CASE s \in ends
    BY <1>2, <1>5, <1>12, <1>14, <2>0, <2>1
  <2>2. CASE s \notin ends
    <3>1. s \in client.done /\ s \notin known \ alive /\ s \notin read
      BY <1>14, <2>2
    <3>2. client.sessions[s] # None /\ client.sessions[s].activity = "idle" /\ client.last[s] = "idle"
      BY <3>1 DEF DotsFit
    <3>3. CASE VmOf[s] = v
      <4>1. s \in alive /\ forgot.last[s] = "idle" /\ forgot.sessions[s] = list[s] /\ "idle" # None
        BY <1>3, <1>9, <1>10, <2>0, <3>1, <3>2, <3>3, SidebarAssumption DEF Activity
      <4>2. list[s].activity = "idle"
        BY <3>1, <4>1 DEF read
      <4> QED
        BY <1>2, <1>5, <1>14, <2>0, <4>1, <4>2
    <3>4. CASE VmOf[s] # v
      BY <1>2, <1>3, <1>5, <1>14, <2>0, <3>2, <3>4
    <3> QED
      BY <3>3, <3>4
  <2> QED
    BY <2>1, <2>2
<1>17. \A sp \in Space : \A s \in client'.members[sp] \ client.members[sp] : VmOf[s] = v /\ list[s] # None
  BY <1>2, <1>4, <1>6, <1>7, <1>14 DEF SameBook
<1>18. ASSUME NEW sp \in Space, NEW s \in client.members[sp] \ client'.members[sp]
       PROVE  /\ VmOf[s] = v
              /\ \/ list[s] = None
                 \/ \E i \in DOMAIN client.waiting :
                      client.waiting[i].vm = v /\ client.waiting[i].name = list[s].name
  <2>0. s \in Sid
    BY DEF ClientOK
  <2>1. CASE s \in claimed.members[sp]
    BY <1>2, <1>7, <1>14, <2>0, <2>1
  <2>2. CASE s \notin claimed.members[sp]
    <3>1. s \in alive /\ Awaited(told, s) # {}
      BY <1>4, <1>6, <2>2 DEF SameBook
    <3>2. told.sessions[s] = list[s] /\ VmOf[s] = v
      BY <1>2, <1>4, <1>5, <2>0, <3>1
    <3> QED
      BY <1>4, <3>1, <3>2 DEF Awaited
  <2> QED
    BY <2>1, <2>2
<1>19. ASSUME NEW s \in Sid, VmOf[s] = v, list[s] # None
       PROVE  /\ client'.last[s] = list[s].activity
              /\ \/ client'.banners[s] = client.banners[s]
                 \/ /\ client'.banners[s] = client.banners[s] + 1
                    /\ client.last[s] \in Busy /\ list[s].activity = "idle"
  BY <1>2, <1>12, <1>14, <1>19
<1>20. ASSUME NEW s \in Sid, VmOf[s] = v, list[s] = None
       PROVE  client'.last[s] \in {None, client.last[s]} /\ client'.banners[s] = client.banners[s]
  BY <1>2, <1>12, <1>14, <1>20
<1>21. ASSUME NEW s \in Sid, VmOf[s] # v
       PROVE  client'.last[s] = client.last[s] /\ client'.banners[s] = client.banners[s]
  BY <1>2, <1>3, <1>12, <1>14, <1>21
<1>22. \A s \in Sid : client'.sessions[s] = IF VmOf[s] = v THEN list[s] ELSE client.sessions[s]
  BY <1>5, <1>14
<1> HIDE DEF known
<1> QED
  BY <1>13, <1>15, <1>16, <1>17, <1>18, <1>19, <1>20, <1>21, <1>22

(***************************************************************************)
(* What the steps leave of a session's stream.                             *)
(***************************************************************************)
\* Nothing happens to a session itself, and the client has heard nothing new of it.
Still(s) ==
  /\ table'[s] = table[s] /\ (s \in unused' => s \in unused) /\ worked'[s] = worked[s]
  /\ client'.last[s] = client.last[s] /\ client'.banners[s] = client.banners[s]
  /\ Known(client', s) => Known(client, s)
  /\ late' \in Nat /\ late' >= late

\* The turns that go with a stream.
LEMMA TurnsGoOn ==
  ASSUME NEW s, NEW c \in 0..worked'[s], NEW z \in [DOMAIN Stream(VmOf[s])' -> 0..worked'[s]],
         \A i, j \in DOMAIN Stream(VmOf[s])' :
           i < j /\ IsNew(Stream(VmOf[s])'[i]) /\ IsNew(Stream(VmOf[s])'[j]) =>
             /\ z[i] <= z[j]
             /\ AtWork(Stream(VmOf[s])'[i].list[s]) /\ Over(Stream(VmOf[s])'[j].list[s]) => z[i] < z[j],
         \A i \in DOMAIN Stream(VmOf[s])' : IsNew(Stream(VmOf[s])'[i]) =>
           /\ AtWork(Stream(VmOf[s])'[i].list[s]) /\ Over(table'[s]) => z[i] < worked'[s]
           /\ c <= z[i],
         client'.banners[s] <= c + late',
         \/ client'.last[s] \notin Busy
         \/ client'.banners[s] < c + late'
         \/ /\ \A i \in DOMAIN Stream(VmOf[s])' :
                 IsNew(Stream(VmOf[s])'[i]) /\ Over(Stream(VmOf[s])'[i].list[s]) => c < z[i]
            /\ Over(table'[s]) => c < worked'[s]
  PROVE  TurnsFit(s)'
<1> DEFINE p == Stream(VmOf[s])'
<1>1. \E b \in 0..worked'[s], w \in [DOMAIN p -> 0..worked'[s]] :
        /\ (\A i, j \in DOMAIN p : i < j /\ IsNew(p[i]) /\ IsNew(p[j]) =>
              /\ w[i] <= w[j]
              /\ AtWork(p[i].list[s]) /\ Over(p[j].list[s]) => w[i] < w[j])
        /\ (\A i \in DOMAIN p : IsNew(p[i]) /\ AtWork(p[i].list[s]) /\ Over(table'[s]) => w[i] < worked'[s])
        /\ client'.banners[s] <= b + late'
        /\ (\A i \in DOMAIN p : IsNew(p[i]) => b <= w[i])
        /\ \/ client'.last[s] \notin Busy
           \/ client'.banners[s] < b + late'
           \/ /\ \A i \in DOMAIN p : IsNew(p[i]) /\ Over(p[i].list[s]) => b < w[i]
              /\ Over(table'[s]) => b < worked'[s]
  BY Zenon
<1> HIDE DEF p
<1> QED
  BY <1>1 DEF TurnsFit, InTurn, CountFit, p, IsNew, IsList, AtWork, Over

\* Of the lists that were on their way some may be gone.
LEMMA FewerFit ==
  ASSUME NEW s \in Sid, ClientOK(client), DaemonsOK, Fit(s), Still(s), NEW f,
         \A i \in DOMAIN Stream(VmOf[s])' : IsList(Stream(VmOf[s])'[i]) =>
           f[i] \in DOMAIN Stream(VmOf[s]) /\ Stream(VmOf[s])'[i] = Stream(VmOf[s])[f[i]],
         \A i, j \in DOMAIN Stream(VmOf[s])' :
           i < j /\ IsList(Stream(VmOf[s])'[i]) /\ IsList(Stream(VmOf[s])'[j]) => f[i] < f[j]
  PROVE  Fit(s)'
<1> DEFINE q == Stream(VmOf[s])
           p == Stream(VmOf[s])'
<1>1. \A i \in DOMAIN p : IsList(p[i]) => f[i] \in DOMAIN q /\ p[i] = q[f[i]]
  OBVIOUS
<1>2. \A i, j \in DOMAIN p : i < j /\ IsList(p[i]) /\ IsList(p[j]) => f[i] < f[j]
  OBVIOUS
<1>3. \A e : IsNew(e) => IsList(e)
  BY DEF IsNew
<1>4. worked[s] \in Nat /\ late \in Nat /\ client.banners[s] \in Nat
  BY DEF DaemonsOK, ClientOK
<1>5. HeardFit(s)'
  <2>1. /\ \A i, j \in DOMAIN q : i < j /\ IsList(q[i]) /\ Has(q[i], s) /\ IsNew(q[j]) => Has(q[j], s)
        /\ Known(client, s) => \A j \in DOMAIN q : IsNew(q[j]) => Has(q[j], s)
        /\ \A i \in DOMAIN q : IsList(q[i]) /\ Has(q[i], s) => q[i].list[s].name = table[s].name
        \/ table[s] = None
    BY DEF Fit, HeardFit
  <2> HIDE DEF q, p
  <2>2. CASE table[s] = None
    BY <2>2 DEF HeardFit, Still
  <2>3. CASE table[s] # None
    <3>1. \A i, j \in DOMAIN p : i < j /\ IsList(p[i]) /\ Has(p[i], s) /\ IsNew(p[j]) => Has(p[j], s)
      BY <1>1, <1>2, <1>3, <2>1, <2>3
    <3>2. Known(client', s) => \A j \in DOMAIN p : IsNew(p[j]) => Has(p[j], s)
      BY <1>1, <1>3, <2>1, <2>3 DEF Still
    <3>3. \A i \in DOMAIN p : IsList(p[i]) /\ Has(p[i], s) => p[i].list[s].name = table'[s].name
      BY <1>1, <2>1, <2>3 DEF Still
    <3> QED
      BY <3>1, <3>2, <3>3 DEF HeardFit, p, Has, IsNew, IsList, Known
  <2> QED
    BY <2>2, <2>3
<1>6. UnheardFit(s)'
  <2>1. s \in unused => /\ ~Known(client, s) /\ client.last[s] = None /\ table[s] = None
                        /\ \A i \in DOMAIN q : IsList(q[i]) => ~Has(q[i], s)
    BY DEF Fit, UnheardFit
  <2> HIDE DEF q, p
  <2>2. s \in unused' => /\ ~Known(client', s) /\ client'.last[s] = None /\ table'[s] = None
                         /\ \A i \in DOMAIN p : IsList(p[i]) => ~Has(p[i], s)
    BY <1>1, <2>1 DEF Still
  <2> QED
    BY <2>2 DEF UnheardFit, p, Has, IsList, Known
<1>7. TurnsFit(s)'
  <2>1. PICK b \in 0..worked[s], w \in [DOMAIN q -> 0..worked[s]] : InTurn(q, w, s) /\ CountFit(q, b, w, s)
    BY DEF Fit, TurnsFit
  <2> DEFINE u == [i \in DOMAIN p |-> IF IsList(p[i]) THEN w[f[i]] ELSE 0]
  <2> HIDE DEF q, p
  <2>2. u \in [DOMAIN p -> 0..worked[s]] /\ \A i \in DOMAIN p : IsList(p[i]) => u[i] = w[f[i]]
    BY <1>1, <1>4
  <2> HIDE DEF u
  <2>3. /\ \A i, j \in DOMAIN p : i < j /\ IsNew(p[i]) /\ IsNew(p[j]) =>
             /\ u[i] <= u[j]
             /\ AtWork(p[i].list[s]) /\ Over(p[j].list[s]) => u[i] < u[j]
        /\ \A i \in DOMAIN p : IsNew(p[i]) /\ AtWork(p[i].list[s]) /\ Over(table'[s]) => u[i] < worked'[s]
    BY <1>1, <1>2, <1>3, <2>1, <2>2 DEF InTurn, Still
  <2>4. client'.banners[s] <= b + late' /\ \A i \in DOMAIN p : IsNew(p[i]) => b <= u[i]
    BY <1>1, <1>3, <1>4, <2>1, <2>2 DEF CountFit, Still
  <2>5. \/ client'.last[s] \notin Busy
        \/ client'.banners[s] < b + late'
        \/ /\ \A i \in DOMAIN p : IsNew(p[i]) /\ Over(p[i].list[s]) => b < u[i]
           /\ Over(table'[s]) => b < worked'[s]
    <3>1. CASE client.last[s] \notin Busy
      BY <3>1 DEF Still
    <3>2. CASE client.banners[s] < b + late
      BY <1>4, <2>1, <3>2 DEF Still
    <3>3. CASE /\ \A i \in DOMAIN q : IsNew(q[i]) /\ Over(q[i].list[s]) => b < w[i]
               /\ Over(table[s]) => b < worked[s]
      BY <1>1, <1>3, <2>2, <3>3 DEF Still
    <3> QED
      BY <2>1, <3>1, <3>2, <3>3 DEF CountFit
  <2>6. b \in 0..worked'[s] /\ u \in [DOMAIN p -> 0..worked'[s]]
    BY <2>2 DEF Still
  <2> QED
    BY <2>3, <2>4, <2>5, <2>6, TurnsGoOn DEF p
<1> QED
  BY <1>5, <1>6, <1>7 DEF Fit

\* Nothing is told either.
LEMMA QuietFit ==
  ASSUME NEW s \in Sid, ClientOK(client), DaemonsOK, Fit(s), Still(s),
         Stream(VmOf[s])' = Stream(VmOf[s]), \A i \in DOMAIN Stream(VmOf[s]) : i \in Nat
  PROVE  Fit(s)'
<1> DEFINE q == Stream(VmOf[s])
           f == [i \in DOMAIN q |-> i]
<1>1. \A i \in DOMAIN q : f[i] = i
  OBVIOUS
<1> HIDE DEF f
<1>2. \A i \in DOMAIN Stream(VmOf[s])' : IsList(Stream(VmOf[s])'[i]) =>
        f[i] \in DOMAIN q /\ Stream(VmOf[s])'[i] = q[f[i]]
  BY <1>1
<1>3. \A i, j \in DOMAIN Stream(VmOf[s])' :
        i < j /\ IsList(Stream(VmOf[s])'[i]) /\ IsList(Stream(VmOf[s])'[j]) => f[i] < f[j]
  BY <1>1
<1> QED
  BY <1>2, <1>3, FewerFit

\* The list as it is now has been read; what comes after it in the stream is old.
LEMMA MoreFit ==
  ASSUME NEW s \in Sid, ClientOK(client), DaemonsOK, Fit(s), Still(s), NEW m \in Nat,
         \A i \in DOMAIN Stream(VmOf[s])' :
           /\ i \in Nat
           /\ i < m => i \in DOMAIN Stream(VmOf[s]) /\ Stream(VmOf[s])'[i] = Stream(VmOf[s])[i]
           /\ i = m => Stream(VmOf[s])'[i].list[s] = table[s]
           /\ i > m => /\ ~IsNew(Stream(VmOf[s])'[i])
                       /\ IsList(Stream(VmOf[s])'[i]) =>
                            \E k \in DOMAIN Stream(VmOf[s]) :
                              /\ IsList(Stream(VmOf[s])[k])
                              /\ Stream(VmOf[s])[k].list = Stream(VmOf[s])'[i].list
  PROVE  Fit(s)'
<1> DEFINE q == Stream(VmOf[s])
           p == Stream(VmOf[s])'
<1>1. \A i \in DOMAIN p :
        /\ i \in Nat
        /\ i < m => i \in DOMAIN q /\ p[i] = q[i]
        /\ i = m => p[i].list[s] = table[s]
        /\ i > m => /\ ~IsNew(p[i])
                    /\ IsList(p[i]) => \E k \in DOMAIN q : IsList(q[k]) /\ q[k].list = p[i].list
  OBVIOUS
<1>2. \A i \in DOMAIN p : i < m \/ i = m \/ i > m
  BY <1>1
<1>3. \A e : IsNew(e) => IsList(e)
  BY DEF IsNew
<1>4. worked[s] \in Nat /\ late \in Nat /\ client.banners[s] \in Nat
  BY DEF DaemonsOK, ClientOK
<1>5. HeardFit(s)'
  <2>1. /\ \A i, j \in DOMAIN q : i < j /\ IsList(q[i]) /\ Has(q[i], s) /\ IsNew(q[j]) => Has(q[j], s)
        /\ Known(client, s) => \A j \in DOMAIN q : IsNew(q[j]) => Has(q[j], s)
        /\ \A i \in DOMAIN q : IsList(q[i]) /\ Has(q[i], s) => q[i].list[s].name = table[s].name
        \/ table[s] = None
    BY DEF Fit, HeardFit
  <2> HIDE DEF q, p
  <2>2. CASE table[s] = None
    BY <2>2 DEF HeardFit, Still
  <2>3. CASE table[s] # None
    <3>1. ASSUME NEW i \in DOMAIN p, NEW j \in DOMAIN p, i < j, IsList(p[i]), Has(p[i], s), IsNew(p[j])
          PROVE  Has(p[j], s)
      <4>1. CASE j = m
        BY <1>1, <2>3, <4>1 DEF Has
      <4>2. CASE j < m
        <5>1. i < m
          BY <1>1, <3>1, <4>2
        <5> QED
          BY <1>1, <2>1, <2>3, <3>1, <4>2, <5>1
      <4> QED
        BY <1>1, <1>2, <3>1, <4>1, <4>2
    <3>2. ASSUME Known(client', s), NEW j \in DOMAIN p, IsNew(p[j]) PROVE Has(p[j], s)
      <4>1. CASE j = m
        BY <1>1, <2>3, <4>1 DEF Has
      <4>2. CASE j < m
        BY <1>1, <2>1, <2>3, <3>2, <4>2 DEF Still
      <4> QED
        BY <1>1, <1>2, <3>2, <4>1, <4>2
    <3>3. ASSUME NEW i \in DOMAIN p, IsList(p[i]), Has(p[i], s) PROVE p[i].list[s].name = table'[s].name
      <4>1. CASE i = m
        BY <1>1, <4>1 DEF Still
      <4>2. CASE i < m
        BY <1>1, <2>1, <2>3, <3>3, <4>2 DEF Still
      <4>3. CASE i > m
        BY <1>1, <2>1, <2>3, <3>3, <4>3 DEF Still, Has
      <4> QED
        BY <1>2, <4>1, <4>2, <4>3
    <3> QED
      BY <3>1, <3>2, <3>3 DEF HeardFit, p, Has, IsNew, IsList, Known
  <2> QED
    BY <2>2, <2>3
<1>6. UnheardFit(s)'
  <2>1. s \in unused => /\ ~Known(client, s) /\ client.last[s] = None /\ table[s] = None
                        /\ \A i \in DOMAIN q : IsList(q[i]) => ~Has(q[i], s)
    BY DEF Fit, UnheardFit
  <2> HIDE DEF q, p
  <2>2. ASSUME s \in unused', NEW i \in DOMAIN p, IsList(p[i]) PROVE ~Has(p[i], s)
    <3>1. s \in unused
      BY <2>2 DEF Still
    <3>2. CASE i = m
      BY <1>1, <2>1, <3>1, <3>2 DEF Has
    <3>3. CASE i < m
      BY <1>1, <2>1, <2>2, <3>1, <3>3
    <3>4. CASE i > m
      BY <1>1, <2>1, <2>2, <3>1, <3>4 DEF Has
    <3> QED
      BY <1>2, <3>2, <3>3, <3>4
  <2>3. s \in unused' => ~Known(client', s) /\ client'.last[s] = None /\ table'[s] = None
    BY <2>1 DEF Still
  <2> QED
    BY <2>2, <2>3 DEF UnheardFit, p, Has, IsList, Known
<1>7. TurnsFit(s)'
  <2>1. PICK b \in 0..worked[s], w \in [DOMAIN q -> 0..worked[s]] : InTurn(q, w, s) /\ CountFit(q, b, w, s)
    BY DEF Fit, TurnsFit
  <2> DEFINE u == [i \in DOMAIN p |-> IF i < m THEN w[i] ELSE worked[s]]
  <2> HIDE DEF q, p
  <2>2. /\ u \in [DOMAIN p -> 0..worked[s]]
        /\ \A i \in DOMAIN p : i < m => u[i] = w[i]
        /\ \A i \in DOMAIN p : i = m => u[i] = worked[s]
    BY <1>1, <1>4
  <2> HIDE DEF u
  <2>3. ASSUME NEW i \in DOMAIN p, NEW j \in DOMAIN p, i < j, IsNew(p[i]), IsNew(p[j])
        PROVE  u[i] <= u[j] /\ (AtWork(p[i].list[s]) /\ Over(p[j].list[s]) => u[i] < u[j])
    <3>1. i < m
      BY <1>1, <1>2, <2>3
    <3>2. CASE j = m
      BY <1>1, <1>4, <2>1, <2>2, <2>3, <3>1, <3>2 DEF InTurn
    <3>3. CASE j < m
      BY <1>1, <2>1, <2>2, <2>3, <3>1, <3>3 DEF InTurn
    <3> QED
      BY <1>1, <1>2, <2>3, <3>2, <3>3
  <2>4. ASSUME NEW i \in DOMAIN p, IsNew(p[i])
        PROVE  /\ AtWork(p[i].list[s]) /\ Over(table'[s]) => u[i] < worked'[s]
               /\ b <= u[i]
    <3>1. CASE i = m
      BY <1>1, <2>1, <2>2, <3>1 DEF AtWork, Over, Still
    <3>2. CASE i < m
      BY <1>1, <2>1, <2>2, <2>4, <3>2 DEF InTurn, CountFit, Still
    <3> QED
      BY <1>1, <1>2, <2>4, <3>1, <3>2
  <2>5. client'.banners[s] <= b + late'
    BY <1>4, <2>1 DEF CountFit, Still
  <2>6. \/ client'.last[s] \notin Busy
        \/ client'.banners[s] < b + late'
        \/ /\ \A i \in DOMAIN p : IsNew(p[i]) /\ Over(p[i].list[s]) => b < u[i]
           /\ Over(table'[s]) => b < worked'[s]
    <3>1. CASE client.last[s] \notin Busy
      BY <3>1 DEF Still
    <3>2. CASE client.banners[s] < b + late
      BY <1>4, <2>1, <3>2 DEF Still
    <3>3. CASE /\ \A i \in DOMAIN q : IsNew(q[i]) /\ Over(q[i].list[s]) => b < w[i]
               /\ Over(table[s]) => b < worked[s]
      <4>1. ASSUME NEW i \in DOMAIN p, IsNew(p[i]), Over(p[i].list[s]) PROVE b < u[i]
        BY <1>1, <1>2, <2>2, <3>3, <4>1
      <4> QED
        BY <3>3, <4>1 DEF Still
    <3> QED
      BY <2>1, <3>1, <3>2, <3>3 DEF CountFit
  <2>7. b \in 0..worked'[s] /\ u \in [DOMAIN p -> 0..worked'[s]]
    BY <2>2 DEF Still
  <2> QED
    BY <2>3, <2>4, <2>5, <2>6, <2>7, TurnsGoOn DEF p
<1> QED
  BY <1>5, <1>6, <1>7 DEF Fit

\* The client hears the first list of the stream.  Its reading is the one that counts from
\* now on, unless the list is an old one: what it may repeat then is paid by late.
LEMMA HeardOfFit ==
  ASSUME NEW s \in Sid, ClientOK(client), DaemonsOK, Fit(s),
         table'[s] = table[s], worked'[s] = worked[s], s \in unused' => s \in unused,
         NEW e \in List, 1 \in DOMAIN Stream(VmOf[s]), Stream(VmOf[s])[1] = e,
         \A i \in DOMAIN Stream(VmOf[s])' :
           i \in Nat /\ 1 <= i /\ i + 1 \in DOMAIN Stream(VmOf[s]) /\ Stream(VmOf[s])'[i] = Stream(VmOf[s])[i + 1],
         late' = (IF e.old THEN late + 1 ELSE late),
         Known(client', s) => Known(client, s) \/ Has(e, s),
         Has(e, s) => /\ client'.last[s] = e.list[s].activity
                      /\ \/ client'.banners[s] = client.banners[s]
                         \/ /\ client'.banners[s] = client.banners[s] + 1
                            /\ client.last[s] \in Busy /\ e.list[s].activity = "idle",
         ~Has(e, s) => client'.last[s] \in {None, client.last[s]} /\ client'.banners[s] = client.banners[s]
  PROVE  Fit(s)'
<1> DEFINE q == Stream(VmOf[s])
           p == Stream(VmOf[s])'
<1>1. \A i \in DOMAIN p : i \in Nat /\ 1 <= i /\ i + 1 \in DOMAIN q /\ p[i] = q[i + 1]
  OBVIOUS
<1>2. 1 \in DOMAIN q /\ q[1] = e /\ IsList(e) /\ (~e.old => IsNew(e))
  BY DEF IsNew, IsList, List
<1>3. \A f : IsNew(f) => IsList(f)
  BY DEF IsNew
<1>4. worked[s] \in Nat /\ late \in Nat /\ client.banners[s] \in Nat
  BY DEF DaemonsOK, ClientOK
<1>5. HeardFit(s)'
  <2>1. /\ \A i, j \in DOMAIN q : i < j /\ IsList(q[i]) /\ Has(q[i], s) /\ IsNew(q[j]) => Has(q[j], s)
        /\ Known(client, s) => \A j \in DOMAIN q : IsNew(q[j]) => Has(q[j], s)
        /\ \A i \in DOMAIN q : IsList(q[i]) /\ Has(q[i], s) => q[i].list[s].name = table[s].name
        \/ table[s] = None
    BY DEF Fit, HeardFit
  <2> HIDE DEF q, p
  <2>2. CASE table[s] = None
    BY <2>2 DEF HeardFit
  <2>3. CASE table[s] # None
    <3>1. ASSUME NEW i \in DOMAIN p, NEW j \in DOMAIN p, i < j, IsList(p[i]), Has(p[i], s), IsNew(p[j])
          PROVE  Has(p[j], s)
      <4>1. i + 1 \in DOMAIN q /\ j + 1 \in DOMAIN q /\ i + 1 < j + 1 /\ p[i] = q[i + 1] /\ p[j] = q[j + 1]
        BY <1>1, <3>1
      <4> QED
        BY <2>1, <2>3, <3>1, <4>1
    <3>2. ASSUME Known(client', s), NEW j \in DOMAIN p, IsNew(p[j]) PROVE Has(p[j], s)
      <4>1. j + 1 \in DOMAIN q /\ 1 < j + 1 /\ p[j] = q[j + 1]
        BY <1>1
      <4> QED
        BY <1>2, <2>1, <2>3, <3>2, <4>1
    <3>3. ASSUME NEW i \in DOMAIN p, IsList(p[i]), Has(p[i], s) PROVE p[i].list[s].name = table'[s].name
      <4>1. i + 1 \in DOMAIN q /\ p[i] = q[i + 1]
        BY <1>1
      <4> QED
        BY <2>1, <2>3, <3>3, <4>1
    <3> QED
      BY <3>1, <3>2, <3>3 DEF HeardFit, p, Has, IsNew, IsList, Known
  <2> QED
    BY <2>2, <2>3
<1>6. UnheardFit(s)'
  <2>1. s \in unused => /\ ~Known(client, s) /\ client.last[s] = None /\ table[s] = None
                        /\ \A i \in DOMAIN q : IsList(q[i]) => ~Has(q[i], s)
    BY DEF Fit, UnheardFit
  <2> HIDE DEF q, p
  <2>2. s \in unused' => /\ ~Known(client', s) /\ client'.last[s] = None /\ table'[s] = None
                         /\ \A i \in DOMAIN p : IsList(p[i]) => ~Has(p[i], s)
    BY <1>1, <1>2, <2>1
  <2> QED
    BY <2>2 DEF UnheardFit, p, Has, IsList, Known
<1>7. TurnsFit(s)'
  <2>1. PICK b \in 0..worked[s], w \in [DOMAIN q -> 0..worked[s]] : InTurn(q, w, s) /\ CountFit(q, b, w, s)
    BY DEF Fit, TurnsFit
  <2> DEFINE u == [i \in DOMAIN p |-> w[i + 1]]
             c == IF ~e.old /\ Has(e, s) THEN w[1] ELSE b
  <2> HIDE DEF q, p
  <2>2. u \in [DOMAIN p -> 0..worked'[s]] /\ \A i \in DOMAIN p : u[i] = w[i + 1]
    BY <1>1, <1>4
  <2> HIDE DEF u
  <2>3. \A i, j \in DOMAIN p : i < j /\ IsNew(p[i]) /\ IsNew(p[j]) =>
          u[i] <= u[j] /\ (AtWork(p[i].list[s]) /\ Over(p[j].list[s]) => u[i] < u[j])
    <3> SUFFICES ASSUME NEW i \in DOMAIN p, NEW j \in DOMAIN p, i < j, IsNew(p[i]), IsNew(p[j])
                 PROVE  u[i] <= u[j] /\ (AtWork(p[i].list[s]) /\ Over(p[j].list[s]) => u[i] < u[j])
      OBVIOUS
    <3>1. i + 1 \in DOMAIN q /\ j + 1 \in DOMAIN q /\ i + 1 < j + 1 /\ p[i] = q[i + 1] /\ p[j] = q[j + 1]
      BY <1>1
    <3> QED
      BY <2>1, <2>2, <3>1 DEF InTurn
  <2>4. \A i \in DOMAIN p : IsNew(p[i]) =>
          /\ AtWork(p[i].list[s]) /\ Over(table'[s]) => u[i] < worked'[s]
          /\ b <= u[i]
    BY <1>1, <2>1, <2>2 DEF InTurn, CountFit
  <2>5. /\ client.banners[s] <= b + late
        /\ \/ client.last[s] \notin Busy
           \/ client.banners[s] < b + late
           \/ \A i \in DOMAIN q : IsNew(q[i]) /\ Over(q[i].list[s]) => b < w[i]
    BY <2>1 DEF CountFit
  <2>6. CASE ~e.old /\ Has(e, s)
    <3>1. c = w[1] /\ w[1] \in 0..worked[s] /\ b <= w[1] /\ IsNew(e) /\ late' = late
      BY <1>2, <2>1, <2>6 DEF CountFit
    <3>2. client'.banners[s] <= c + late'
      <4>1. CASE client'.banners[s] = client.banners[s]
        BY <1>4, <2>1, <2>5, <3>1, <4>1
      <4>2. CASE /\ client'.banners[s] = client.banners[s] + 1
                 /\ client.last[s] \in Busy /\ e.list[s].activity = "idle"
        <5>1. Over(e.list[s])
          BY <2>6, <4>2 DEF Over, Has, Busy
        <5>2. client.banners[s] < b + late \/ b < w[1]
          BY <1>2, <2>5, <3>1, <4>2, <5>1
        <5> QED
          BY <1>4, <2>1, <2>5, <3>1, <4>2, <5>2
      <4> QED
        BY <2>6, <4>1, <4>2
    <3>3. \A i \in DOMAIN p : IsNew(p[i]) =>
            w[1] <= u[i] /\ (AtWork(e.list[s]) /\ Over(p[i].list[s]) => w[1] < u[i])
      <4> SUFFICES ASSUME NEW i \in DOMAIN p, IsNew(p[i])
                   PROVE  w[1] <= u[i] /\ (AtWork(e.list[s]) /\ Over(p[i].list[s]) => w[1] < u[i])
        OBVIOUS
      <4>1. i + 1 \in DOMAIN q /\ 1 < i + 1 /\ p[i] = q[i + 1]
        BY <1>1
      <4> QED
        BY <1>2, <2>1, <2>2, <3>1, <4>1 DEF InTurn
    <3>4. AtWork(e.list[s]) /\ Over(table'[s]) => w[1] < worked'[s]
      BY <1>2, <2>1, <3>1 DEF InTurn
    <3>5. client'.last[s] \in Busy => AtWork(e.list[s])
      BY <2>6 DEF AtWork, Has
    <3> HIDE DEF c
    <3>6. \/ client'.last[s] \notin Busy
          \/ client'.banners[s] < c + late'
          \/ /\ \A i \in DOMAIN p : IsNew(p[i]) /\ Over(p[i].list[s]) => c < u[i]
             /\ Over(table'[s]) => c < worked'[s]
      BY <3>1, <3>3, <3>4, <3>5
    <3>7. c \in 0..worked'[s] /\ \A i \in DOMAIN p : IsNew(p[i]) =>
            /\ AtWork(p[i].list[s]) /\ Over(table'[s]) => u[i] < worked'[s]
            /\ c <= u[i]
      BY <2>4, <3>1, <3>3
    <3> QED
      BY <2>2, <2>3, <3>2, <3>6, <3>7, TurnsGoOn DEF p
  <2>7. CASE e.old /\ Has(e, s)
    <3>1. late' = late + 1 /\ c = b
      BY <2>7
    <3>2. client'.banners[s] <= b + late' /\ (client'.last[s] \notin Busy \/ client'.banners[s] < b + late')
      <4>1. CASE client'.banners[s] = client.banners[s]
        BY <1>4, <2>1, <2>5, <3>1, <4>1
      <4>2. CASE client'.banners[s] = client.banners[s] + 1 /\ e.list[s].activity = "idle"
        BY <1>4, <2>1, <2>5, <2>7, <3>1, <4>2 DEF Busy
      <4> QED
        BY <2>7, <4>1, <4>2
    <3> QED
      BY <2>1, <2>2, <2>3, <2>4, <3>2, TurnsGoOn DEF p
  <2>8. CASE ~Has(e, s)
    <3>0. None \notin Busy /\ late' \in Nat /\ late <= late'
      BY <1>4, SidebarAssumption DEF Busy, Activity, List
    <3>1. client'.banners[s] = client.banners[s] /\ (client'.last[s] \in Busy => client'.last[s] = client.last[s])
      BY <2>8, <3>0
    <3>2. client'.banners[s] <= b + late'
      BY <1>4, <2>1, <2>5, <3>0, <3>1
    <3>3. \/ client'.last[s] \notin Busy
          \/ client'.banners[s] < b + late'
          \/ /\ \A i \in DOMAIN p : IsNew(p[i]) /\ Over(p[i].list[s]) => b < u[i]
             /\ Over(table'[s]) => b < worked'[s]
      <4>1. CASE client'.last[s] \notin Busy
        BY <4>1
      <4>2. CASE client.banners[s] < b + late
        BY <1>4, <2>1, <3>0, <3>1, <4>2
      <4>3. CASE /\ \A i \in DOMAIN q : IsNew(q[i]) /\ Over(q[i].list[s]) => b < w[i]
                 /\ Over(table[s]) => b < worked[s]
        BY <1>1, <2>2, <4>3
      <4> QED
        BY <2>1, <3>1, <4>1, <4>2, <4>3 DEF CountFit
    <3> QED
      BY <2>1, <2>2, <2>3, <2>4, <3>2, <3>3, TurnsGoOn DEF p
  <2> QED
    BY <2>6, <2>7, <2>8
<1> QED
  BY <1>5, <1>6, <1>7 DEF Fit

\* The client starts with nothing.
LEMMA EmptyFit ==
  ASSUME NEW s \in Sid, Stream(VmOf[s]) = <<>>, s \in unused => table[s] = None /\ ~Known(client, s),
         client.last[s] = None, client.banners[s] = 0, late = 0, worked[s] = 0
  PROVE  Fit(s)
<1>1. DOMAIN <<>> = {} /\ None \notin Busy /\ 0 \in 0..0 /\ 0 <= 0 + 0
  BY SidebarAssumption DEF Busy, Activity
<1>2. HeardFit(s) /\ UnheardFit(s)
  BY <1>1 DEF HeardFit, UnheardFit
<1>3. InTurn(<<>>, <<>>, s) /\ CountFit(<<>>, 0, <<>>, s)
  BY <1>1 DEF InTurn, CountFit
<1>4. <<>> \in [DOMAIN <<>> -> 0..worked[s]] /\ 0 \in 0..worked[s]
  BY <1>1
<1>5. TurnsFit(s)
  BY <1>3, <1>4 DEF TurnsFit
<1> QED
  BY <1>2, <1>5 DEF Fit

\* Of an id that is given out nobody has heard.
LEMMA CreatedFit ==
  ASSUME NEW s \in Sid, ClientOK(client), DaemonsOK, Fit(s), s \in unused,
         Over(table'[s]), s \notin unused',
         UNCHANGED <<Stream(VmOf[s]), client, worked, late>>
  PROVE  Fit(s)'
<1> DEFINE q == Stream(VmOf[s])
           p == Stream(VmOf[s])'
<1>1. p = q
  OBVIOUS
<1>2. /\ ~Known(client, s) /\ client.last[s] = None /\ table[s] = None
      /\ \A i \in DOMAIN q : IsList(q[i]) => ~Has(q[i], s)
  BY DEF Fit, UnheardFit
<1>3. PICK b \in 0..worked[s], w \in [DOMAIN q -> 0..worked[s]] : InTurn(q, w, s) /\ CountFit(q, b, w, s)
  BY DEF Fit, TurnsFit
<1> HIDE DEF q, p
<1>4. \A i \in DOMAIN p : IsList(p[i]) => ~Has(p[i], s)
  BY <1>1, <1>2
<1>5. ~Known(client', s)
  BY <1>2
<1>6. HeardFit(s)' /\ UnheardFit(s)'
  <2>1. HeardFit(s)'
    BY <1>4, <1>5 DEF HeardFit, p, Has, IsNew, IsList, Known
  <2> QED
    BY <2>1 DEF UnheardFit
<1>7. TurnsFit(s)'
  <2>1. b \in 0..worked'[s] /\ w \in [DOMAIN p -> 0..worked'[s]]
    BY <1>1, <1>3
  <2>2. \A i, j \in DOMAIN p : i < j /\ IsNew(p[i]) /\ IsNew(p[j]) =>
          w[i] <= w[j] /\ (AtWork(p[i].list[s]) /\ Over(p[j].list[s]) => w[i] < w[j])
    BY <1>1, <1>3 DEF InTurn
  <2>3. \A i \in DOMAIN p : IsNew(p[i]) =>
          /\ AtWork(p[i].list[s]) /\ Over(table'[s]) => w[i] < worked'[s]
          /\ b <= w[i]
    BY <1>1, <1>3, <1>4 DEF CountFit, AtWork, Has, IsNew
  <2>4. client'.banners[s] <= b + late' /\ client'.last[s] \notin Busy
    BY <1>2, <1>3, SidebarAssumption DEF CountFit, Busy, Activity
  <2> QED
    BY <2>1, <2>2, <2>3, <2>4, TurnsGoOn DEF p
<1> QED
  BY <1>6, <1>7 DEF Fit

\* A session that is killed is never heard of from then on.
LEMMA KilledFit ==
  ASSUME NEW s \in Sid, ClientOK(client), DaemonsOK, Fit(s), table'[s] = None,
         UNCHANGED <<Stream(VmOf[s]), client, unused, worked, late>>
  PROVE  Fit(s)'
<1> DEFINE q == Stream(VmOf[s])
           p == Stream(VmOf[s])'
<1>1. p = q
  OBVIOUS
<1>2. s \in unused => /\ ~Known(client, s) /\ client.last[s] = None
                      /\ \A i \in DOMAIN q : IsList(q[i]) => ~Has(q[i], s)
  BY DEF Fit, UnheardFit
<1>3. PICK b \in 0..worked[s], w \in [DOMAIN q -> 0..worked[s]] : InTurn(q, w, s) /\ CountFit(q, b, w, s)
  BY DEF Fit, TurnsFit
<1>4. HeardFit(s)'
  BY DEF HeardFit
<1> HIDE DEF q, p
<1>5. UnheardFit(s)'
  BY <1>1, <1>2 DEF UnheardFit, p, Has, IsList, Known
<1>6. TurnsFit(s)'
  <2>1. b \in 0..worked'[s] /\ w \in [DOMAIN p -> 0..worked'[s]] /\ ~Over(table'[s])
    BY <1>1, <1>3 DEF Over
  <2>2. \A i, j \in DOMAIN p : i < j /\ IsNew(p[i]) /\ IsNew(p[j]) =>
          w[i] <= w[j] /\ (AtWork(p[i].list[s]) /\ Over(p[j].list[s]) => w[i] < w[j])
    BY <1>1, <1>3 DEF InTurn
  <2>3. \A i \in DOMAIN p : IsNew(p[i]) =>
          /\ AtWork(p[i].list[s]) /\ Over(table'[s]) => w[i] < worked'[s]
          /\ b <= w[i]
    BY <1>1, <1>3, <2>1 DEF CountFit
  <2>4. client'.banners[s] <= b + late'
    BY <1>3 DEF CountFit
  <2>5. \/ client'.last[s] \notin Busy
        \/ client'.banners[s] < b + late'
        \/ /\ \A i \in DOMAIN p : IsNew(p[i]) /\ Over(p[i].list[s]) => b < w[i]
           /\ Over(table'[s]) => b < worked'[s]
    BY <1>1, <1>3, <2>1 DEF CountFit
  <2> QED
    BY <2>1, <2>2, <2>3, <2>4, <2>5, TurnsGoOn DEF p
<1> QED
  BY <1>4, <1>5, <1>6 DEF Fit

\* A stretch of work that ends is counted as it ends.
LEMMA ActsFit ==
  ASSUME NEW s \in Sid, ClientOK(client), DaemonsOK, Fit(s), NEW a \in Activity,
         table[s] # None, table'[s] # None, table'[s].activity = a, table'[s].name = table[s].name,
         worked'[s] = (IF table[s].activity \in Busy /\ a \notin Busy THEN worked[s] + 1 ELSE worked[s]),
         UNCHANGED <<Stream(VmOf[s]), client, unused, late>>
  PROVE  Fit(s)'
<1> DEFINE q == Stream(VmOf[s])
           p == Stream(VmOf[s])'
<1>1. p = q
  OBVIOUS
<1>2. /\ \A i, j \in DOMAIN q : i < j /\ IsList(q[i]) /\ Has(q[i], s) /\ IsNew(q[j]) => Has(q[j], s)
      /\ Known(client, s) => \A j \in DOMAIN q : IsNew(q[j]) => Has(q[j], s)
      /\ \A i \in DOMAIN q : IsList(q[i]) /\ Has(q[i], s) => q[i].list[s].name = table[s].name
  BY DEF Fit, HeardFit
<1>3. PICK b \in 0..worked[s], w \in [DOMAIN q -> 0..worked[s]] : InTurn(q, w, s) /\ CountFit(q, b, w, s)
  BY DEF Fit, TurnsFit
<1>4. worked[s] \in Nat /\ worked'[s] \in Nat /\ worked[s] <= worked'[s]
  BY DEF DaemonsOK
<1>5. UnheardFit(s)'
  BY DEF Fit, UnheardFit
<1> HIDE DEF q, p
<1>6. HeardFit(s)'
  BY <1>1, <1>2 DEF HeardFit, p, Has, IsNew, IsList, Known
<1>7. TurnsFit(s)'
  <2>1. b \in 0..worked'[s] /\ w \in [DOMAIN p -> 0..worked'[s]]
    BY <1>1, <1>3, <1>4
  <2>2. \A i, j \in DOMAIN p : i < j /\ IsNew(p[i]) /\ IsNew(p[j]) =>
          w[i] <= w[j] /\ (AtWork(p[i].list[s]) /\ Over(p[j].list[s]) => w[i] < w[j])
    BY <1>1, <1>3 DEF InTurn
  <2>3. Over(table'[s]) => /\ a \notin Busy
                           /\ worked[s] < worked'[s] \/ (Over(table[s]) /\ worked'[s] = worked[s])
    BY <1>4 DEF Over
  <2>4. \A i \in DOMAIN p : IsNew(p[i]) =>
          /\ AtWork(p[i].list[s]) /\ Over(table'[s]) => w[i] < worked'[s]
          /\ b <= w[i]
    <3> SUFFICES ASSUME NEW i \in DOMAIN p, IsNew(p[i])
                 PROVE  /\ AtWork(p[i].list[s]) /\ Over(table'[s]) => w[i] < worked'[s]
                        /\ b <= w[i]
      OBVIOUS
    <3>1. i \in DOMAIN q /\ p[i] = q[i] /\ w[i] \in 0..worked[s]
      BY <1>1, <1>3
    <3> QED
      BY <1>3, <1>4, <2>3, <3>1 DEF CountFit, InTurn
  <2>5. client'.banners[s] <= b + late'
    BY <1>3 DEF CountFit
  <2>6. \/ client'.last[s] \notin Busy
        \/ client'.banners[s] < b + late'
        \/ /\ \A i \in DOMAIN p : IsNew(p[i]) /\ Over(p[i].list[s]) => b < w[i]
           /\ Over(table'[s]) => b < worked'[s]
    <3>1. CASE client.last[s] \notin Busy
      BY <3>1
    <3>2. CASE client.banners[s] < b + late
      BY <3>2
    <3>3. CASE /\ \A i \in DOMAIN q : IsNew(q[i]) /\ Over(q[i].list[s]) => b < w[i]
               /\ Over(table[s]) => b < worked[s]
      BY <1>1, <1>3, <1>4, <2>3, <3>3
    <3> QED
      BY <1>3, <3>1, <3>2, <3>3 DEF CountFit
  <2> QED
    BY <2>1, <2>2, <2>4, <2>5, <2>6, TurnsGoOn DEF p
<1> QED
  BY <1>5, <1>6, <1>7 DEF Fit

(***************************************************************************)
(* The steps of the user.                                                  *)
(***************************************************************************)
LEMMA SendKeeps ==
  ASSUME WiresOK, NEW v \in Vm, NEW req \in Request, Send(v, req)
  PROVE  requests' \in [Vm -> Seq(Request)] /\ \A u \in Vm \ up : requests'[u] = <<>>
<1>1. requests \in [Vm -> Seq(Request)] /\ \A u \in Vm \ up : requests[u] = <<>>
  BY DEF WiresOK
<1>2. Append(requests[v], req) \in Seq(Request)
  BY <1>1, AppendProperties
<1>3. requests' = IF v \in up THEN [requests EXCEPT ![v] = Append(requests[v], req)] ELSE requests
  BY DEF Send
<1> QED
  BY <1>1, <1>2, <1>3

\* What a change of one other field leaves.
LEMMA LooksKeep ==
  ASSUME NEW c, ClientOK(c), NEW x
  PROVE  /\ ClientOK([c EXCEPT !.selection = x]) /\ SameEars(c, [c EXCEPT !.selection = x])
         /\ SameBook(c, [c EXCEPT !.selection = x])
         /\ ClientOK([c EXCEPT !.filter = x]) /\ SameEars(c, [c EXCEPT !.filter = x])
         /\ SameBook(c, [c EXCEPT !.filter = x])
         /\ ClientOK([c EXCEPT !.waiting = x]) /\ SameEars(c, [c EXCEPT !.waiting = x])
         /\ SameBook(c, [c EXCEPT !.waiting = x])
<1>1. /\ ClientOK([c EXCEPT !.selection = x]) /\ SameEars(c, [c EXCEPT !.selection = x])
      /\ SameBook(c, [c EXCEPT !.selection = x])
  BY DEF ClientOK, SameEars, SameBook
<1>2. /\ ClientOK([c EXCEPT !.filter = x]) /\ SameEars(c, [c EXCEPT !.filter = x])
      /\ SameBook(c, [c EXCEPT !.filter = x])
  BY DEF ClientOK, SameEars, SameBook
<1>3. /\ ClientOK([c EXCEPT !.waiting = x]) /\ SameEars(c, [c EXCEPT !.waiting = x])
      /\ SameBook(c, [c EXCEPT !.waiting = x])
  BY DEF ClientOK, SameEars, SameBook
<1> QED
  BY <1>1, <1>2, <1>3

LEMMA SpacesKeep ==
  ASSUME NEW c, ClientOK(c), OneHome(c), NEW sp \in Space
  PROVE  /\ LET d == [c EXCEPT !.spaces = @ \cup {sp}]
            IN ClientOK(d) /\ SameEars(c, d) /\ OneHome(d) /\ d.members = c.members
         /\ LET d == [c EXCEPT !.spaces = @ \ {sp}, !.members[sp] = {}]
            IN /\ ClientOK(d) /\ SameEars(c, d) /\ OneHome(d)
               /\ \A t \in Space : d.members[t] \subseteq c.members[t]
<1>1. LET d == [c EXCEPT !.spaces = @ \cup {sp}]
      IN ClientOK(d) /\ SameEars(c, d) /\ OneHome(d) /\ d.members = c.members
  <2> DEFINE n == c.spaces \cup {sp}
             d == [c EXCEPT !.spaces = n]
  <2> SUFFICES ClientOK(d) /\ SameEars(c, d) /\ OneHome(d) /\ d.members = c.members
    OBVIOUS
  <2>1. n \subseteq Space
    BY DEF ClientOK
  <2> HIDE DEF n
  <2>2. ClientOK(d) /\ SameEars(c, d) /\ d.members = c.members
    BY <2>1 DEF ClientOK, SameEars
  <2> QED
    BY <2>2 DEF OneHome
<1>2. LET d == [c EXCEPT !.spaces = @ \ {sp}, !.members[sp] = {}]
      IN /\ ClientOK(d) /\ SameEars(c, d) /\ OneHome(d)
         /\ \A t \in Space : d.members[t] \subseteq c.members[t]
  <2> DEFINE m == [c.members EXCEPT ![sp] = {}]
             n == c.spaces \ {sp}
             e == [c EXCEPT !.spaces = n]
             d == [c EXCEPT !.spaces = @ \ {sp}, !.members[sp] = {}]
  <2>1. d = [e EXCEPT !.members = m]
    BY DEF ClientOK
  <2>2. /\ m \in [Space -> SUBSET Sid] /\ \A t \in Space : m[t] \subseteq c.members[t]
        /\ \A t, u \in Space : m[t] \cap m[u] # {} => t = u
    BY DEF ClientOK, OneHome
  <2>6. n \subseteq Space
    BY DEF ClientOK
  <2> HIDE DEF d, m, n
  <2>3. ClientOK(e) /\ SameEars(c, e)
    BY <2>6 DEF ClientOK, SameEars
  <2> HIDE DEF e
  <2>4. ClientOK(d) /\ SameEars(c, d) /\ d.members = m
    BY <2>1, <2>2, <2>3 DEF ClientOK, SameEars
  <2>5. OneHome(d)
    BY <2>2, <2>4 DEF OneHome
  <2> QED
    BY <2>2, <2>4, <2>5 DEF d
<1> QED
  BY <1>1, <1>2

\* Whatever the user does, who is filed somewhere was before, or is listed.
LEMMA CommandFiles ==
  ASSUME SidebarInv, Command
  PROVE  /\ Filing(client, client') /\ UNCHANGED <<daemonVars, up, events, late>>
         /\ requests' \in [Vm -> Seq(Request)] /\ \A u \in Vm \ up : requests'[u] = <<>>
<1>0. /\ ClientOK(client) /\ OneHome(client) /\ WiresOK /\ Filing(client, client)
      /\ requests \in [Vm -> Seq(Request)] /\ \A u \in Vm \ up : requests[u] = <<>>
  BY DEF SidebarInv, Filing, SameEars, WiresOK
<1>1. UNCHANGED <<daemonVars, up, events, late>>
  BY DEF Command, Create, Kill, CreateSpace, DeleteSpace, SpaceFromFolder, MoveTo, Asks
<1>2. Movable(client) \in SUBSET Sid /\ Movable(client) \subseteq Listed(client)
  BY MovableListed
<1>3. ASSUME NEW v \in Vm, NEW n \in Name, Create(v, n)
      PROVE  /\ Filing(client, client')
             /\ requests' \in [Vm -> Seq(Request)] /\ \A u \in Vm \ up : requests'[u] = <<>>
  <2>1. client' = client \/ \E w : client' = [client EXCEPT !.waiting = w]
    BY <1>3 DEF Create, Asks
  <2>2. Filing(client, client')
    BY <1>0, <2>1, LooksKeep, FilingGoesOn
  <2>3. Send(v, [kind |-> "create", name |-> n]) /\ [kind |-> "create", name |-> n] \in Request
    BY <1>3 DEF Create, Request
  <2> QED
    BY <1>0, <2>2, <2>3, SendKeeps
<1>4. ASSUME NEW s \in Sid, Kill(s)
      PROVE  /\ Filing(client, client')
             /\ requests' \in [Vm -> Seq(Request)] /\ \A u \in Vm \ up : requests'[u] = <<>>
  <2>1. client' = client /\ VmOf[s] \in Vm /\ Send(VmOf[s], [kind |-> "kill", id |-> s])
    BY <1>4, SidebarAssumption DEF Kill, Asks
  <2>2. [kind |-> "kill", id |-> s] \in Request
    BY DEF Request
  <2> QED
    BY <1>0, <2>1, <2>2, SendKeeps
<1>5. ASSUME NEW sp \in Space, CreateSpace(sp) PROVE Filing(client, client') /\ requests' = requests
  <2> DEFINE d == [client EXCEPT !.spaces = @ \cup {sp}]
  <2>1. client' = SelectSpace(d, sp) /\ requests' = requests
    BY <1>5 DEF CreateSpace, Asks
  <2>2. ClientOK(d) /\ SameEars(client, d) /\ OneHome(d) /\ d.members = client.members
    BY <1>0, SpacesKeep
  <2> HIDE DEF d
  <2>3. Filing(client, d)
    BY <2>2 DEF Filing
  <2> QED
    BY <2>1, <2>2, <2>3, SelectSpaceKeeps, FilingGoesOn
<1>6. ASSUME NEW sp \in Space, DeleteSpace(sp) PROVE Filing(client, client') /\ requests' = requests
  <2> DEFINE d == [client EXCEPT !.spaces = @ \ {sp}, !.members[sp] = {}]
  <2>1. client' = AfterDelete(d, sp) /\ requests' = requests
    BY <1>6 DEF DeleteSpace, Asks
  <2>2. ClientOK(d) /\ SameEars(client, d) /\ OneHome(d) /\ \A t \in Space : d.members[t] \subseteq client.members[t]
    BY <1>0, SpacesKeep
  <2> HIDE DEF d
  <2>3. Filing(client, d)
    BY <2>2 DEF Filing
  <2>4. (\E x : client' = SelectSpace(d, x)) \/ client' = PruneSelection(d, Rows(client))
    BY <2>1 DEF AfterDelete
  <2> QED
    BY <2>1, <2>2, <2>3, <2>4, SelectSpaceKeeps, PruneSelectionKeeps, FilingGoesOn
<1>7. ASSUME NEW sp \in Space, SpaceFromFolder(sp) PROVE Filing(client, client') /\ requests' = requests
  <2> DEFINE d == [client EXCEPT !.spaces = @ \cup {sp}]
             e == Moved(d, Movable(client), sp)
  <2>1. client' = SelectSpace(e, sp) /\ requests' = requests
    BY <1>7 DEF SpaceFromFolder, Asks
  <2>2. ClientOK(d) /\ SameEars(client, d) /\ OneHome(d) /\ d.members = client.members
    BY <1>0, SpacesKeep
  <2> HIDE DEF d
  <2>3. /\ ClientOK(e) /\ SameEars(d, e) /\ OneHome(e)
        /\ \A t \in Space : e.members[t] \subseteq d.members[t] \cup Movable(client)
    BY <1>2, <2>2, MovedKeeps
  <2> HIDE DEF e
  <2>4. Filing(client, e)
    BY <1>2, <2>2, <2>3 DEF Filing, SameEars
  <2> QED
    BY <2>1, <2>3, <2>4, SelectSpaceKeeps, FilingGoesOn
<1>8. ASSUME NEW sp \in Space \cup {None}, MoveTo(sp) PROVE Filing(client, client') /\ requests' = requests
  <2> DEFINE e == Moved(client, Movable(client), sp)
  <2>1. client' = PruneSelection(e, Rows(client)) /\ requests' = requests
    BY <1>8 DEF MoveTo, Asks
  <2>2. /\ ClientOK(e) /\ SameEars(client, e) /\ OneHome(e)
        /\ \A t \in Space : e.members[t] \subseteq client.members[t] \cup Movable(client)
    BY <1>0, <1>2, MovedKeeps
  <2> HIDE DEF e
  <2>3. Filing(client, e)
    BY <1>2, <2>2 DEF Filing
  <2> QED
    BY <2>1, <2>2, <2>3, PruneSelectionKeeps, FilingGoesOn
<1> QED
  BY <1>0, <1>1, <1>3, <1>4, <1>5, <1>6, <1>7, <1>8 DEF Command

\* A look changes what is shown.
LEMMA LooksFile ==
  ASSUME SidebarInv, User, ~Command
  PROVE  /\ Filing(client, client') /\ SameBook(client, client')
         /\ UNCHANGED <<daemonVars, wireVars, late>>
<1>0. ClientOK(client) /\ OneHome(client) /\ Filing(client, client)
  BY DEF SidebarInv, Filing, SameEars
<1>1. PICK c, here : Looks(c, here) /\ ClientOK(c) /\ SameEars(client, c) /\ SameBook(client, c)
  <2>1. CASE SelectRow
    BY <1>0, <2>1, LooksKeep DEF SelectRow
  <2>2. CASE Filter
    BY <1>0, <2>2, LooksKeep DEF Filter
  <2>3. CASE Turn
    BY <1>0, <2>3 DEF Turn, SameEars, SameBook
  <2>4. ASSUME NEW view, PickSpace(view)
        PROVE  \E c, here : Looks(c, here) /\ ClientOK(c) /\ SameEars(client, c) /\ SameBook(client, c)
    <3>1. ClientOK(SelectSpace(client, view)) /\ SameEars(client, SelectSpace(client, view)) /\ SameBook(client, SelectSpace(client, view))
      BY <1>0, SelectSpaceKeeps
    <3> QED
      BY <2>4, <3>1 DEF PickSpace
  <2>5. ASSUME NEW s, Reveal(s)
        PROVE  \E c, here : Looks(c, here) /\ ClientOK(c) /\ SameEars(client, c) /\ SameBook(client, c)
    <3>1. PICK c : /\ Looks(Landed(c, s), active)
                   /\ ClientOK(c) /\ SameEars(client, c) /\ SameBook(client, c)
      <4>1. PICK home : Looks(Landed(IF Shows(client, client.showing, s) THEN client ELSE SelectSpace(client, home), s), active)
        BY <2>5 DEF Reveal
      <4>2. ClientOK(SelectSpace(client, home)) /\ SameEars(client, SelectSpace(client, home)) /\ SameBook(client, SelectSpace(client, home))
        BY <1>0, SelectSpaceKeeps
      <4> QED
        BY <1>0, <4>1, <4>2 DEF SameEars, SameBook
    <3> DEFINE x == IF Id(s) \in Range(Rows(c)) THEN c.filter ELSE Name
               d == [c EXCEPT !.filter = x]
    <3>2. Landed(c, s) = [d EXCEPT !.selection = Id(s)]
      BY <3>1 DEF Landed, ClientOK
    <3> HIDE DEF x
    <3>3. ClientOK(d) /\ SameEars(c, d) /\ SameBook(c, d)
      BY <3>1, LooksKeep
    <3> HIDE DEF d
    <3>4. ClientOK(Landed(c, s)) /\ SameEars(d, Landed(c, s)) /\ SameBook(d, Landed(c, s))
      <4> DEFINE y == Id(s)
      <4> HIDE DEF y
      <4>1. /\ ClientOK([d EXCEPT !.selection = y]) /\ SameEars(d, [d EXCEPT !.selection = y])
            /\ SameBook(d, [d EXCEPT !.selection = y])
        BY <3>3, LooksKeep
      <4> QED
        BY <3>2, <4>1 DEF y
    <3> QED
      BY <3>1, <3>3, <3>4 DEF SameEars, SameBook
  <2> QED
    BY <2>1, <2>2, <2>3, <2>4, <2>5 DEF User
<1> QED
  BY <1>0, <1>1, FilingGoesOn DEF Looks, SameEars, SameBook

LEMMA StreamTyped ==
  ASSUME SidebarInv, NEW v \in Vm
  PROVE  /\ Stream(v) \in Seq(Event) /\ \A i \in DOMAIN Stream(v) : i \in Nat
         /\ events[v] \in Seq(Event) /\ answer[v] \in List \cup {None} /\ List \subseteq Event
<1>1. events[v] \in Seq(Event) /\ answer[v] \in List \cup {None} /\ List \subseteq Event
  BY DEF SidebarInv, WiresOK, DaemonsOK, Event
<1>2. Stream(v) \in Seq(Event)
  <2>1. CASE answer[v] = None
    BY <1>1, <2>1 DEF Stream
  <2>2. CASE answer[v] # None
    <3>1. Append(events[v], answer[v]) \in Seq(Event)
      BY <1>1, <2>2, AppendProperties
    <3> QED
      BY <2>2, <3>1 DEF Stream
  <2> QED
    BY <2>1, <2>2
<1>3. \A i \in DOMAIN Stream(v) : i \in Nat
  <2>1. Len(Stream(v)) \in Nat /\ DOMAIN Stream(v) = 1..Len(Stream(v))
    BY <1>2, LenProperties
  <2> QED
    BY <2>1
<1> QED
  BY <1>1, <1>2, <1>3

LEMMA UserStep == SidebarInv /\ User => SidebarInv'
<1> SUFFICES ASSUME SidebarInv, User PROVE SidebarInv'
  OBVIOUS
<1>1. /\ Filing(client, client') /\ UNCHANGED <<daemonVars, up, events, late>>
      /\ requests' \in [Vm -> Seq(Request)] /\ \A u \in Vm \ up : requests'[u] = <<>>
  <2>1. CASE Command
    BY <2>1, CommandFiles
  <2>2. CASE ~Command
    BY <2>2, LooksFile DEF wireVars, SidebarInv, WiresOK
  <2> QED
    BY <2>1, <2>2
<1>2. UNCHANGED <<table, unused, answer, worked, up, events, late>>
  BY <1>1 DEF daemonVars
<1>3. ClientOK(client') /\ OneHome(client') /\ SameEars(client, client')
  BY <1>1 DEF Filing
<1>4. DaemonsOK' /\ WiresOK'
  BY <1>1, <1>2 DEF SidebarInv, DaemonsOK, WiresOK
<1>5. DotsFit(client')
  BY <1>3 DEF SidebarInv, DotsFit, SameEars
<1>6. ASSUME NEW s \in Sid PROVE Fit(s)'
  <2>1. Still(s)
    <3>1. Known(client', s) => Known(client, s)
      BY <1>1 DEF Filing, SameEars, Known, Listed
    <3> QED
      BY <1>2, <1>3, <3>1 DEF Still, SameEars, SidebarInv, DaemonsOK
  <2>2. Stream(VmOf[s])' = Stream(VmOf[s])
    BY <1>2 DEF Stream
  <2>3. VmOf[s] \in Vm
    BY SidebarAssumption
  <2> QED
    BY <2>1, <2>2, <2>3, QuietFit, StreamTyped DEF SidebarInv
<1> QED
  BY <1>3, <1>4, <1>5, <1>6 DEF SidebarInv

(***************************************************************************)
(* The steps of the main actor.                                            *)
(***************************************************************************)
LEMMA RefreshStep == SidebarInv /\ RefreshDots => SidebarInv'
<1> SUFFICES ASSUME SidebarInv, RefreshDots PROVE SidebarInv'
  OBVIOUS
<1> DEFINE o == client.done \ Watching(client)
<1>1. client' = [client EXCEPT !.done = o] /\ UNCHANGED <<daemonVars, wireVars, late>>
  BY DEF RefreshDots
<1>2. UNCHANGED <<table, unused, answer, worked, up, requests, events, late>>
  BY <1>1 DEF daemonVars, wireVars
<1>3. o \subseteq client.done
  OBVIOUS
<1> HIDE DEF o
<1>4. /\ ClientOK(client') /\ SameBook(client, client') /\ client'.sessions = client.sessions
      /\ client'.last = client.last /\ client'.banners = client.banners /\ client'.done = o
  BY <1>1, <1>3 DEF SidebarInv, ClientOK, SameBook
<1>5. DaemonsOK' /\ WiresOK'
  BY <1>2 DEF SidebarInv, DaemonsOK, WiresOK
<1>6. DotsFit(client') /\ OneHome(client')
  BY <1>3, <1>4 DEF SidebarInv, DotsFit, OneHome, SameBook
<1>7. ASSUME NEW s \in Sid PROVE Fit(s)'
  <2>1. Still(s)
    BY <1>2, <1>4 DEF Still, SameBook, Known, SidebarInv, DaemonsOK
  <2>2. Stream(VmOf[s])' = Stream(VmOf[s])
    BY <1>2 DEF Stream
  <2>3. VmOf[s] \in Vm
    BY SidebarAssumption
  <2> QED
    BY <2>1, <2>2, <2>3, QuietFit, StreamTyped DEF SidebarInv
<1> QED
  BY <1>4, <1>5, <1>6, <1>7 DEF SidebarInv

\* What is left of a stream whose first event has been taken.
LEMMA FirstTaken ==
  ASSUME SidebarInv, NEW v \in Vm, events[v] # <<>>, events' = [events EXCEPT ![v] = Tail(@)],
         UNCHANGED answer
  PROVE  /\ events' \in [Vm -> Seq(Event)] /\ Head(events[v]) \in Event
         /\ 1 \in DOMAIN Stream(v) /\ Stream(v)[1] = Head(events[v])
         /\ \A i \in DOMAIN Stream(v)' : /\ i \in Nat /\ 1 <= i /\ i + 1 \in DOMAIN Stream(v)
                                         /\ Stream(v)'[i] = Stream(v)[i + 1]
         /\ \A u \in Vm \ {v} : Stream(u)' = Stream(u)
<1> DEFINE q == events[v]
           t == Tail(q)
<1>1. /\ events \in [Vm -> Seq(Event)] /\ q \in Seq(Event) /\ q # <<>>
      /\ answer[v] \in List \cup {None} /\ List \subseteq Event
  BY DEF SidebarInv, WiresOK, DaemonsOK, Event
<1>2. /\ t \in Seq(Event) /\ Head(q) \in Event /\ Head(q) = q[1] /\ Len(q) \in Nat /\ Len(q) >= 1
      /\ DOMAIN q = 1..Len(q) /\ Len(t) = Len(q) - 1 /\ DOMAIN t = 1..Len(t)
      /\ \A i \in 1..Len(t) : t[i] = q[i + 1]
  BY <1>1, HeadTailProperties, LenProperties
<1>3. events' \in [Vm -> Seq(Event)] /\ events'[v] = t /\ \A u \in Vm \ {v} : events'[u] = events[u]
  BY <1>1, <1>2
<1>4. \A u \in Vm \ {v} : Stream(u)' = Stream(u)
  BY <1>3 DEF Stream
<1> HIDE DEF q, t
<1>5. CASE answer[v] = None
  <2>1. Stream(v) = q /\ Stream(v)' = t
    BY <1>3, <1>5 DEF Stream, q
  <2> QED
    BY <1>2, <1>3, <1>4, <2>1 DEF q
<1>6. CASE answer[v] # None
  <2> DEFINE a == answer[v]
  <2>1. Stream(v) = Append(q, a) /\ Stream(v)' = Append(t, a) /\ a \in Event
    BY <1>1, <1>3, <1>6 DEF Stream, q
  <2> HIDE DEF a
  <2>2. /\ Append(q, a) \in Seq(Event) /\ Len(Append(q, a)) = Len(q) + 1
        /\ \A i \in 1..Len(q) : Append(q, a)[i] = q[i]
        /\ Append(q, a)[Len(q) + 1] = a
    BY <1>1, <2>1, AppendProperties DEF q
  <2>3. /\ Append(t, a) \in Seq(Event) /\ Len(Append(t, a)) = Len(q)
        /\ \A i \in 1..Len(t) : Append(t, a)[i] = t[i]
        /\ Append(t, a)[Len(q)] = a
    <3>1. /\ Append(t, a) \in Seq(Event) /\ Len(Append(t, a)) = Len(t) + 1
          /\ \A i \in 1..Len(t) : Append(t, a)[i] = t[i]
          /\ Append(t, a)[Len(t) + 1] = a
      <4>1. t \in Seq(Event) /\ a \in Event
        BY <1>2, <2>1
      <4> QED
        BY <4>1, AppendProperties
    <3>2. Len(t) + 1 = Len(q)
      BY <1>2
    <3> QED
      BY <3>1, <3>2
  <2>4. DOMAIN Append(q, a) = 1..(Len(q) + 1) /\ DOMAIN Append(t, a) = 1..Len(q)
    BY <2>2, <2>3, LenProperties
  <2>5. ASSUME NEW i \in 1..Len(q) PROVE Append(t, a)[i] = Append(q, a)[i + 1]
    <3>1. CASE i = Len(q)
      BY <2>2, <2>3, <3>1
    <3>2. CASE i # Len(q)
      <4>1. i \in 1..Len(t) /\ i + 1 \in 1..Len(q)
        <5>1. Len(q) \in Nat /\ Len(t) = Len(q) - 1
          BY <1>2
        <5> QED
          BY <3>2, <5>1
      <4> QED
        BY <1>2, <2>2, <2>3, <4>1
    <3> QED
      BY <3>1, <3>2
  <2>6. 1 \in DOMAIN Append(q, a) /\ Append(q, a)[1] = q[1]
    <3>1. 1 \in 1..Len(q) /\ 1 \in 1..(Len(q) + 1)
      BY <1>2
    <3> QED
      BY <2>2, <2>4, <3>1
  <2>7. \A i \in 1..Len(q) : i \in Nat /\ 1 <= i /\ i + 1 \in 1..(Len(q) + 1)
    BY <1>2
  <2> QED
    BY <1>2, <1>3, <1>4, <2>1, <2>4, <2>5, <2>6, <2>7 DEF q
<1> QED
  BY <1>5, <1>6

LEMMA MainStep == ASSUME NEW v \in Vm, SidebarInv, Main(v) PROVE SidebarInv'
<1> DEFINE e == Head(events[v])
<1>1. /\ events[v] # <<>> /\ events' = [events EXCEPT ![v] = Tail(@)]
      /\ UNCHANGED <<table, unused, answer, worked, up>>
      /\ \/ /\ e.kind = "up" /\ Send(v, [kind |-> "list"])
            /\ UNCHANGED <<client, late>>
         \/ /\ e.kind = "sessions" /\ OnSessions(v, e.list)
            /\ late' = IF e.old THEN late + 1 ELSE late
            /\ UNCHANGED requests
  BY DEF Main, daemonVars
<1>2. /\ events' \in [Vm -> Seq(Event)] /\ e \in Event
      /\ 1 \in DOMAIN Stream(v) /\ Stream(v)[1] = e
      /\ \A i \in DOMAIN Stream(v)' : /\ i \in Nat /\ 1 <= i /\ i + 1 \in DOMAIN Stream(v)
                                      /\ Stream(v)'[i] = Stream(v)[i + 1]
      /\ \A u \in Vm \ {v} : Stream(u)' = Stream(u)
  BY <1>1, FirstTaken
<1>3. /\ ClientOK(client) /\ OneHome(client) /\ DotsFit(client) /\ DaemonsOK /\ WiresOK
      /\ \A s \in Sid : Fit(s) /\ VmOf[s] \in Vm
  BY SidebarAssumption DEF SidebarInv
<1> HIDE DEF e
<1>4. CASE e.kind = "up" /\ Send(v, [kind |-> "list"]) /\ UNCHANGED <<client, late>>
  <2>1. [kind |-> "list"] \in Request
    BY DEF Request
  <2>2. requests' \in [Vm -> Seq(Request)] /\ \A u \in Vm \ up : requests'[u] = <<>>
    BY <1>3, <1>4, <2>1, SendKeeps
  <2>3. DaemonsOK' /\ WiresOK'
    BY <1>1, <1>2, <1>3, <1>4, <2>2 DEF DaemonsOK, WiresOK
  <2>4. ASSUME NEW s \in Sid PROVE Fit(s)'
    <3>1. Still(s)
      BY <1>1, <1>3, <1>4 DEF Still, DaemonsOK
    <3>2. CASE VmOf[s] # v
      BY <1>2, <1>3, <3>1, <3>2, QuietFit, StreamTyped
    <3>3. CASE VmOf[s] = v
      <4> DEFINE f == [i \in Nat |-> i + 1]
      <4>1. \A i \in Nat : f[i] = i + 1
        OBVIOUS
      <4> HIDE DEF f
      <4>2. \A i \in DOMAIN Stream(v)' : f[i] \in DOMAIN Stream(v) /\ Stream(v)'[i] = Stream(v)[f[i]]
        BY <1>2, <4>1
      <4>3. \A i, j \in DOMAIN Stream(v)' : i < j => f[i] < f[j]
        <5>1. \A i, j \in Nat : i < j => f[i] < f[j]
          BY <4>1
        <5>2. \A i \in DOMAIN Stream(v)' : i \in Nat
          BY <1>2
        <5> QED
          BY <5>1, <5>2
      <4> QED
        BY <1>3, <3>1, <3>3, <4>2, <4>3, FewerFit
    <3> QED
      BY <3>2, <3>3
  <2> QED
    BY <1>3, <1>4, <2>3, <2>4 DEF SidebarInv
<1>5. CASE /\ e.kind = "sessions" /\ OnSessions(v, e.list)
           /\ late' = (IF e.old THEN late + 1 ELSE late)
           /\ UNCHANGED requests
  <2>1. e \in List /\ e.list \in [Sid -> Session \cup {None}] /\ e.old \in BOOLEAN
    BY <1>2, <1>5 DEF Event, List
  <2>2. /\ ClientOK(client') /\ OneHome(client') /\ DotsFit(client')
        /\ \A s \in Sid : client'.sessions[s] = IF VmOf[s] = v THEN e.list[s] ELSE client.sessions[s]
        /\ \A s \in Sid : VmOf[s] = v /\ e.list[s] # None =>
             /\ client'.last[s] = e.list[s].activity
             /\ \/ client'.banners[s] = client.banners[s]
                \/ /\ client'.banners[s] = client.banners[s] + 1
                   /\ client.last[s] \in Busy /\ e.list[s].activity = "idle"
        /\ \A s \in Sid : VmOf[s] = v /\ e.list[s] = None =>
             client'.last[s] \in {None, client.last[s]} /\ client'.banners[s] = client.banners[s]
        /\ \A s \in Sid : VmOf[s] # v =>
             client'.last[s] = client.last[s] /\ client'.banners[s] = client.banners[s]
        /\ \A sp \in Space : \A s \in client'.members[sp] \ client.members[sp] :
             VmOf[s] = v /\ e.list[s] # None
    BY <1>3, <1>5, <2>1, OnSessionsIs
  <2>3. late \in Nat /\ late' \in Nat /\ late <= late'
    BY <1>3, <1>5 DEF DaemonsOK
  <2>4. DaemonsOK' /\ WiresOK'
    BY <1>1, <1>2, <1>3, <1>5, <2>3 DEF DaemonsOK, WiresOK
  <2>5. ASSUME NEW s \in Sid PROVE Fit(s)'
    <3>1. CASE VmOf[s] # v
      <4>1. Known(client', s) => Known(client, s)
        BY <2>2, <3>1 DEF Known
      <4>2. Still(s)
        BY <1>1, <2>2, <2>3, <3>1, <4>1 DEF Still
      <4> QED
        BY <1>2, <1>3, <3>1, <4>2, QuietFit, StreamTyped
    <3>2. CASE VmOf[s] = v
      <4>1. Known(client', s) => Known(client, s) \/ Has(e, s)
        BY <2>2, <3>2 DEF Known, Has
      <4>2. /\ Has(e, s) => /\ client'.last[s] = e.list[s].activity
                            /\ \/ client'.banners[s] = client.banners[s]
                               \/ /\ client'.banners[s] = client.banners[s] + 1
                                  /\ client.last[s] \in Busy /\ e.list[s].activity = "idle"
            /\ ~Has(e, s) => client'.last[s] \in {None, client.last[s]} /\ client'.banners[s] = client.banners[s]
        BY <2>2, <3>2 DEF Has
      <4>3. table'[s] = table[s] /\ worked'[s] = worked[s] /\ (s \in unused' => s \in unused)
        BY <1>1
      <4> QED
        BY <1>2, <1>3, <1>5, <2>1, <3>2, <4>1, <4>2, <4>3, HeardOfFit
    <3> QED
      BY <3>1, <3>2
  <2> QED
    BY <2>2, <2>4, <2>5 DEF SidebarInv
<1> QED
  BY <1>1, <1>4, <1>5

LEMMA FreshOK ==
  ASSUME NEW c, ClientOK(c), OneHome(c), NEW shown
  PROVE  LET d == Fresh(c, shown)
         IN /\ ClientOK(d) /\ OneHome(d) /\ DotsFit(d) /\ d.members = c.members
            /\ \A s \in Sid : d.sessions[s] = None /\ d.last[s] = None /\ d.banners[s] = 0
BY DEF Fresh, ClientOK, OneHome, DotsFit, Unlisted

LEMMA RelaunchStep == SidebarInv /\ Relaunch => SidebarInv'
<1> SUFFICES ASSUME SidebarInv, Relaunch PROVE SidebarInv'
  OBVIOUS
<1>1. /\ client' = Fresh(client, client.showing)
      /\ up' = {} /\ requests' = [v \in Vm |-> <<>>] /\ events' = [v \in Vm |-> <<>>]
      /\ answer' = [v \in Vm |-> None] /\ worked' = [s \in Sid |-> 0] /\ late' = 0
      /\ UNCHANGED <<table, unused>>
  BY DEF Relaunch
<1>2. /\ ClientOK(client') /\ OneHome(client') /\ DotsFit(client') /\ client'.members = client.members
      /\ \A s \in Sid : client'.sessions[s] = None /\ client'.last[s] = None /\ client'.banners[s] = 0
  BY <1>1, FreshOK DEF SidebarInv
<1>3. DaemonsOK' /\ WiresOK'
  <2>1. <<>> \in Seq(Request) /\ <<>> \in Seq(Event)
    OBVIOUS
  <2> QED
    BY <1>1, <2>1 DEF SidebarInv, DaemonsOK, WiresOK
<1>4. ASSUME NEW s \in Sid PROVE Fit(s)'
  <2>1. VmOf[s] \in Vm
    BY SidebarAssumption
  <2>2. Stream(VmOf[s])' = <<>> /\ worked'[s] = 0 /\ late' = 0
    BY <1>1, <2>1 DEF Stream
  <2>3. s \in unused' => table'[s] = None /\ ~Known(client', s)
    BY <1>1, <1>2 DEF SidebarInv, Fit, UnheardFit, Known
  <2>4. DOMAIN <<>> = {} /\ None \notin Busy
    BY SidebarAssumption DEF Busy, Activity
  <2>5. HeardFit(s)' /\ UnheardFit(s)'
    <3>1. HeardFit(s)'
      BY <2>2, <2>4 DEF HeardFit
    <3> QED
      BY <1>2, <2>2, <2>3, <2>4, <3>1 DEF UnheardFit, Known
  <2>6. TurnsFit(s)'
    <3>1. <<>> \in [DOMAIN Stream(VmOf[s])' -> 0..worked'[s]] /\ 0 \in 0..worked'[s]
      BY <2>2, <2>4
    <3>2. client'.banners[s] <= 0 + late' /\ client'.last[s] \notin Busy
      BY <1>2, <2>2, <2>4
    <3>3. DOMAIN Stream(VmOf[s])' = {}
      BY <2>2, <2>4
    <3> QED
      BY <3>1, <3>2, <3>3, TurnsGoOn
  <2> QED
    BY <2>5, <2>6 DEF Fit
<1> QED
  BY <1>2, <1>3, <1>4 DEF SidebarInv

LEMMA SidebarStarts == Init => SidebarInv
<1> SUFFICES ASSUME Init PROVE SidebarInv
  OBVIOUS
<1> DEFINE c == [spaces |-> {}, members |-> [sp \in Space |-> {}]]
<1>1. /\ client = Fresh(c, All) /\ up = {} /\ requests = [v \in Vm |-> <<>>]
      /\ events = [v \in Vm |-> <<>>] /\ answer = [v \in Vm |-> None]
      /\ worked = [s \in Sid |-> 0] /\ late = 0
  BY DEF Init
<1>2. /\ ClientOK(client) /\ OneHome(client) /\ DotsFit(client)
      /\ \A s \in Sid : /\ client.sessions[s] = None /\ client.last[s] = None
                        /\ client.banners[s] = 0 /\ ~Known(client, s)
  BY <1>1 DEF Fresh, ClientOK, OneHome, DotsFit, Unlisted, Known
<1>3. /\ table \in [Sid -> Session \cup {None}] /\ unused \subseteq Sid
      /\ \A s \in unused : table[s] = None
  <2>0. PICK old \in SUBSET Sid : \E n \in [old -> Name] :
          /\ table = [s \in Sid |-> IF s \in old THEN [name |-> n[s], activity |-> "working"] ELSE None]
          /\ unused = Sid \ old
    BY DEF Init
  <2>1. PICK n \in [old -> Name] :
          /\ table = [s \in Sid |-> IF s \in old THEN [name |-> n[s], activity |-> "working"] ELSE None]
          /\ unused = Sid \ old
    BY <2>0
  <2>2. \A s \in old : [name |-> n[s], activity |-> "working"] \in Session
    BY DEF Session, Activity
  <2> QED
    BY <2>1, <2>2
<1>4. DaemonsOK /\ WiresOK
  <2>1. <<>> \in Seq(Request) /\ <<>> \in Seq(Event)
    OBVIOUS
  <2> QED
    BY <1>1, <1>3, <2>1 DEF DaemonsOK, WiresOK
<1>5. ASSUME NEW s \in Sid PROVE Fit(s)
  <2>1. VmOf[s] \in Vm
    BY SidebarAssumption
  <2>2. Stream(VmOf[s]) = <<>> /\ worked[s] = 0 /\ late = 0
    BY <1>1, <2>1 DEF Stream
  <2> QED
    BY <1>2, <1>3, <2>2, EmptyFit
<1> QED
  BY <1>2, <1>4, <1>5 DEF SidebarInv

(***************************************************************************)
(* The steps of the daemons and the connections.                           *)
(***************************************************************************)
\* Nothing of this is the client's.
LEMMA ClientStays ==
  ASSUME SidebarInv, UNCHANGED client
  PROVE  /\ ClientOK(client) /\ ClientOK(client') /\ OneHome(client') /\ DotsFit(client')
         /\ DaemonsOK /\ WiresOK /\ \A s \in Sid : Fit(s) /\ VmOf[s] \in Vm
BY SidebarAssumption DEF SidebarInv

LEMMA ActStep == ASSUME NEW s \in Sid, SidebarInv, Act(s) PROVE SidebarInv'
<1>1. PICK a \in Activity :
        /\ table' = [table EXCEPT ![s].activity = a]
        /\ worked' = IF table[s].activity \in Busy /\ a \notin Busy
                       THEN [worked EXCEPT ![s] = @ + 1] ELSE worked
  BY DEF Act
<1>2. table[s] # None /\ UNCHANGED <<unused, answer, up, requests, events, client, late>>
  BY DEF Act, wireVars
<1>3. /\ ClientOK(client) /\ ClientOK(client') /\ OneHome(client') /\ DotsFit(client')
      /\ DaemonsOK /\ WiresOK /\ \A t \in Sid : Fit(t) /\ VmOf[t] \in Vm
  BY <1>2, ClientStays
<1>4. /\ table[s] \in Session /\ table'[s] = [table[s] EXCEPT !.activity = a]
      /\ \A t \in Sid \ {s} : table'[t] = table[t]
      /\ table' = [table EXCEPT ![s] = [table[s] EXCEPT !.activity = a]]
  BY <1>1, <1>2, <1>3 DEF DaemonsOK
<1>5. /\ table'[s] \in Session /\ table'[s] # None /\ table'[s].activity = a /\ table'[s].name = table[s].name
  BY <1>4, SidebarAssumption DEF Session
<1>6. /\ worked' \in [Sid -> Nat]
      /\ worked'[s] = (IF table[s].activity \in Busy /\ a \notin Busy THEN worked[s] + 1 ELSE worked[s])
      /\ \A t \in Sid \ {s} : worked'[t] = worked[t]
  BY <1>1, <1>3 DEF DaemonsOK
<1>7. DaemonsOK' /\ WiresOK'
  BY <1>2, <1>3, <1>4, <1>5, <1>6 DEF DaemonsOK, WiresOK
<1>8. \A v : Stream(v)' = Stream(v)
  BY <1>2 DEF Stream
<1>9. Fit(s)'
  BY <1>2, <1>3, <1>5, <1>6, <1>8, ActsFit
<1>10. ASSUME NEW t \in Sid \ {s} PROVE Fit(t)'
  <2>1. Still(t)
    BY <1>2, <1>3, <1>4, <1>6 DEF Still, DaemonsOK
  <2> QED
    BY <1>3, <1>8, <2>1, QuietFit, StreamTyped
<1> QED
  BY <1>3, <1>7, <1>9, <1>10 DEF SidebarInv

LEMMA Appended ==
  ASSUME NEW q \in Seq(Event), NEW e \in Event
  PROVE  /\ Append(q, e) \in Seq(Event) /\ Len(q) \in Nat
         /\ DOMAIN q = 1..Len(q) /\ DOMAIN Append(q, e) = 1..(Len(q) + 1)
         /\ \A i \in 1..Len(q) : Append(q, e)[i] = q[i]
         /\ Append(q, e)[Len(q) + 1] = e
<1>1. /\ Append(q, e) \in Seq(Event) /\ Len(Append(q, e)) = Len(q) + 1
      /\ \A i \in 1..Len(q) : Append(q, e)[i] = q[i]
      /\ Append(q, e)[Len(q) + 1] = e
  BY AppendProperties
<1> QED
  BY <1>1, LenProperties

\* The list a daemon tells, and what it says of a session.
LEMMA SessionsTyped ==
  ASSUME SidebarInv, NEW v \in Vm
  PROVE  /\ Sessions(v, FALSE) \in List /\ Sessions(v, FALSE) # None
         /\ \A s \in Sid : VmOf[s] = v => Sessions(v, FALSE).list[s] = table[s]
<1>1. table \in [Sid -> Session \cup {None}]
  BY DEF SidebarInv, DaemonsOK
<1>2. PICK l : l = [s \in Sid |-> IF VmOf[s] = v THEN table[s] ELSE None]
  OBVIOUS
<1>3. l \in [Sid -> Session \cup {None}] /\ \A s \in Sid : VmOf[s] = v => l[s] = table[s]
  BY <1>1, <1>2
<1>4. Sessions(v, FALSE) = [kind |-> "sessions", list |-> l, old |-> FALSE]
  BY <1>2 DEF Sessions
<1>5. Sessions(v, FALSE) \in List
  <2>1. FALSE \in BOOLEAN /\ "sessions" \in {"sessions"} /\ l \in [Sid -> Session \cup {None}]
    BY <1>3
  <2>2. [kind |-> "sessions", list |-> l, old |-> FALSE] \in List
    BY <2>1, Zenon DEF List
  <2> QED
    BY <1>4, <2>2
<1>6. Sessions(v, FALSE).list = l
  BY <1>2 DEF Sessions
<1> QED
  BY <1>3, <1>5, <1>6, SidebarAssumption

LEMMA RequestTaken ==
  ASSUME SidebarInv, NEW v \in Vm, requests[v] # <<>>, requests' = [requests EXCEPT ![v] = Tail(@)]
  PROVE  /\ v \in up /\ Head(requests[v]) \in Request
         /\ requests' \in [Vm -> Seq(Request)] /\ \A u \in Vm \ up : requests'[u] = <<>>
<1>1. requests \in [Vm -> Seq(Request)] /\ \A u \in Vm \ up : requests[u] = <<>>
  BY DEF SidebarInv, WiresOK
<1>2. Head(requests[v]) \in Request /\ Tail(requests[v]) \in Seq(Request)
  BY <1>1, HeadTailProperties
<1> QED
  BY <1>1, <1>2

LEMMA HandleStep == ASSUME NEW v \in Vm, SidebarInv, Handle(v) PROVE SidebarInv'
<1> DEFINE r == Head(requests[v])
<1>1. /\ requests[v] # <<>> /\ answer[v] = None
      /\ requests' = [requests EXCEPT ![v] = Tail(@)]
      /\ UNCHANGED <<up, events, client, active, late>>
      /\ HandleList(v) \/ HandleCreate(v) \/ HandleKill(v)
  BY DEF Handle
<1>2. /\ v \in up /\ r \in Request
      /\ requests' \in [Vm -> Seq(Request)] /\ \A u \in Vm \ up : requests'[u] = <<>>
  BY <1>1, RequestTaken
<1>3. /\ ClientOK(client) /\ ClientOK(client') /\ OneHome(client') /\ DotsFit(client')
      /\ DaemonsOK /\ WiresOK /\ \A s \in Sid : Fit(s) /\ VmOf[s] \in Vm
  BY <1>1, ClientStays
<1> HIDE DEF r
<1>4. CASE HandleList(v)
  <2> DEFINE l == Sessions(v, FALSE)
  <2>1. answer' = [answer EXCEPT ![v] = l] /\ UNCHANGED <<table, unused, worked>>
    BY <1>4 DEF HandleList
  <2>2. l \in List /\ l # None /\ \A s \in Sid : VmOf[s] = v => l.list[s] = table[s]
    BY SessionsTyped
  <2> HIDE DEF l
  <2>3. DaemonsOK' /\ WiresOK'
    BY <1>1, <1>2, <1>3, <2>1, <2>2 DEF DaemonsOK, WiresOK
  <2>4. ASSUME NEW s \in Sid PROVE Fit(s)'
    <3>1. Still(s)
      BY <1>1, <1>3, <2>1 DEF Still, DaemonsOK
    <3>2. CASE VmOf[s] # v
      <4>1. Stream(VmOf[s])' = Stream(VmOf[s])
        BY <1>1, <1>3, <2>1, <3>2 DEF Stream, DaemonsOK
      <4> QED
        BY <1>3, <3>1, <4>1, QuietFit, StreamTyped
    <3>3. CASE VmOf[s] = v
      <4> DEFINE q == events[v]
                 m == Len(q) + 1
      <4>1. Stream(v) = q /\ Stream(v)' = Append(q, l)
        BY <1>1, <1>3, <2>1, <2>2 DEF Stream, DaemonsOK
      <4>2. q \in Seq(Event) /\ l \in Event
        BY <1>3, <2>2, StreamTyped
      <4> HIDE DEF q
      <4>3. /\ Len(q) \in Nat /\ DOMAIN q = 1..Len(q) /\ DOMAIN Append(q, l) = 1..(Len(q) + 1)
            /\ \A i \in 1..Len(q) : Append(q, l)[i] = q[i]
            /\ Append(q, l)[Len(q) + 1] = l
        BY <4>2, Appended
      <4>4. ASSUME NEW i \in DOMAIN Stream(v)'
            PROVE  /\ i \in Nat /\ ~(i > m)
                   /\ i < m => i \in DOMAIN Stream(v) /\ Stream(v)'[i] = Stream(v)[i]
                   /\ i = m => Stream(v)'[i].list[s] = table[s]
        BY <2>2, <3>3, <4>1, <4>3
      <4>5. m \in Nat
        BY <4>3
      <4> HIDE DEF m
      <4> QED
        BY <1>3, <3>1, <3>3, <4>4, <4>5, MoreFit
    <3> QED
      BY <3>2, <3>3
  <2> QED
    BY <1>3, <2>3, <2>4 DEF SidebarInv
<1>5. CASE HandleCreate(v)
  <2>1. /\ UNCHANGED <<answer, worked>>
        /\ \/ UNCHANGED <<table, unused>>
           \/ /\ r.kind = "create"
              /\ \E s \in unused \cap On(v) :
                   /\ table' = [table EXCEPT ![s] = [name |-> r.name, activity |-> "unknown"]]
                   /\ unused' = unused \ {s}
    BY <1>5 DEF HandleCreate, r
  <2>2. \A u : Stream(u)' = Stream(u)
    BY <1>1, <2>1 DEF Stream
  <2>3. CASE UNCHANGED <<table, unused>>
    <3>1. DaemonsOK' /\ WiresOK'
      BY <1>1, <1>2, <1>3, <2>1, <2>3 DEF DaemonsOK, WiresOK
    <3>2. ASSUME NEW s \in Sid PROVE Fit(s)'
      <4>1. Still(s)
        BY <1>1, <1>3, <2>1, <2>3 DEF Still, DaemonsOK
      <4> QED
        BY <1>3, <2>2, <4>1, QuietFit, StreamTyped
    <3> QED
      BY <1>3, <3>1, <3>2 DEF SidebarInv
  <2>4. ASSUME NEW s \in unused \cap On(v), r.kind = "create",
               table' = [table EXCEPT ![s] = [name |-> r.name, activity |-> "unknown"]],
               unused' = unused \ {s}
        PROVE  SidebarInv'
    <3> DEFINE x == [name |-> r.name, activity |-> "unknown"]
    <3>1. x \in Session /\ Over(x) /\ s \in Sid /\ s \in unused
      <4>1. r.name \in Name
        BY <1>2, <2>4 DEF Request
      <4> QED
        BY <4>1, SidebarAssumption DEF Session, Over, Activity, Busy, On
    <3> HIDE DEF x
    <3>2. table'[s] = x /\ \A t \in Sid \ {s} : table'[t] = table[t]
      BY <1>3, <2>4, <3>1 DEF DaemonsOK, x
    <3>3. DaemonsOK' /\ WiresOK'
      BY <1>1, <1>2, <1>3, <2>1, <2>4, <3>1, <3>2 DEF DaemonsOK, WiresOK, x
    <3>4. Fit(s)'
      BY <1>1, <1>3, <2>1, <2>2, <2>4, <3>1, <3>2, CreatedFit
    <3>5. ASSUME NEW t \in Sid \ {s} PROVE Fit(t)'
      <4>1. Still(t)
        BY <1>1, <1>3, <2>1, <2>4, <3>2 DEF Still, DaemonsOK
      <4> QED
        BY <1>3, <2>2, <4>1, QuietFit, StreamTyped
    <3> QED
      BY <1>3, <3>3, <3>4, <3>5 DEF SidebarInv
  <2> QED
    BY <2>1, <2>3, <2>4
<1>6. CASE HandleKill(v)
  <2>1. r.kind = "kill" /\ table' = [table EXCEPT ![r.id] = None] /\ UNCHANGED <<unused, answer, worked>>
    BY <1>6 DEF HandleKill, r
  <2>2. PICK s \in Sid : s = r.id
    BY <1>2, <2>1 DEF Request
  <2>3. table'[s] = None /\ \A t \in Sid \ {s} : table'[t] = table[t]
    BY <1>3, <2>1, <2>2 DEF DaemonsOK
  <2>4. \A u : Stream(u)' = Stream(u)
    BY <1>1, <2>1 DEF Stream
  <2>5. DaemonsOK' /\ WiresOK'
    BY <1>1, <1>2, <1>3, <2>1 DEF DaemonsOK, WiresOK
  <2>6. Fit(s)'
    BY <1>1, <1>3, <2>1, <2>2, <2>3, <2>4, KilledFit
  <2>7. ASSUME NEW t \in Sid \ {s} PROVE Fit(t)'
    <3>1. Still(t)
      BY <1>1, <1>3, <2>1, <2>3 DEF Still, DaemonsOK
    <3> QED
      BY <1>3, <2>4, <3>1, QuietFit, StreamTyped
  <2> QED
    BY <1>3, <2>5, <2>6, <2>7 DEF SidebarInv
<1> QED
  BY <1>1, <1>4, <1>5, <1>6

\* An answer that is sent is where it was.
LEMMA AnswerStep == ASSUME NEW v \in Vm, SidebarInv, Answer(v) PROVE SidebarInv'
<1>1. /\ answer[v] # None
      /\ events' = [events EXCEPT ![v] = Append(@, answer[v])]
      /\ answer' = [answer EXCEPT ![v] = None]
      /\ UNCHANGED <<table, unused, worked, up, requests, client, late>>
  BY DEF Answer
<1>2. /\ ClientOK(client) /\ ClientOK(client') /\ OneHome(client') /\ DotsFit(client')
      /\ DaemonsOK /\ WiresOK /\ \A s \in Sid : Fit(s) /\ VmOf[s] \in Vm
  BY <1>1, ClientStays
<1>3. Append(events[v], answer[v]) \in Seq(Event)
  BY <1>1, StreamTyped, Appended
<1>4. DaemonsOK' /\ WiresOK'
  BY <1>1, <1>2, <1>3 DEF DaemonsOK, WiresOK
<1>5. \A u \in Vm : Stream(u)' = Stream(u)
  BY <1>1, <1>2 DEF Stream, DaemonsOK, WiresOK
<1>6. ASSUME NEW s \in Sid PROVE Fit(s)'
  <2>1. Still(s)
    BY <1>1, <1>2 DEF Still, DaemonsOK
  <2> QED
    BY <1>2, <1>5, <2>1, QuietFit, StreamTyped
<1> QED
  BY <1>2, <1>4, <1>6 DEF SidebarInv

\* What the feed tells goes before an answer in hand, which is old from then on.
LEMMA TellStep == ASSUME NEW v \in Vm, SidebarInv, Tell(v) PROVE SidebarInv'
<1> DEFINE l == Sessions(v, FALSE)
<1>1. /\ v \in up /\ events' = [events EXCEPT ![v] = Append(@, l)]
      /\ answer' = IF answer[v] = None THEN answer ELSE [answer EXCEPT ![v].old = TRUE]
      /\ UNCHANGED <<table, unused, worked, up, requests, client, late>>
  BY DEF Tell
<1>2. /\ ClientOK(client) /\ ClientOK(client') /\ OneHome(client') /\ DotsFit(client')
      /\ DaemonsOK /\ WiresOK /\ \A s \in Sid : Fit(s) /\ VmOf[s] \in Vm
  BY <1>1, ClientStays
<1>3. l \in List /\ l \in Event /\ \A s \in Sid : VmOf[s] = v => l.list[s] = table[s]
  BY SessionsTyped, StreamTyped
<1> HIDE DEF l
<1>4. /\ events[v] \in Seq(Event) /\ Append(events[v], l) \in Seq(Event) /\ Len(events[v]) \in Nat
      /\ DOMAIN events[v] = 1..Len(events[v])
      /\ DOMAIN Append(events[v], l) = 1..(Len(events[v]) + 1)
      /\ \A i \in 1..Len(events[v]) : Append(events[v], l)[i] = events[v][i]
      /\ Append(events[v], l)[Len(events[v]) + 1] = l
  <2>1. events[v] \in Seq(Event)
    BY StreamTyped
  <2> QED
    BY <1>3, <2>1, Appended
<1>5. events' \in [Vm -> Seq(Event)] /\ events'[v] = Append(events[v], l) /\ \A u \in Vm \ {v} : events'[u] = events[u]
  BY <1>1, <1>2, <1>4 DEF WiresOK
<1>6. /\ answer' \in [Vm -> List \cup {None}] /\ \A u \in Vm \ {v} : answer'[u] = answer[u]
      /\ answer[v] = None => answer'[v] = None
      /\ answer[v] # None => /\ answer'[v] # None /\ answer[v] \in List
                             /\ answer'[v].list = answer[v].list /\ answer'[v].old = TRUE
  <2>1. CASE answer[v] = None
    BY <1>1, <1>2, <2>1 DEF DaemonsOK
  <2>2. CASE answer[v] # None
    <3> DEFINE a == [answer[v] EXCEPT !.old = TRUE]
    <3>1. answer[v] \in List /\ answer' = [answer EXCEPT ![v] = a]
      BY <1>1, <1>2, <2>2 DEF DaemonsOK
    <3>2. a \in List /\ a.list = answer[v].list /\ a.old = TRUE
      BY <3>1 DEF List
    <3> HIDE DEF a
    <3>3. answer'[v] = a /\ a # None /\ answer' \in [Vm -> List \cup {None}]
      BY <1>2, <3>1, <3>2, SidebarAssumption DEF DaemonsOK
    <3> QED
      BY <1>2, <2>2, <3>1, <3>2, <3>3 DEF DaemonsOK
  <2> QED
    BY <2>1, <2>2
<1>7. DaemonsOK' /\ WiresOK'
  BY <1>1, <1>2, <1>5, <1>6 DEF DaemonsOK, WiresOK
<1>8. ASSUME NEW s \in Sid PROVE Fit(s)'
  <2>1. Still(s)
    BY <1>1, <1>2 DEF Still, DaemonsOK
  <2>2. CASE VmOf[s] # v
    <3>1. Stream(VmOf[s])' = Stream(VmOf[s])
      BY <1>2, <1>5, <1>6, <2>2 DEF Stream
    <3> QED
      BY <1>2, <2>1, <3>1, QuietFit, StreamTyped
  <2>3. CASE VmOf[s] = v
    <3>1. PICK q \in Seq(Event) : q = events[v]
      BY <1>4
    <3>2. PICK m \in Nat : m = Len(q) + 1
      BY <1>4, <3>1
    <3>3. PICK t : t = Append(q, l)
      OBVIOUS
    <3>4. /\ DOMAIN q = 1..Len(q) /\ DOMAIN t = 1..m /\ Len(q) \in Nat
          /\ \A i \in 1..Len(q) : t[i] = q[i]
          /\ t[m] = l /\ t \in Seq(Event) /\ events'[v] = t /\ events[v] = q
      BY <1>4, <1>5, <3>1, <3>2, <3>3
    <3>5. CASE answer[v] = None
      <4>1. Stream(v) = q /\ Stream(v)' = t
        BY <1>6, <3>4, <3>5 DEF Stream
      <4>2. ASSUME NEW i \in DOMAIN Stream(v)'
            PROVE  /\ i \in Nat /\ ~(i > m)
                   /\ i < m => i \in DOMAIN Stream(v) /\ Stream(v)'[i] = Stream(v)[i]
                   /\ i = m => Stream(v)'[i].list[s] = table[s]
        BY <1>3, <2>3, <3>2, <3>4, <4>1
      <4> QED
        BY <1>2, <2>1, <2>3, <4>2, MoreFit
    <3>6. CASE answer[v] # None
      <4>1. PICK a \in List : a = answer[v]
        BY <1>6, <3>6
      <4>2. PICK o \in List : o = answer'[v]
        BY <1>6, <3>6
      <4>3. o.list = a.list /\ o.old = TRUE /\ a \in Event /\ o \in Event /\ IsList(a) /\ ~IsNew(o)
        BY <1>6, <3>6, <4>1, <4>2 DEF IsList, IsNew, List, Event
      <4>4. Stream(v) = Append(q, a) /\ Stream(v)' = Append(t, o)
        BY <1>6, <3>4, <3>6, <4>1, <4>2 DEF Stream
      <4>5. /\ DOMAIN Append(q, a) = 1..(Len(q) + 1)
            /\ \A i \in 1..Len(q) : Append(q, a)[i] = q[i]
            /\ Append(q, a)[Len(q) + 1] = a
        BY <4>3, Appended
      <4>6. Len(t) = m
        BY <3>4, LenProperties
      <4>7. /\ DOMAIN Append(t, o) = 1..(m + 1)
            /\ \A i \in 1..m : Append(t, o)[i] = t[i]
            /\ Append(t, o)[m + 1] = o
        BY <3>4, <4>3, <4>6, Appended
      <4>8. m \in DOMAIN Stream(v) /\ Stream(v)[m] = a
        BY <3>2, <3>4, <4>4, <4>5
      <4>9. ASSUME NEW i \in DOMAIN Stream(v)'
            PROVE  /\ i \in Nat
                   /\ i < m => i \in DOMAIN Stream(v) /\ Stream(v)'[i] = Stream(v)[i]
                   /\ i = m => Stream(v)'[i].list[s] = table[s]
                   /\ i > m => /\ ~IsNew(Stream(v)'[i])
                               /\ IsList(Stream(v)'[i]) =>
                                    \E k \in DOMAIN Stream(v) :
                                      IsList(Stream(v)[k]) /\ Stream(v)[k].list = Stream(v)'[i].list
        <5>1. i \in Nat /\ i \in 1..(m + 1)
          BY <4>4, <4>7
        <5>2. CASE i < m
          BY <3>2, <3>4, <4>4, <4>5, <4>7, <5>1, <5>2
        <5>3. CASE i = m
          BY <1>3, <2>3, <3>2, <3>4, <4>4, <4>7, <5>1, <5>3
        <5>4. CASE i > m
          <6>1. i = m + 1
            BY <5>1, <5>4
          <6>2. Stream(v)'[i] = o /\ ~(i < m) /\ i # m
            BY <4>4, <4>7, <6>1, <5>4
          <6> QED
            BY <4>3, <4>8, <5>1, <6>2
        <5> QED
          BY <5>1, <5>2, <5>3, <5>4
      <4> QED
        BY <1>2, <2>1, <2>3, <4>9, MoreFit
    <3> QED
      BY <3>5, <3>6
  <2> QED
    BY <2>2, <2>3
<1> QED
  BY <1>2, <1>7, <1>8 DEF SidebarInv

\* Of what was on its way some may be lost, from the end.
LEMMA DropStep == ASSUME NEW v \in Vm, SidebarInv, Drop(v) PROVE SidebarInv'
<1>1. /\ up' = up \ {v} /\ requests' = [requests EXCEPT ![v] = <<>>]
      /\ answer' = [answer EXCEPT ![v] = None]
      /\ UNCHANGED <<table, unused, worked, client, late>>
  BY DEF Drop
<1>2. PICK n \in 0..Len(events[v]) : events' = [events EXCEPT ![v] = SubSeq(events[v], 1, n)]
  BY DEF Drop
<1>3. /\ ClientOK(client) /\ ClientOK(client') /\ OneHome(client') /\ DotsFit(client')
      /\ DaemonsOK /\ WiresOK /\ \A s \in Sid : Fit(s) /\ VmOf[s] \in Vm
  BY <1>1, ClientStays
<1>4. /\ events[v] \in Seq(Event) /\ Len(events[v]) \in Nat /\ DOMAIN events[v] = 1..Len(events[v])
      /\ \A i \in 1..Len(events[v]) : events[v][i] \in Event
  BY StreamTyped, LenProperties, ElementOfSeq
<1>5. PICK t : t = SubSeq(events[v], 1, n)
  OBVIOUS
<1>6. t \in Seq(Event) /\ DOMAIN t = 1..n /\ \A i \in 1..n : t[i] = events[v][i]
  <2>1. /\ SubSeq(events[v], 1, n) \in Seq(Event)
        /\ Len(SubSeq(events[v], 1, n)) = (IF 1 <= n THEN n - 1 + 1 ELSE 0)
        /\ \A i \in 1..(n - 1 + 1) : SubSeq(events[v], 1, n)[i] = events[v][1 + i - 1]
    <3>1. n \in Int /\ 1 \in Int /\ \A i \in 1..n : events[v][i] \in Event
      BY <1>4
    <3> QED
      BY <3>1, SubSeqProperties
  <2>2. Len(t) = n /\ t \in Seq(Event)
    BY <1>4, <1>5, <2>1
  <2>3. DOMAIN t = 1..n
    BY <2>2, LenProperties
  <2>4. \A i \in 1..n : t[i] = events[v][i]
    <3> SUFFICES ASSUME NEW i \in 1..n PROVE t[i] = events[v][i]
      OBVIOUS
    <3>1. i \in 1..(n - 1 + 1) /\ 1 + i - 1 = i
      BY <1>4
    <3> QED
      BY <1>5, <2>1, <3>1
  <2> QED
    BY <2>2, <2>3, <2>4
<1>7. /\ events' \in [Vm -> Seq(Event)] /\ events'[v] = t /\ answer'[v] = None /\ requests'[v] = <<>>
      /\ \A u \in Vm \ {v} : events'[u] = events[u] /\ answer'[u] = answer[u] /\ requests'[u] = requests[u]
  BY <1>1, <1>2, <1>3, <1>5, <1>6 DEF WiresOK, DaemonsOK
<1>8. DaemonsOK' /\ WiresOK'
  <2>1. <<>> \in Seq(Request)
    OBVIOUS
  <2> QED
    BY <1>1, <1>3, <1>7, <2>1 DEF DaemonsOK, WiresOK
<1>9. ASSUME NEW s \in Sid PROVE Fit(s)'
  <2>1. Still(s)
    BY <1>1, <1>3 DEF Still, DaemonsOK
  <2>2. CASE VmOf[s] # v
    <3>1. Stream(VmOf[s])' = Stream(VmOf[s])
      BY <1>3, <1>7, <2>2 DEF Stream
    <3> QED
      BY <1>3, <2>1, <3>1, QuietFit, StreamTyped
  <2>3. CASE VmOf[s] = v
    <3>1. PICK f : f = [i \in Nat |-> i]
      OBVIOUS
    <3>2. \A i \in Nat : f[i] = i
      BY <3>1
    <3>3. Stream(v)' = t
      BY <1>7 DEF Stream
    <3>4. \A i \in 1..Len(events[v]) : i \in DOMAIN Stream(v) /\ Stream(v)[i] = events[v][i]
      <4>1. CASE answer[v] = None
        BY <1>4, <4>1 DEF Stream
      <4>2. CASE answer[v] # None
        <5>1. answer[v] \in Event
          BY <4>2, StreamTyped
        <5>2. /\ DOMAIN Append(events[v], answer[v]) = 1..(Len(events[v]) + 1)
              /\ \A i \in 1..Len(events[v]) : Append(events[v], answer[v])[i] = events[v][i]
          BY <1>4, <5>1, Appended
        <5> QED
          BY <1>4, <4>2, <5>2 DEF Stream
      <4> QED
        BY <4>1, <4>2
    <3>5. \A i \in 1..n : i \in Nat /\ i \in 1..Len(events[v])
      BY <1>4
    <3>6. \A i \in DOMAIN Stream(v)' : f[i] = i /\ f[i] \in DOMAIN Stream(v) /\ Stream(v)'[i] = Stream(v)[f[i]]
      BY <1>6, <3>2, <3>3, <3>4, <3>5
    <3> QED
      BY <1>3, <2>1, <2>3, <3>6, FewerFit
  <2> QED
    BY <2>2, <2>3
<1> QED
  BY <1>3, <1>8, <1>9 DEF SidebarInv

LEMMA DialStep == ASSUME NEW v \in Vm, SidebarInv, Dial(v) PROVE SidebarInv'
<1>1. /\ v \notin up /\ up' = up \cup {v}
      /\ events' = [events EXCEPT ![v] = Append(@, [kind |-> "up"])]
      /\ UNCHANGED <<table, unused, answer, worked, requests, client, late>>
  BY DEF Dial, daemonVars
<1>2. /\ ClientOK(client) /\ ClientOK(client') /\ OneHome(client') /\ DotsFit(client')
      /\ DaemonsOK /\ WiresOK /\ \A s \in Sid : Fit(s) /\ VmOf[s] \in Vm
  BY <1>1, ClientStays
<1>3. PICK e \in Event : e = [kind |-> "up"] /\ ~IsList(e)
  <2>1. [kind |-> "up"] \in Event
    BY DEF Event
  <2>2. ~IsList([kind |-> "up"])
    BY DEF IsList
  <2> QED
    BY <2>1, <2>2
<1>4. answer[v] = None /\ events[v] \in Seq(Event)
  BY <1>1, <1>2, StreamTyped DEF WiresOK
<1>5. PICK q \in Seq(Event) : q = events[v]
  BY <1>4
<1>6. PICK t : t = Append(q, e)
  OBVIOUS
<1>7. /\ t \in Seq(Event) /\ Len(q) \in Nat
      /\ DOMAIN q = 1..Len(q) /\ DOMAIN t = 1..(Len(q) + 1)
      /\ \A i \in 1..Len(q) : t[i] = q[i]
      /\ t[Len(q) + 1] = e
  BY <1>6, Appended
<1>8. events' \in [Vm -> Seq(Event)] /\ events'[v] = t /\ \A u \in Vm \ {v} : events'[u] = events[u]
  BY <1>1, <1>2, <1>3, <1>5, <1>6, <1>7 DEF WiresOK
<1>9. DaemonsOK' /\ WiresOK'
  BY <1>1, <1>2, <1>8 DEF DaemonsOK, WiresOK
<1>10. ASSUME NEW s \in Sid PROVE Fit(s)'
  <2>1. Still(s)
    BY <1>1, <1>2 DEF Still, DaemonsOK
  <2>2. CASE VmOf[s] # v
    <3>1. Stream(VmOf[s])' = Stream(VmOf[s])
      BY <1>1, <1>2, <1>8, <2>2 DEF Stream
    <3> QED
      BY <1>2, <2>1, <3>1, QuietFit, StreamTyped
  <2>3. CASE VmOf[s] = v
    <3>1. PICK f : f = [i \in Nat |-> i]
      OBVIOUS
    <3>2. \A i \in Nat : f[i] = i
      BY <3>1
    <3>3. Stream(v)' = t /\ Stream(v) = q
      BY <1>1, <1>4, <1>5, <1>8 DEF Stream
    <3>4. \A i \in 1..(Len(q) + 1) : i \in Nat /\ (i \in 1..Len(q) \/ i = Len(q) + 1)
      BY <1>7
    <3>5. \A i \in DOMAIN Stream(v)' : f[i] = i /\ (IsList(Stream(v)'[i]) =>
            f[i] \in DOMAIN Stream(v) /\ Stream(v)'[i] = Stream(v)[f[i]])
      BY <1>3, <1>7, <3>2, <3>3, <3>4
    <3> QED
      BY <1>2, <2>1, <2>3, <3>5, FewerFit
  <2> QED
    BY <2>2, <2>3
<1> QED
  BY <1>2, <1>9, <1>10 DEF SidebarInv

(***************************************************************************)
(* The invariant, and what it shows.                                       *)
(***************************************************************************)
LEMMA SidebarStep == SidebarInv /\ [Next]_sidebarVars => SidebarInv'
<1> SUFFICES ASSUME SidebarInv, [Next]_sidebarVars PROVE SidebarInv'
  OBVIOUS
<1>1. CASE UNCHANGED sidebarVars
  <2>1. UNCHANGED <<table, unused, answer, worked, up, requests, events, client, late>>
    BY <1>1 DEF sidebarVars, daemonVars, wireVars
  <2>2. DaemonsOK' /\ WiresOK' /\ ClientOK(client') /\ OneHome(client') /\ DotsFit(client')
    BY <2>1 DEF SidebarInv, DaemonsOK, WiresOK
  <2>3. ASSUME NEW s \in Sid PROVE Fit(s)'
    <3>1. Still(s) /\ Stream(VmOf[s])' = Stream(VmOf[s])
      BY <2>1 DEF Still, Stream, SidebarInv, DaemonsOK
    <3>2. VmOf[s] \in Vm
      BY SidebarAssumption
    <3> QED
      BY <3>1, <3>2, QuietFit, StreamTyped DEF SidebarInv
  <2> QED
    BY <2>2, <2>3 DEF SidebarInv
<1>2. CASE Next
  BY <1>2, UserStep, RefreshStep, RelaunchStep, MainStep, HandleStep, AnswerStep, TellStep, DropStep,
     DialStep, ActStep DEF Next
<1> QED
  BY <1>1, <1>2

\* What the client has heard, has still to hear and has announced of each session fits what
\* the daemons did, over every loss, launch and late list.
THEOREM SidebarInductive == Spec => []SidebarInv
<1> QED
  BY SidebarStarts, SidebarStep, PTL DEF Spec

\* Whatever lists are coalesced, repeated or lost, a stretch of work is announced as finished
\* once at most, but for lists that come late; and a dot is on a session that is listed and
\* idle (readActivity in AppModel.swift, update in AgentWatch.swift).
THEOREM BannersPerTurn == Spec => []BannerPerTurn
<1>1. SidebarInv => BannerPerTurn
  <2> SUFFICES ASSUME SidebarInv PROVE BannerPerTurn
    OBVIOUS
  <2>1. ASSUME NEW s \in Sid PROVE client.banners[s] <= worked[s] + late
    <3>1. PICK b \in 0..worked[s] : \E w : CountFit(Stream(VmOf[s]), b, w, s)
      BY DEF SidebarInv, Fit, TurnsFit
    <3>2. client.banners[s] \in Nat /\ worked[s] \in Nat /\ late \in Nat
      BY DEF SidebarInv, ClientOK, DaemonsOK
    <3>3. client.banners[s] <= b + late
      BY <3>1 DEF CountFit
    <3> QED
      BY <3>1, <3>2, <3>3
  <2>2. ASSUME NEW s \in client.done PROVE s \in Listed(client) /\ client.sessions[s].activity = "idle"
    BY <2>2 DEF SidebarInv, DotsFit, Listed, ClientOK
  <2> QED
    BY <2>1, <2>2 DEF BannerPerTurn
<1> QED
  BY <1>1, SidebarInductive, PTL

\* What a list takes out of a space: what its daemon has no more, or what comes late, or what
\* is taken for the answer to a Create.
LEMMA ListFiles ==
  ASSUME SidebarInv, NEW v \in Vm, Main(v), NEW sp \in Space, NEW s \in client.members[sp],
         table[s] # None, s \notin client'.members[sp]
  PROVE  \/ late' # late
         \/ \E i \in DOMAIN client.waiting :
              client.waiting[i].vm = VmOf[s] /\ client.waiting[i].name = table[s].name
<1> DEFINE e == Head(events[v])
<1>1. /\ events[v] # <<>> /\ events' = [events EXCEPT ![v] = Tail(@)] /\ UNCHANGED answer
      /\ \/ UNCHANGED client
         \/ /\ e.kind = "sessions" /\ OnSessions(v, e.list)
            /\ late' = IF e.old THEN late + 1 ELSE late
  BY DEF Main, daemonVars
<1>2. /\ ClientOK(client) /\ OneHome(client) /\ DotsFit(client) /\ late \in Nat /\ Fit(s) /\ s \in Sid
      /\ e \in Event /\ 1 \in DOMAIN Stream(v) /\ Stream(v)[1] = e
  BY <1>1, FirstTaken DEF SidebarInv, ClientOK, DaemonsOK
<1> HIDE DEF e
<1>3. CASE UNCHANGED client
  BY <1>3
<1>4. CASE e.kind = "sessions" /\ OnSessions(v, e.list) /\ late' = IF e.old THEN late + 1 ELSE late
  <2>1. e \in List /\ e.list \in [Sid -> Session \cup {None}] /\ e.old \in BOOLEAN
    BY <1>2, <1>4 DEF Event, List
  <2>2. CASE e.old
    BY <1>2, <1>4, <2>2
  <2>3. CASE ~e.old
    <3>1. /\ VmOf[s] = v
          /\ \/ e.list[s] = None
             \/ \E i \in DOMAIN client.waiting :
                  client.waiting[i].vm = v /\ client.waiting[i].name = e.list[s].name
      BY <1>2, <1>4, <2>1, OnSessionsIs
    <3>2. IsNew(e) /\ IsList(e) /\ Known(client, s)
      BY <1>4, <2>3 DEF IsNew, IsList, Known
    <3>3. e.list[s] # None /\ e.list[s].name = table[s].name
      BY <1>2, <3>1, <3>2 DEF Fit, HeardFit, Has
    <3> QED
      BY <3>1, <3>3
  <2> QED
    BY <2>1, <2>2, <2>3
<1> QED
  BY <1>1, <1>3, <1>4

\* Who is in a space stays in it, alone, until the user or the daemon has it otherwise, over
\* outages, lists of other machines and launches (prune and claim in Spaces.swift).
THEOREM FiledAlwaysStay == Spec => FiledStays
<1>1. ASSUME SidebarInv, [Next]_sidebarVars, NEW s \in Sid, NEW sp \in Home(client, s)
      PROVE  /\ Home(client, s) = {sp}
             /\ table[s] # None /\ s \notin client'.members[sp] =>
                  \/ late' # late
                  \/ \E i \in DOMAIN client.waiting :
                       client.waiting[i].vm = VmOf[s] /\ client.waiting[i].name = table[s].name
                  \/ Command
  <2>1. /\ sp \in Space /\ s \in client.members[sp] /\ \A t \in Home(client, s) : t \in Space /\ s \in client.members[t]
        /\ ClientOK(client) /\ OneHome(client)
    BY <1>1 DEF Home, SidebarInv, ClientOK
  <2>2. Home(client, s) = {sp}
    BY <1>1, <2>1 DEF OneHome
  <2>3. ASSUME table[s] # None, s \notin client'.members[sp], ~Command
        PROVE  \/ late' # late
               \/ \E i \in DOMAIN client.waiting :
                    client.waiting[i].vm = VmOf[s] /\ client.waiting[i].name = table[s].name
    <3>1. client'.members # client.members
      BY <2>1, <2>3
    <3>2. ~User
      BY <1>1, <2>3, <3>1, LooksFile DEF SameBook
    <3>3. ~RefreshDots
      BY <2>1, <3>1 DEF RefreshDots, ClientOK
    <3>4. ~Relaunch
      BY <3>1 DEF Relaunch, Fresh
    <3>5. PICK v \in Vm : Main(v)
      BY <1>1, <3>1, <3>2, <3>3, <3>4
         DEF Next, Handle, Answer, Tell, Drop, Dial, Act, sidebarVars
    <3> QED
      BY <1>1, <2>1, <2>3, <3>5, ListFiles
  <2> QED
    BY <2>2, <2>3
<1>2. SidebarInv /\ [Next]_sidebarVars =>
        [\A s \in Sid : \A sp \in Home(client, s) :
           /\ Home(client, s) = {sp}
           /\ table[s] # None /\ s \notin client'.members[sp] =>
                \/ late' # late
                \/ \E i \in DOMAIN client.waiting :
                     client.waiting[i].vm = VmOf[s] /\ client.waiting[i].name = table[s].name
                \/ Command]_sidebarVars
  BY <1>1
<1> QED
  BY <1>2, SidebarInductive, PTL DEF Spec, FiledStays

(***************************************************************************)
(* The types the module states.                                            *)
(***************************************************************************)
\* What is shown is there to be shown, and the filter lets names through.
Shown(c) == c.spaces \subseteq Space /\ c.showing \in c.spaces \cup {All, Unsorted} /\ c.filter \subseteq Name
SameView(c, d) == d.spaces = c.spaces /\ d.showing = c.showing /\ d.filter = c.filter

LEMMA PruneSelectionShows ==
  ASSUME NEW c, ClientOK(c), NEW previous
  PROVE  SameView(c, PruneSelection(c, previous))
<1>1. PICK next : PruneSelection(c, previous) = c \/ PruneSelection(c, previous) = [c EXCEPT !.selection = next]
  BY DEF PruneSelection
<1> QED
  BY <1>1 DEF ClientOK, SameView

LEMMA SelectSpaceShows ==
  ASSUME NEW c, ClientOK(c), Shown(c), NEW next
  PROVE  Shown(SelectSpace(c, next))
<1>1. CASE next = c.showing \/ next \notin c.spaces \cup {Unsorted, All}
  BY <1>1 DEF SelectSpace
<1>2. CASE ~(next = c.showing \/ next \notin c.spaces \cup {Unsorted, All})
  <2>1. PICK x : x = [c.lastSelection EXCEPT ![c.showing] = c.selection]
    OBVIOUS
  <2>2. PICK left : left = [c EXCEPT !.lastSelection = x, !.showing = next]
    OBVIOUS
  <2>3. left = [c EXCEPT !.lastSelection[c.showing] = c.selection, !.showing = next]
    BY <2>1, <2>2 DEF ClientOK
  <2>4. PICK y : SelectSpace(c, next) = [left EXCEPT !.selection = y]
    BY <1>2, <2>3 DEF SelectSpace
  <2>5. left.spaces = c.spaces /\ left.showing = next /\ left.filter = c.filter
    BY <2>2 DEF ClientOK
  <2>6. LET d == [left EXCEPT !.selection = y]
        IN d.spaces = left.spaces /\ d.showing = left.showing /\ d.filter = left.filter
    BY <2>2 DEF ClientOK
  <2> QED
    BY <1>2, <2>4, <2>5, <2>6 DEF Shown
<1> QED
  BY <1>1, <1>2

LEMMA MovedShows ==
  ASSUME NEW c, ClientOK(c), NEW keys, NEW sp
  PROVE  SameView(c, Moved(c, keys, sp))
<1>1. PICK m : Moved(c, keys, sp) = [c EXCEPT !.members = m]
  BY DEF Moved, ClientOK
<1> QED
  BY <1>1 DEF ClientOK, SameView

\* What the sidebar's own changes leave of the view.
LEMMA ViewKept ==
  ASSUME NEW c, ClientOK(c), NEW l, NEW o, NEW b
  PROVE  /\ SameView(c, [c EXCEPT !.sessions = l]) /\ SameView(c, [c EXCEPT !.members = l])
         /\ SameView(c, [c EXCEPT !.waiting = l, !.members = o])
         /\ SameView(c, [c EXCEPT !.last = l, !.done = o])
         /\ SameView(c, [c EXCEPT !.last = l, !.done = o, !.banners = b])
  BY DEF ClientOK, SameView

\* A list changes nothing of the view.
LEMMA OnSessionsShows ==
  ASSUME ClientOK(client), OneHome(client),
         NEW v \in Vm, NEW list \in [Sid -> Session \cup {None}], OnSessions(v, list)
  PROVE  SameView(client, client')
<1>1. PICK all, told, claimed, pruned, forgot, heard, alive, fresh, gone :
        /\ all = [s \in Sid |-> IF s \in On(v) THEN list[s] ELSE client.sessions[s]]
        /\ alive = {s \in On(v) : list[s] # None}
        /\ fresh = alive \ (Listed(client) \cap On(v)) /\ gone = (Listed(client) \cap On(v)) \ alive
        /\ told = [client EXCEPT !.sessions = all]
        /\ claimed = ClaimCreated(told, fresh) /\ pruned = Prune(claimed, v, alive)
        /\ forgot = Forget(pruned, gone) /\ heard = ReadActivity(forgot, alive)
        /\ client' = PruneSelection(heard, Rows(client))
  BY DEF OnSessions
<1>2. /\ alive \subseteq Sid /\ fresh \subseteq Sid /\ all \in [Sid -> Session \cup {None}]
      /\ \A s \in alive : all[s] # None
  BY <1>1 DEF On, ClientOK
<1>3. ClientOK(told) /\ OneHome(told) /\ SameView(client, told) /\ told.sessions = all
  <2>1. ClientOK(told) /\ OneHome(told) /\ told.sessions = all
    BY <1>1, <1>2 DEF ClientOK, OneHome
  <2>2. SameView(client, [client EXCEPT !.sessions = all])
    BY ViewKept
  <2> QED
    BY <1>1, <2>1, <2>2
<1>4. ClientOK(claimed) /\ OneHome(claimed) /\ SameView(told, claimed) /\ claimed.sessions = all
  <2>1. ClientOK(claimed) /\ OneHome(claimed) /\ SameEars(told, claimed)
    BY <1>1, <1>2, <1>3, ClaimCreatedKeeps
  <2>2. PICK w, x : claimed = [told EXCEPT !.waiting = w, !.members = x]
    BY <1>1, <1>3 DEF ClaimCreated
  <2>3. SameView(told, [told EXCEPT !.waiting = w, !.members = x])
    BY <1>3, ViewKept
  <2>4. SameView(told, claimed)
    BY <2>2, <2>3
  <2> QED
    BY <1>3, <2>1, <2>4 DEF SameEars
<1>5. ClientOK(pruned) /\ SameView(claimed, pruned) /\ pruned.sessions = all
  <2>1. ClientOK(pruned) /\ SameEars(claimed, pruned)
    BY <1>1, <1>4, PruneKeeps
  <2>2. PICK x : pruned = [claimed EXCEPT !.members = x]
    BY <1>1 DEF Prune
  <2>3. SameView(claimed, [claimed EXCEPT !.members = x])
    BY <1>4, ViewKept
  <2>4. SameView(claimed, pruned)
    BY <2>2, <2>3
  <2> QED
    BY <1>4, <2>1, <2>4 DEF SameEars
<1>6. ClientOK(forgot) /\ SameView(pruned, forgot) /\ forgot.sessions = all
  <2>1. ClientOK(forgot) /\ forgot.sessions = pruned.sessions
    BY <1>1, <1>5, ForgetIs
  <2>2. PICK l, o : forgot = [pruned EXCEPT !.last = l, !.done = o]
    BY <1>1 DEF Forget
  <2>3. SameView(pruned, [pruned EXCEPT !.last = l, !.done = o])
    BY <1>5, ViewKept
  <2>4. SameView(pruned, forgot)
    BY <2>2, <2>3
  <2> QED
    BY <1>5, <2>1, <2>4
<1>7. ClientOK(heard) /\ SameView(forgot, heard)
  <2>1. ClientOK(heard)
    BY <1>1, <1>2, <1>6, ReadActivityIs
  <2>2. PICK l, o, b : heard = [forgot EXCEPT !.last = l, !.done = o, !.banners = b]
    BY <1>1 DEF ReadActivity
  <2>3. SameView(forgot, [forgot EXCEPT !.last = l, !.done = o, !.banners = b])
    BY <1>6, ViewKept
  <2>4. SameView(forgot, heard)
    BY <2>2, <2>3
  <2> QED
    BY <2>1, <2>4
<1>8. SameView(heard, client')
  BY <1>1, <1>7, PruneSelectionShows
<1> QED
  BY <1>3, <1>4, <1>5, <1>6, <1>7, <1>8 DEF SameView

\* Whatever the user does, what is shown can be.
LEMMA UserShows ==
  ASSUME SidebarInv, Shown(client), User
  PROVE  Shown(client')
<1>0. ClientOK(client) /\ OneHome(client) /\ \A c, d : Shown(c) /\ SameView(c, d) => Shown(d)
  BY DEF SidebarInv, Shown, SameView
<1>1. ASSUME NEW c, ClientOK(c), NEW x
      PROVE  SameView(c, [c EXCEPT !.waiting = x]) /\ SameView(c, [c EXCEPT !.selection = x])
  BY <1>1 DEF ClientOK, SameView
<1>2. Movable(client) \in SUBSET Sid
  BY MovableListed
<1>3. ASSUME NEW v \in Vm, NEW n \in Name, Create(v, n) PROVE Shown(client')
  <2>1. client' = client \/ \E w : client' = [client EXCEPT !.waiting = w]
    BY <1>3 DEF Create, Asks
  <2> QED
    BY <1>0, <1>1, <2>1
<1>4. ASSUME NEW s \in Sid, Kill(s) PROVE Shown(client')
  BY <1>4 DEF Kill, Asks
<1>5. ASSUME NEW sp \in Space
      PROVE  LET d == [client EXCEPT !.spaces = @ \cup {sp}] IN ClientOK(d) /\ OneHome(d) /\ Shown(d)
  <2>1. PICK d : d = [client EXCEPT !.spaces = @ \cup {sp}]
    OBVIOUS
  <2>2. ClientOK(d) /\ OneHome(d)
    BY <1>0, <2>1, SpacesKeep
  <2>3. d.spaces = client.spaces \cup {sp} /\ d.showing = client.showing /\ d.filter = client.filter
    BY <1>0, <2>1 DEF ClientOK
  <2>4. Shown(d)
    BY <1>5, <2>3 DEF Shown
  <2> QED
    BY <2>1, <2>2, <2>4
<1>6. ASSUME NEW sp \in Space, CreateSpace(sp) PROVE Shown(client')
  BY <1>5, <1>6, SelectSpaceShows DEF CreateSpace, Asks
<1>7. ASSUME NEW sp \in Space, DeleteSpace(sp) PROVE Shown(client')
  <2>1. PICK d : d = [client EXCEPT !.spaces = @ \ {sp}, !.members[sp] = {}]
    OBVIOUS
  <2>2. ClientOK(d)
    BY <1>0, <2>1, SpacesKeep
  <2>3. d.spaces = client.spaces \ {sp} /\ d.showing = client.showing /\ d.filter = client.filter
    BY <1>0, <2>1 DEF ClientOK
  <2>4. client' = AfterDelete(d, sp)
    BY <1>7, <2>1 DEF DeleteSpace, Asks
  <2>5. CASE d.showing = sp
    <3>1. PICK landing \in {Unsorted, All} : client' = SelectSpace(d, landing)
      BY <2>4, <2>5 DEF AfterDelete
    <3>2. CASE landing = sp
      BY <3>2, SidebarAssumption
    <3>3. CASE landing # sp
      <4>1. PICK x : x = [d.lastSelection EXCEPT ![d.showing] = d.selection]
        OBVIOUS
      <4>2. PICK left : left = [d EXCEPT !.lastSelection = x, !.showing = landing]
        OBVIOUS
      <4>3. left = [d EXCEPT !.lastSelection[d.showing] = d.selection, !.showing = landing]
        BY <2>2, <4>1, <4>2 DEF ClientOK
      <4>4. PICK y : client' = [left EXCEPT !.selection = y]
        BY <2>5, <3>1, <3>3, <4>3 DEF SelectSpace
      <4>5. left.spaces = d.spaces /\ left.showing = landing /\ left.filter = d.filter
        BY <2>2, <4>2 DEF ClientOK
      <4>6. LET e == [left EXCEPT !.selection = y]
            IN e.spaces = left.spaces /\ e.showing = left.showing /\ e.filter = left.filter
        BY <2>2, <4>2 DEF ClientOK
      <4> QED
        BY <2>3, <4>4, <4>5, <4>6 DEF Shown
    <3> QED
      BY <3>2, <3>3
  <2>6. CASE d.showing # sp
    <3>1. SameView(d, client')
      BY <2>2, <2>4, <2>6, PruneSelectionShows DEF AfterDelete
    <3> QED
      BY <2>3, <2>6, <3>1 DEF Shown, SameView
  <2> QED
    BY <2>5, <2>6
<1>8. ASSUME NEW sp \in Space, SpaceFromFolder(sp) PROVE Shown(client')
  <2>1. PICK d : d = [client EXCEPT !.spaces = @ \cup {sp}] /\ ClientOK(d) /\ OneHome(d) /\ Shown(d)
    BY <1>5
  <2>2. ClientOK(Moved(d, Movable(client), sp)) /\ Shown(Moved(d, Movable(client), sp))
    BY <1>0, <1>2, <2>1, MovedKeeps, MovedShows
  <2>3. client' = SelectSpace(Moved(d, Movable(client), sp), sp)
    BY <1>8, <2>1 DEF SpaceFromFolder, Asks
  <2> QED
    BY <2>2, <2>3, SelectSpaceShows
<1>9. ASSUME NEW sp \in Space \cup {None}, MoveTo(sp) PROVE Shown(client')
  <2>1. ClientOK(Moved(client, Movable(client), sp)) /\ Shown(Moved(client, Movable(client), sp))
    BY <1>0, <1>2, MovedKeeps, MovedShows
  <2>2. client' = PruneSelection(Moved(client, Movable(client), sp), Rows(client))
    BY <1>9 DEF MoveTo, Asks
  <2> QED
    BY <1>0, <2>1, <2>2, PruneSelectionShows
<1>10. ASSUME NEW view, PickSpace(view) PROVE Shown(client')
  BY <1>0, <1>10, SelectSpaceShows DEF PickSpace, Looks
<1>11. CASE SelectRow
  BY <1>0, <1>1, <1>11 DEF SelectRow, Looks
<1>12. CASE Filter
  <2>1. PICK names \in SUBSET Name : client' = [client EXCEPT !.filter = names]
    BY <1>12 DEF Filter, Looks
  <2>2. client'.spaces = client.spaces /\ client'.showing = client.showing /\ client'.filter = names
    BY <1>0, <2>1 DEF ClientOK
  <2> QED
    BY <2>2 DEF Shown
<1>13. CASE Turn
  BY <1>13 DEF Turn, Looks
<1>14. ASSUME NEW s, Reveal(s) PROVE Shown(client')
  <2>1. PICK home : client' = Landed(IF Shows(client, client.showing, s) THEN client ELSE SelectSpace(client, home), s)
    <3>1. PICK home : Looks(Landed(IF Shows(client, client.showing, s) THEN client ELSE SelectSpace(client, home), s), active)
      BY <1>14 DEF Reveal
    <3> QED
      BY <3>1 DEF Looks
  <2>2. ClientOK(SelectSpace(client, home)) /\ Shown(SelectSpace(client, home))
    BY <1>0, SelectSpaceKeeps, SelectSpaceShows
  <2>3. PICK c : client' = Landed(c, s) /\ ClientOK(c) /\ Shown(c)
    BY <1>0, <2>1, <2>2
  <2>4. PICK x, y : client' = [c EXCEPT !.filter = x, !.selection = y] /\ x \in {c.filter, Name}
    BY <2>3 DEF Landed
  <2>5. client'.spaces = c.spaces /\ client'.showing = c.showing /\ client'.filter = x
    BY <2>3, <2>4 DEF ClientOK
  <2> QED
    BY <2>3, <2>4, <2>5 DEF Shown
<1> QED
  BY <1>3, <1>4, <1>6, <1>7, <1>8, <1>9, <1>10, <1>11, <1>12, <1>13, <1>14 DEF User, Command

\* The state of the sidebar, its wires and its daemons keeps its types.
THEOREM SidebarTyped == Spec => []SidebarTypeOK
<1> DEFINE Views == Shown(client) /\ due \subseteq Vm /\ up \subseteq Vm
<1>1. Init => Views
  BY DEF Init, Fresh, Shown
<1>2. SidebarInv /\ Views /\ [Next]_sidebarVars => Views'
  <2> SUFFICES ASSUME SidebarInv, Views, [Next]_sidebarVars PROVE Views'
    OBVIOUS
  <2>1. due' \subseteq Vm /\ up' \subseteq Vm
    BY SidebarAssumption DEF Next, User, Command, Create, Kill, CreateSpace, DeleteSpace, SpaceFromFolder,
       MoveTo, Asks, SelectRow, Filter, Turn, PickSpace, Reveal, Looks, RefreshDots, Relaunch, Main, Handle,
       HandleList, HandleCreate, HandleKill, Answer, Tell, Drop, Dial, Act, sidebarVars, daemonVars, wireVars
  <2>2. Shown(client')
    <3>1. CASE UNCHANGED client
      BY <3>1
    <3>2. CASE User
      BY <3>2, UserShows
    <3>3. CASE RefreshDots
      BY <3>3 DEF RefreshDots, SidebarInv, ClientOK, Shown
    <3>4. CASE Relaunch
      BY <3>4 DEF Relaunch, Fresh, Shown
    <3>5. ASSUME NEW v \in Vm, Main(v) PROVE Shown(client')
      <4>1. PICK e : e = Head(events[v])
        OBVIOUS
      <4>2. e \in Event /\ (UNCHANGED client \/ (e.kind = "sessions" /\ OnSessions(v, e.list)))
        BY <3>5, <4>1, FirstTaken DEF Main, daemonVars
      <4>3. CASE e.kind = "sessions" /\ OnSessions(v, e.list)
        <5>1. e.list \in [Sid -> Session \cup {None}]
          BY <4>2, <4>3 DEF Event, List
        <5> QED
          BY <4>3, <5>1, OnSessionsShows DEF SidebarInv, Shown, SameView
      <4> QED
        BY <4>2, <4>3
    <3> QED
      BY <3>1, <3>2, <3>3, <3>4, <3>5 DEF Next, Handle, Answer, Tell, Drop, Dial, Act, sidebarVars
  <2> QED
    BY <2>1, <2>2
<1>3. SidebarInv /\ Views => SidebarTypeOK
  BY DEF SidebarInv, DaemonsOK, ClientOK, Shown, SidebarTypeOK
<1> QED
  BY <1>1, <1>2, <1>3, SidebarInductive, PTL DEF Spec
================================================================================
