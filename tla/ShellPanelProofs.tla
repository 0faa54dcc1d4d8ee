--------------------------- MODULE ShellPanelProofs ----------------------------
(***************************************************************************)
(* What the shell panel of the macOS client remembers and who gets the     *)
(* keyboard, for any number of sessions, shells and commands.              *)
(***************************************************************************)
EXTENDS ShellPanel, FiniteSetTheorems, SequenceTheorems, TLAPS

(* The records. *)
Lists == [agents : SUBSET Agent, shells : [Shell -> {None} \cup ShellEntry]]
Requests ==
  [kind : {"list"}] \cup [kind : {"shell"}, of : Agent] \cup [kind : {"restart"}, shell : Shell]
    \cup [kind : {"kill"}, id : Agent \cup Shell]
Events == [kind : {"sessions"}, list : Lists] \cup [kind : {"exited"}, shell : Shell] \cup [kind : {"error", "up"}]
Clients ==
  [agents : SUBSET Agent, shells : [Shell -> {None} \cup ShellEntry], selection : Agent \cup {None},
   panel : SUBSET Agent, active : [Agent -> Shell \cup {None}], pending : Agent \cup {None},
   awaiting : {None} \cup Awaited, keyboard : Agent \cup Shell \cup {None}, sent : Seq(Requests)]

PanelTypes ==
  /\ table \in Lists /\ issued \in SUBSET Shell /\ due \in BOOLEAN /\ owed \in SUBSET Shell
  /\ up \in BOOLEAN /\ requests \in Seq(Requests) /\ events \in Seq(Events)
  /\ client \in Clients /\ client.sent = <<>> /\ moves \in 0..MaxMoves /\ missed \in BOOLEAN

\* Shells are listed under listed sessions.
Nested(l) == \A s \in Shell : l.shells[s] # None => l.shells[s].of \in l.agents

\* What PanelForgets says of a client.
Forgets(c) ==
  /\ c.panel \subseteq c.agents
  /\ c.pending \in c.agents \cup {None}
  /\ c.awaiting # None => c.awaiting.of \in c.agents
  /\ c.keyboard \in Agent => c.keyboard \in c.agents
  /\ c.keyboard \in Shell => c.shells[c.keyboard] # None

\* While a shell is awaited there is none yet that it could be.
StillAwaits(c) == c.awaiting # None => ShellKeys(c, c.awaiting.of) \subseteq c.awaiting.known

Tidy(c) == c \in Clients /\ Nested(c) /\ Forgets(c)
Sound(c) == Tidy(c) /\ StillAwaits(c)

\* A pending focus of the selected session has not been left behind a shell that runs.
Revealed(c) ==
  Visible(c) # None /\ Running(c, Visible(c)) /\ c.pending = c.selection =>
    c.awaiting # None /\ c.awaiting.of = c.selection

\* What a list, of shells f, has of a shell holds of the table, of shells t, if the shell is
\* still there; ss are the ids given out.
Past(f, t, ss) ==
  \A s \in Shell : f[s] # None => s \in ss /\ (t[s] # None => t[s].of = f[s].of)

\* Nothing that went comes back: what an older list has and a newer one has not is not in
\* the table.
Before(f, g, t) == \A s \in Shell : f[s] # None /\ g[s] = None => t[s] = None

\* The lists among the events are in the order of the table's states, after the client's.
IsList(es, i) == i \in DOMAIN es /\ es[i].kind = "sessions"
InTurn(es, f, t, ss) ==
  /\ \A i \in DOMAIN es : IsList(es, i) =>
       Nested(es[i].list) /\ Past(es[i].list.shells, t, ss) /\ Before(f, es[i].list.shells, t)
  /\ \A i, j \in DOMAIN es : i < j /\ IsList(es, i) /\ IsList(es, j) =>
       Before(es[i].list.shells, es[j].list.shells, t)
OrderFit ==
  /\ Nested(table) /\ Past(table.shells, table.shells, issued)
  /\ Past(client.shells, table.shells, issued)
  /\ InTurn(events, client.shells, table.shells, issued)

\* Only what has been listed is killed.
KillsIn(q, f, t, ss) ==
  \A i \in DOMAIN q : q[i].kind = "kill" /\ q[i].id \in Shell =>
    q[i].id \in ss /\ (f[q[i].id] # None \/ t[q[i].id] = None)
KillsFit == KillsIn(requests, client.shells, table.shells, issued)

\* The latest list there is has the sessions of the table, unless another is to come.
Same(l, t) == l.agents = t.agents /\ \A s \in Shell : l.shells[s] = None <=> t.shells[s] = None
LastIs(es, l, t) ==
  /\ \A i \in DOMAIN es :
       IsList(es, i) /\ (\A j \in DOMAIN es : j > i => ~IsList(es, j)) => Same(es[i].list, t)
  /\ (\A i \in DOMAIN es : ~IsList(es, i)) => Same(l, t)
ListAsked(q) == \E i \in DOMAIN q : q[i].kind = "list"
SyncFit == ~missed => up /\ (due \/ ListAsked(requests) \/ LastIs(events, client, table))

\* A shell that is awaited is asked for or made, or its session is killed.
ShellAsked(q, a) == \E i \in DOMAIN q : q[i].kind = "shell" /\ q[i].of = a
Comes(w, q, t) ==
  \/ ShellAsked(q, w.of)
  \/ w.of \notin t.agents
  \/ \E s \in Shell : t.shells[s] # None /\ t.shells[s].of = w.of /\ s \notin w.known
AwaitFit ==
  client.awaiting # None =>
    client.awaiting.known \subseteq issued /\ (missed \/ Comes(client.awaiting, requests, table))

PanelInv ==
  PanelTypes /\ Sound(client) /\ Revealed(client) /\ OrderFit /\ KillsFit /\ SyncFit /\ AwaitFit

--------------------------------------------------------------------------------
(***************************************************************************)
(* Sets of shells have a first and a last.                                 *)
(***************************************************************************)
LEMMA MinIn ==
  ASSUME NEW S \in SUBSET Nat, S # {}
  PROVE  Min(S) \in S
<1>1. IsWellFoundedOn(OpToRel(<, Nat), Nat)
  BY NatLessThanWellFounded
<1>2. PICK x \in S : \A y \in S : ~(<<y, x>> \in OpToRel(<, Nat))
  BY <1>1, WFMin
<1>3. \A y \in S : ~(y < x)
  BY <1>2 DEF OpToRel
<1>4. \A y \in S : x <= y
  BY <1>3
<1> QED
  BY <1>4 DEF Min

LEMMA MaxIn ==
  ASSUME NEW S \in SUBSET Nat, IsFiniteSet(S), S # {}
  PROVE  Max(S) \in S
<1> DEFINE T == {{y \in S : x <= y} : x \in S}
<1>1. IsWellFoundedOn(StrictSubsetOrdering(S), FiniteSubsetsOf(S)) /\ FiniteSubsetsOf(S) = SUBSET S
  BY FS_StrictSubsetOrderingWellFounded, FS_FiniteSubsetsOfFinite
<1>2. T \subseteq SUBSET S /\ T # {}
  OBVIOUS
<1>3. PICK U \in T : \A V \in T : ~(<<V, U>> \in StrictSubsetOrdering(S))
  <2> HIDE DEF T
  <2>1. IsWellFoundedOn(StrictSubsetOrdering(S), SUBSET S)
    BY <1>1
  <2> QED
    BY <1>2, <2>1, WFMin
<1>4. PICK x \in S : U = {y \in S : x <= y}
  OBVIOUS
<1>5. ASSUME NEW z \in S PROVE z <= x
  <2> DEFINE V == {y \in S : z <= y}
  <2> SUFFICES ASSUME x < z PROVE FALSE
    OBVIOUS
  <2>1. V \in T
    OBVIOUS
  <2>2. x \in Nat /\ \A y \in S : y \in Nat
    OBVIOUS
  <2>3. x \in U /\ U \subseteq S
    BY <1>4, <2>2
  <2>4. x \notin V /\ V \subseteq U
    <3>1. ~(z <= x) /\ \A y \in S : z <= y => x <= y
      BY <2>2
    <3> QED
      BY <1>4, <3>1
  <2> HIDE DEF V, T
  <2>5. <<V, U>> \in StrictSubsetOrdering(S)
    BY <2>3, <2>4 DEF StrictSubsetOrdering
  <2> QED
    BY <1>3, <2>1, <2>5
<1> QED
  BY <1>5 DEF Max

LEMMA NotAmong == /\ None \notin Agent /\ None \notin Shell /\ Agent \cap Shell = {}
                  /\ \A e \in ShellEntry \cup Awaited : e # None
BY PanelAssumption, NoneAssumption

--------------------------------------------------------------------------------
(***************************************************************************)
(* The methods of AppModel.  What each leaves of the client, and what it   *)
(* does not touch.                                                         *)
(***************************************************************************)
LEMMA KeysAre ==
  ASSUME NEW c \in Clients, NEW a
  PROVE  /\ ShellKeys(c, a) \subseteq Shell /\ ActiveShell(c, a) \in ShellKeys(c, a) \cup {None}
         /\ ActiveShell(c, a) = None <=> ShellKeys(c, a) = {}
<1>1. ShellKeys(c, a) \subseteq Shell /\ Shell \subseteq Nat
  BY PanelAssumption DEF ShellKeys
<1>2. ShellKeys(c, a) # {} => Min(ShellKeys(c, a)) \in ShellKeys(c, a)
  BY <1>1, MinIn
<1>3. None \notin ShellKeys(c, a)
  BY <1>1, NotAmong
<1> QED
  BY <1>1, <1>2, <1>3 DEF ActiveShell

LEMMA SelectedIs ==
  ASSUME NEW c \in Clients
  PROVE  /\ Selected(c) \in c.agents \cup {None} /\ (Selected(c) # None => Selected(c) = c.selection)
         /\ None \notin c.agents /\ None \notin c.panel
BY NotAmong DEF Selected, Clients

LEMMA VisibleIs ==
  ASSUME NEW c \in Clients, Visible(c) # None
  PROVE  /\ Visible(c) \in Shell /\ c.shells[Visible(c)] # None
         /\ Selected(c) # None /\ Selected(c) = c.selection /\ c.selection \in c.panel /\ c.selection \in c.agents
         /\ Visible(c) = ActiveShell(c, c.selection)
<1>1. Selected(c) \in c.panel /\ Visible(c) = ActiveShell(c, Selected(c))
  BY DEF Visible
<1>2. Selected(c) # None /\ Selected(c) = c.selection /\ c.selection \in c.agents
  BY <1>1, SelectedIs
<1>3. Visible(c) \in ShellKeys(c, c.selection)
  BY <1>1, <1>2, KeysAre
<1> QED
  BY <1>1, <1>2, <1>3 DEF ShellKeys

\* A session's tab depends on its shells and on the one that was in front.
LEMMA TabIs ==
  ASSUME NEW c, NEW d, d.shells = c.shells, d.active = c.active, NEW a
  PROVE  ActiveShell(d, a) = ActiveShell(c, a)
<1>1. ShellKeys(d, a) = ShellKeys(c, a)
  BY DEF ShellKeys
<1> QED
  BY <1>1 DEF ActiveShell

\* Who has the keyboard and what is to be sent do not change what is shown.
LEMMA ViewIs ==
  ASSUME NEW c, NEW d, d.shells = c.shells, d.active = c.active, d.agents = c.agents, d.panel = c.panel,
         d.selection = c.selection, d.pending = c.pending, d.awaiting = c.awaiting, Revealed(c)
  PROVE  Revealed(d)
<1>1. Selected(d) = Selected(c)
  BY DEF Selected
<1>2. ActiveShell(d, Selected(c)) = ActiveShell(c, Selected(c))
  BY TabIs
<1>3. Visible(d) = Visible(c)
  BY <1>1, <1>2 DEF Visible
<1> QED
  BY <1>3 DEF Revealed, Running

\* revealShell touches the pending focus and the keyboard, and leaves none behind.
LEMMA RevealIs ==
  ASSUME NEW c, Tidy(c)
  PROVE  /\ Tidy(Reveal(c)) /\ Revealed(Reveal(c)) /\ (StillAwaits(c) => Sound(Reveal(c)))
         /\ Reveal(c).agents = c.agents /\ Reveal(c).shells = c.shells /\ Reveal(c).selection = c.selection
         /\ Reveal(c).panel = c.panel /\ Reveal(c).active = c.active /\ Reveal(c).awaiting = c.awaiting
         /\ Reveal(c).sent = c.sent
<1> DEFINE d == [c EXCEPT !.pending = None, !.keyboard = Visible(c)]
<1>1. c \in Clients
  BY DEF Tidy
<1>2. CASE Visible(c) # None /\ Running(c, Visible(c)) /\ c.pending = c.selection
             /\ (c.awaiting = None \/ c.awaiting.of # c.selection)
  <2>1. Reveal(c) = d
    BY <1>2 DEF Reveal
  <2>2. Visible(c) \in Shell /\ c.shells[Visible(c)] # None /\ c.selection # None
    BY <1>1, <1>2, VisibleIs
  <2>3. d \in Clients
    BY <1>1, <2>2 DEF Clients
  <2>4. /\ d.agents = c.agents /\ d.shells = c.shells /\ d.selection = c.selection /\ d.panel = c.panel
        /\ d.active = c.active /\ d.awaiting = c.awaiting /\ d.sent = c.sent /\ d.pending = None
        /\ d.keyboard = Visible(c)
    BY <1>1 DEF Clients
  <2> HIDE DEF d
  <2>5. Nested(d) /\ (StillAwaits(c) => StillAwaits(d))
    BY <2>4 DEF Tidy, Nested, StillAwaits, ShellKeys
  <2>6. Forgets(d)
    BY <2>2, <2>4, NotAmong DEF Tidy, Forgets
  <2>7. Revealed(d)
    BY <2>2, <2>4 DEF Revealed
  <2> QED
    BY <2>1, <2>3, <2>4, <2>5, <2>6, <2>7 DEF Tidy, Sound
<1>3. CASE ~(Visible(c) # None /\ Running(c, Visible(c)) /\ c.pending = c.selection
             /\ (c.awaiting = None \/ c.awaiting.of # c.selection))
  <2>1. Reveal(c) = c
    BY <1>3 DEF Reveal
  <2> QED
    BY <1>3, <2>1 DEF Revealed, Sound
<1> QED
  BY <1>2, <1>3

\* show puts a tab of a listed session in front, and may ask for its relaunch.
LEMMA ShowIs ==
  ASSUME NEW c, Sound(c), NEW a \in c.agents, NEW s \in Shell, c.shells[s] # None, NEW focus
  PROVE  LET d == Show(c, s, a, focus) IN
         /\ Sound(d) /\ Revealed(d)
         /\ d.agents = c.agents /\ d.shells = c.shells /\ d.awaiting = c.awaiting
         /\ \/ d.sent = c.sent
            \/ d.sent = Append(c.sent, [kind |-> "restart", shell |-> s])
<1> DEFINE A == [c.active EXCEPT ![a] = s]
           P == c.panel \cup {a}
           p == IF focus THEN a ELSE c.pending
           q == IF Running(c, s) THEN c.sent ELSE Append(c.sent, [kind |-> "restart", shell |-> s])
           e == [c EXCEPT !.active = A, !.panel = P, !.pending = p, !.sent = q]
<1>1. c \in Clients /\ a \in Agent
  BY DEF Sound, Tidy, Clients
<1>2. /\ A \in [Agent -> Shell \cup {None}] /\ P \in SUBSET Agent /\ p \in Agent \cup {None}
      /\ P \subseteq c.agents \cup c.panel /\ p \in {a, c.pending}
  BY <1>1 DEF Clients
<1>3. q \in Seq(Requests)
  <2>1. [kind |-> "restart", shell |-> s] \in Requests
    BY DEF Requests
  <2>2. c.sent \in Seq(Requests)
    BY <1>1 DEF Clients
  <2> QED
    BY <2>1, <2>2
<1>4. Show(c, s, a, focus) = Reveal(e)
  <2>1. e = [c EXCEPT !.active[a] = s, !.panel = @ \cup {a}, !.pending = IF focus THEN a ELSE @,
              !.sent = IF Running(c, s) THEN @ ELSE Append(@, [kind |-> "restart", shell |-> s])]
    BY <1>1 DEF Clients
  <2> QED
    BY <2>1 DEF Show
<1>5. q \in {c.sent, Append(c.sent, [kind |-> "restart", shell |-> s])}
  OBVIOUS
<1> HIDE DEF A, P, p, q
<1>6. /\ e.agents = c.agents /\ e.shells = c.shells /\ e.selection = c.selection /\ e.panel = P
      /\ e.active = A /\ e.awaiting = c.awaiting /\ e.sent = q
      /\ e.pending = p /\ e.keyboard = c.keyboard /\ e \in Clients
  BY <1>1, <1>2, <1>3 DEF Clients
<1> HIDE DEF e
<1>7. Sound(e)
  BY <1>1, <1>2, <1>6 DEF Sound, Tidy, Nested, StillAwaits, ShellKeys, Forgets
<1> QED
  BY <1>4, <1>5, <1>6, <1>7, RevealIs DEF Sound

\* closeShell leaves no focus pending where it was.
LEMMA CloseShellIs ==
  ASSUME NEW c, Sound(c), Revealed(c), NEW a \in c.agents
  PROVE  LET d == CloseShell(c, a) IN
         /\ Sound(d) /\ Revealed(d)
         /\ d.agents = c.agents /\ d.shells = c.shells /\ d.awaiting = c.awaiting /\ d.sent = c.sent
<1> DEFINE P == c.panel \ {a}
           p == IF c.pending = a THEN None ELSE c.pending
           k == IF ActiveShell(c, a) # None /\ c.keyboard = ActiveShell(c, a) /\ a = Selected(c) THEN a ELSE c.keyboard
           d == [c EXCEPT !.panel = P, !.pending = p, !.keyboard = k]
<1>1. c \in Clients /\ a \in Agent
  BY DEF Sound, Tidy, Clients
<1>2. CloseShell(c, a) = d
  BY <1>1 DEF Clients, CloseShell
<1>3. P \subseteq c.panel /\ a \notin P /\ p \in {None, c.pending} /\ p # a /\ k \in {a, c.keyboard}
  BY <1>1, NotAmong
<1> HIDE DEF P, p, k
<1>4. /\ d.agents = c.agents /\ d.shells = c.shells /\ d.selection = c.selection /\ d.panel = P
      /\ d.active = c.active /\ d.awaiting = c.awaiting /\ d.sent = c.sent
      /\ d.pending = p /\ d.keyboard = k /\ d \in Clients
  BY <1>1, <1>3 DEF Clients
<1> HIDE DEF d
<1>5. Sound(d)
  BY <1>1, <1>3, <1>4, NotAmong DEF Sound, Tidy, Nested, StillAwaits, ShellKeys, Forgets
<1>6. Revealed(d)
  <2> SUFFICES ASSUME Visible(d) # None, Running(d, Visible(d)), d.pending = d.selection
               PROVE  d.awaiting # None /\ d.awaiting.of = d.selection
    BY DEF Revealed
  <2>1. /\ d.selection \in P /\ d.selection # None /\ Selected(d) = d.selection
        /\ Visible(d) = ActiveShell(d, d.selection)
    BY <1>4, VisibleIs, SelectedIs
  <2>2. Selected(c) = c.selection /\ c.selection \in c.panel
    BY <1>3, <1>4, <2>1 DEF Selected
  <2>3. Visible(d) = Visible(c)
    <3>1. ActiveShell(d, c.selection) = ActiveShell(c, c.selection)
      BY <1>4, TabIs
    <3> QED
      BY <1>4, <2>1, <2>2, <3>1 DEF Visible
  <2>4. Running(c, Visible(c)) /\ c.pending = c.selection
    BY <1>3, <1>4, <2>1, <2>3 DEF Running
  <2> QED
    BY <1>4, <2>3, <2>4 DEF Revealed
<1> QED
  BY <1>2, <1>4, <1>5, <1>6

\* The tab in a closed one's place is another of the session's.
LEMMA FallbackIn ==
  ASSUME NEW rest \in SUBSET Shell, rest # {}, NEW s \in Shell
  PROVE  Fallback(rest, s) \in rest
<1>1. rest \in SUBSET Nat /\ IsFiniteSet(rest) /\ {t \in rest : t > s} \in SUBSET Nat
  BY PanelAssumption, FS_Subset
<1>2. Max(rest) \in rest
  BY <1>1, MaxIn
<1>3. {t \in rest : t > s} # {} => Min({t \in rest : t > s}) \in {t \in rest : t > s}
  BY <1>1, MinIn
<1> QED
  BY <1>2, <1>3 DEF Fallback

\* What is sent before a method is called changes nothing else.
LEMMA SendingIs ==
  ASSUME NEW c, Sound(c), Revealed(c), NEW r \in Requests
  PROVE  LET d == [c EXCEPT !.sent = Append(@, r)] IN
         /\ Sound(d) /\ Revealed(d)
         /\ d.agents = c.agents /\ d.shells = c.shells /\ d.awaiting = c.awaiting
         /\ d.keyboard = c.keyboard /\ d.active = c.active
         /\ d.sent = Append(c.sent, r)
<1> DEFINE q == Append(c.sent, r)
           d == [c EXCEPT !.sent = q]
<1>1. c \in Clients /\ q \in Seq(Requests)
  <2>1. c \in Clients /\ c.sent \in Seq(Requests)
    BY DEF Sound, Tidy, Clients
  <2> QED
    BY <2>1
<1>2. d = [c EXCEPT !.sent = Append(@, r)]
  BY <1>1 DEF Clients
<1> HIDE DEF q
<1>3. /\ d.agents = c.agents /\ d.shells = c.shells /\ d.selection = c.selection /\ d.panel = c.panel
      /\ d.active = c.active /\ d.awaiting = c.awaiting /\ d.sent = q
      /\ d.pending = c.pending /\ d.keyboard = c.keyboard /\ d \in Clients
  BY <1>1 DEF Clients
<1> HIDE DEF d
<1>4. Sound(d)
  BY <1>3 DEF Sound, Tidy, Nested, StillAwaits, ShellKeys, Forgets
<1>5. Revealed(d)
  BY <1>3, ViewIs
<1> QED
  BY <1>2, <1>3, <1>4, <1>5 DEF q

\* Kills are sent of shells that are listed.
OnlyListed(q, l) == \A i \in DOMAIN q : q[i].kind = "kill" /\ q[i].id \in Shell => l.shells[q[i].id] # None

LEMMA AppendListed ==
  ASSUME NEW q \in Seq(Requests), NEW r \in Requests, NEW l, OnlyListed(q, l),
         r.kind = "kill" /\ r.id \in Shell => l.shells[r.id] # None
  PROVE  OnlyListed(Append(q, r), l)
<1>1. \A i \in DOMAIN Append(q, r) : Append(q, r)[i] = r \/ (i \in DOMAIN q /\ Append(q, r)[i] = q[i])
  BY AppendProperties
<1> HIDE DEF Requests
<1> QED
  BY <1>1 DEF OnlyListed

\* A tab that is closed has its shell killed, and another of its session may come to the front.
LEMMA CloseShellTabIs ==
  ASSUME NEW c, Sound(c), Revealed(c), c.sent = <<>>, NEW s \in Shell
  PROVE  LET d == CloseShellTab(c, s) IN
         /\ Sound(d) /\ Revealed(d)
         /\ d.agents = c.agents /\ d.shells = c.shells /\ d.awaiting = c.awaiting
         /\ d.sent \in Seq(Requests) /\ OnlyListed(d.sent, c)
<1> DEFINE r == [kind |-> "kill", id |-> s]
           killed == [c EXCEPT !.sent = Append(@, r)]
           a == c.shells[s].of
           rest == ShellKeys(c, a) \ {s}
           d == CloseShellTab(c, s)
<1>0. c \in Clients /\ <<>> \in Seq(Requests) /\ OnlyListed(<<>>, c)
  BY DEF Sound, Tidy, OnlyListed
<1>1. CASE c.shells[s] = None
  BY <1>0, <1>1 DEF CloseShellTab
<1>2. CASE c.shells[s] # None
  <2>1. r \in Requests /\ r.kind = "kill" /\ r.id = s
    BY DEF Requests
  <2>2. /\ Sound(killed) /\ Revealed(killed)
        /\ killed.agents = c.agents /\ killed.shells = c.shells /\ killed.awaiting = c.awaiting
        /\ killed.sent = Append(c.sent, r)
    BY <2>1, SendingIs
  <2>3. killed.sent \in Seq(Requests) /\ OnlyListed(killed.sent, c)
    <3> HIDE DEF r, killed
    <3>1. c.shells[r.id] # None /\ c.sent \in Seq(Requests) /\ OnlyListed(c.sent, c)
      BY <1>0, <1>2, <2>1
    <3>2. OnlyListed(Append(c.sent, r), c)
      BY <2>1, <3>1, AppendListed
    <3>3. Append(c.sent, r) \in Seq(Requests)
      BY <2>1, <3>1
    <3> QED
      BY <2>2, <3>2, <3>3
  <2>4. a \in c.agents
    BY <1>2 DEF Sound, Tidy, Nested
  <2>5. rest \in SUBSET Shell /\ \A t \in rest : c.shells[t] # None
    BY DEF ShellKeys
  <2>6. \/ d = CloseShell(killed, a) \/ d = killed
        \/ rest # {} /\ d = Show(killed, Fallback(rest, s), a, c.keyboard = s)
    BY <1>2 DEF CloseShellTab
  <2>10. CloseShellTab(c, s) = d
    OBVIOUS
  <2> HIDE DEF killed, a, rest, d, r
  <2>7. CASE d = CloseShell(killed, a)
    <3>1. a \in killed.agents
      BY <2>2, <2>4
    <3>2. /\ Sound(d) /\ Revealed(d)
          /\ d.agents = killed.agents /\ d.shells = killed.shells /\ d.awaiting = killed.awaiting
          /\ d.sent = killed.sent
      BY <2>2, <2>7, <3>1, CloseShellIs
    <3> QED
      BY <2>2, <2>3, <2>10, <3>2
  <2>8. CASE d = killed
    BY <2>2, <2>3, <2>8, <2>10
  <2>9. CASE rest # {} /\ d = Show(killed, Fallback(rest, s), a, c.keyboard = s)
    <3> DEFINE t == Fallback(rest, s)
               focus == c.keyboard = s
    <3>1. t \in Shell /\ killed.shells[t] # None /\ a \in killed.agents
      BY <2>2, <2>4, <2>5, <2>9, FallbackIn
    <3>2. d = Show(killed, t, a, focus)
      BY <2>9
    <3> HIDE DEF t, focus
    <3>3. /\ Sound(d) /\ Revealed(d)
          /\ d.agents = c.agents /\ d.shells = c.shells /\ d.awaiting = c.awaiting
          /\ \/ d.sent = killed.sent
             \/ d.sent = Append(killed.sent, [kind |-> "restart", shell |-> t])
      <4>1. /\ Sound(d) /\ Revealed(d)
            /\ d.agents = killed.agents /\ d.shells = killed.shells /\ d.awaiting = killed.awaiting
            /\ \/ d.sent = killed.sent
               \/ d.sent = Append(killed.sent, [kind |-> "restart", shell |-> t])
        <5>1. Sound(killed)
          BY <2>2
        <5> QED
          BY <3>1, <3>2, <5>1, ShowIs
      <4> QED
        BY <2>2, <4>1
    <3>4. [kind |-> "restart", shell |-> t] \in Requests
      BY <3>1 DEF Requests
    <3>5. OnlyListed(Append(killed.sent, [kind |-> "restart", shell |-> t]), c)
      BY <2>3, <3>4, AppendListed
    <3>6. d.sent \in Seq(Requests)
      BY <3>3 DEF Sound, Tidy, Clients
    <3> QED
      BY <2>3, <2>10, <3>3, <3>5, <3>6
  <2> QED
    BY <2>6, <2>7, <2>8, <2>9
<1> QED
  BY <1>1, <1>2

\* A new shell is asked for and awaited, and the session it is for has the selection.
LEMMA NewShellIs ==
  ASSUME NEW c, Sound(c), NEW a \in c.agents, Selected(c) = a
  PROVE  LET d == NewShell(c, a) IN
         /\ Sound(d) /\ Revealed(d)
         /\ d.agents = c.agents /\ d.shells = c.shells /\ d.awaiting = [of |-> a, known |-> ShellKeys(c, a)]
         /\ d.sent = Append(c.sent, [kind |-> "shell", of |-> a])
<1> DEFINE P == c.panel \cup {a}
           w == [of |-> a, known |-> ShellKeys(c, a)]
           q == Append(c.sent, [kind |-> "shell", of |-> a])
           d == [c EXCEPT !.panel = P, !.pending = a, !.awaiting = w, !.sent = q]
<1>1. c \in Clients /\ a \in Agent /\ P \in SUBSET Agent /\ c.selection = a
  BY NotAmong DEF Sound, Tidy, Clients, Selected
<1>2. w \in Awaited /\ w # None /\ w.of = a /\ w.known = ShellKeys(c, a)
  BY <1>1, NotAmong DEF Awaited, ShellKeys
<1>3. q \in Seq(Requests)
  <2>1. [kind |-> "shell", of |-> a] \in Requests /\ c.sent \in Seq(Requests)
    BY <1>1 DEF Requests, Clients
  <2> QED
    BY <2>1
<1>4. NewShell(c, a) = d
  BY <1>1 DEF NewShell, Clients
<1>5. P = c.panel \cup {a}
  OBVIOUS
<1> HIDE DEF P, w, q
<1>6. /\ d.agents = c.agents /\ d.shells = c.shells /\ d.selection = c.selection /\ d.panel = P
      /\ d.active = c.active /\ d.awaiting = w /\ d.sent = q
      /\ d.pending = a /\ d.keyboard = c.keyboard /\ d \in Clients
  BY <1>1, <1>2, <1>3 DEF Clients
<1> HIDE DEF d
<1>7. ShellKeys(d, a) = ShellKeys(c, a)
  BY <1>6 DEF ShellKeys
<1>8. Sound(d)
  BY <1>1, <1>2, <1>5, <1>6, <1>7 DEF Sound, Tidy, Nested, StillAwaits, Forgets
<1>9. Revealed(d)
  BY <1>1, <1>2, <1>6 DEF Revealed
<1> QED
  BY <1>4, <1>6, <1>8, <1>9 DEF w, q

\* forget leaves nothing of the sessions that are not listed any more.
Gone(c, l) ==
  {a \in c.agents : a \notin l.agents} \cup {s \in Shell : c.shells[s] # None /\ l.shells[s] = None}
Heard(c, l) == Forget([c EXCEPT !.agents = l.agents, !.shells = l.shells], Gone(c, l))

LEMMA HeardIs ==
  ASSUME NEW c, Sound(c), c.sent = <<>>, NEW l \in Lists, Nested(l)
  PROVE  LET d == Heard(c, l) IN
         /\ Tidy(d) /\ d.agents = l.agents /\ d.shells = l.shells
         /\ d.awaiting \in {None, c.awaiting} /\ d.sent = <<>>
<1> DEFINE gone == Gone(c, l)
           A == [a \in Agent |-> IF a \in gone THEN None ELSE c.active[a]]
           P == c.panel \ gone
           p == IF c.pending \in gone THEN None ELSE c.pending
           w == IF c.awaiting # None /\ c.awaiting.of \in gone THEN None ELSE c.awaiting
           k == IF c.keyboard \in gone THEN None ELSE c.keyboard
           e == [c EXCEPT !.agents = l.agents, !.shells = l.shells]
           d == [c EXCEPT !.agents = l.agents, !.shells = l.shells, !.panel = P, !.active = A,
                   !.pending = p, !.awaiting = w, !.keyboard = k]
<1>0. gone = {a \in c.agents : a \notin l.agents} \cup {s \in Shell : c.shells[s] # None /\ l.shells[s] = None}
  BY DEF Gone
<1> HIDE DEF gone
<1>1. c \in Clients /\ l.agents \in SUBSET Agent /\ l.shells \in [Shell -> {None} \cup ShellEntry]
  BY DEF Sound, Tidy, Lists
<1>2. /\ e.panel = c.panel /\ e.active = c.active /\ e.pending = c.pending /\ e.awaiting = c.awaiting
      /\ e.keyboard = c.keyboard
  BY <1>1 DEF Clients
<1>3. Forget(e, gone) = [e EXCEPT !.panel = P, !.active = A, !.pending = p, !.awaiting = w, !.keyboard = k]
  <2> HIDE DEF e
  <2> QED
    BY <1>2, Zenon DEF Forget
<1>4. Forget(e, gone) = d
  <2> HIDE DEF P, A, p, w, k
  <2> QED
    BY <1>1, <1>3 DEF Clients
<1>5. /\ A \in [Agent -> Shell \cup {None}] /\ P \in SUBSET Agent /\ p \in Agent \cup {None}
      /\ w \in {None, c.awaiting} /\ w \in {None} \cup Awaited /\ k \in Agent \cup Shell \cup {None}
  BY <1>1 DEF Clients
<1>6. P \subseteq l.agents /\ p \in l.agents \cup {None} /\ (w # None => w.of \in l.agents)
  BY <1>0, <1>1, NotAmong DEF Sound, Tidy, Forgets
<1>7. (k \in Agent => k \in l.agents) /\ (k \in Shell => l.shells[k] # None)
  BY <1>0, <1>1, NotAmong DEF Sound, Tidy, Forgets
<1> HIDE DEF P, A, p, w, k, e
<1>8. /\ d.agents = l.agents /\ d.shells = l.shells /\ d.panel = P
      /\ d.awaiting = w /\ d.sent = c.sent
      /\ d.pending = p /\ d.keyboard = k /\ d \in Clients
  BY <1>1, <1>5 DEF Clients
<1>9. Heard(c, l) = d
  BY <1>4 DEF e, Heard, gone
<1> HIDE DEF d
<1>10. Tidy(d)
  BY <1>6, <1>7, <1>8 DEF Tidy, Nested, Forgets
<1> QED
  BY <1>5, <1>8, <1>9, <1>10

\* A selection that is gone goes elsewhere.
LEMMA PruningsAre ==
  ASSUME NEW c, Tidy(c), NEW d \in Prunings(c)
  PROVE  /\ Tidy(d) /\ d.agents = c.agents /\ d.shells = c.shells /\ d.awaiting = c.awaiting /\ d.sent = c.sent
<1>1. CASE d = c
  BY <1>1
<1>2. ASSUME NEW a \in c.agents, d = Reveal([c EXCEPT !.selection = a])
      PROVE  /\ Tidy(d) /\ d.agents = c.agents /\ d.shells = c.shells /\ d.awaiting = c.awaiting
             /\ d.sent = c.sent
  <2> DEFINE e == [c EXCEPT !.selection = a]
  <2>1. c \in Clients /\ a \in Agent
    BY DEF Tidy, Clients
  <2>2. /\ e.agents = c.agents /\ e.shells = c.shells /\ e.panel = c.panel
        /\ e.active = c.active /\ e.awaiting = c.awaiting /\ e.sent = c.sent
        /\ e.pending = c.pending /\ e.keyboard = c.keyboard /\ e \in Clients
    BY <2>1 DEF Clients
  <2>3. d = Reveal(e)
    BY <1>2
  <2> HIDE DEF e
  <2>4. Tidy(e)
    BY <2>2 DEF Tidy, Nested, Forgets
  <2> QED
    BY <2>2, <2>3, <2>4, RevealIs
<1> QED
  BY <1>1, <1>2 DEF Prunings

\* A new shell that has been awaited comes to the front, and is awaited no longer.
LEMMA AdoptIs ==
  ASSUME NEW c, Tidy(c)
  PROVE  LET d == AdoptNewShell(c) IN
         /\ Sound(d) /\ d.agents = c.agents /\ d.shells = c.shells
         /\ d.awaiting \in {None, c.awaiting} /\ d.sent = c.sent
<1> DEFINE b == c.awaiting.of
           fresh == IF c.awaiting = None THEN {} ELSE ShellKeys(c, b) \ c.awaiting.known
           A == [c.active EXCEPT ![b] = Min(fresh)]
           d == [c EXCEPT !.awaiting = None, !.active = A]
<1>1. c \in Clients
  BY DEF Tidy
<1>2. CASE fresh = {}
  BY <1>2 DEF AdoptNewShell, Sound, StillAwaits
<1>3. CASE fresh # {}
  <2>1. c.awaiting # None /\ b \in Agent /\ fresh \in SUBSET Nat /\ fresh \in SUBSET Shell
    BY <1>1, <1>3, PanelAssumption DEF Clients, Awaited, ShellKeys
  <2>2. Min(fresh) \in Shell
    BY <1>3, <2>1, MinIn
  <2>3. AdoptNewShell(c) = d
    BY <1>1, <1>3 DEF AdoptNewShell, Clients
  <2> HIDE DEF fresh
  <2>4. A \in [Agent -> Shell \cup {None}]
    BY <1>1, <2>1, <2>2 DEF Clients
  <2> HIDE DEF A, b
  <2>5. /\ d.agents = c.agents /\ d.shells = c.shells /\ d.panel = c.panel
        /\ d.awaiting = None /\ d.sent = c.sent
        /\ d.pending = c.pending /\ d.keyboard = c.keyboard /\ d \in Clients
    BY <1>1, <2>4 DEF Clients
  <2> HIDE DEF d
  <2>6. Sound(d)
    BY <2>5 DEF Sound, Tidy, Nested, Forgets, StillAwaits
  <2> QED
    BY <2>3, <2>5, <2>6
<1> QED
  BY <1>2, <1>3

--------------------------------------------------------------------------------
(***************************************************************************)
(* The order of lists.                                                     *)
(***************************************************************************)
\* The table's shells go from t to u, and the ids given out from ss to rr: no shell comes
\* back, and none changes its session.
NoneReturns(t, ss, u, rr) ==
  ss \subseteq rr /\ \A s \in ss : u[s] # None => t[s] # None /\ u[s].of = t[s].of

LEMMA OrderStays ==
  ASSUME NEW t, NEW ss, NEW u, NEW rr, NoneReturns(t, ss, u, rr), NEW f, Past(f, t, ss), NEW es, NEW q,
         InTurn(es, f, t, ss), KillsIn(q, f, t, ss)
  PROVE  Past(f, u, rr) /\ InTurn(es, f, u, rr) /\ KillsIn(q, f, u, rr)
<1>1. \A g : Past(g, t, ss) => Past(g, u, rr)
  BY DEF Past, NoneReturns
<1>2. \A g, h : Past(g, t, ss) /\ Before(g, h, t) => Before(g, h, u)
  BY DEF Past, Before, NoneReturns
<1>3. InTurn(es, f, u, rr)
  BY <1>1, <1>2 DEF InTurn
<1>4. KillsIn(q, f, u, rr)
  BY DEF KillsIn, NoneReturns
<1> QED
  BY <1>1, <1>3, <1>4

\* A list of the table is the newest.
LEMMA AppendList ==
  ASSUME NEW es \in Seq(Events), NEW t \in Lists, NEW ss, NEW f, InTurn(es, f, t.shells, ss), NEW l,
         Nested(t), Past(t.shells, t.shells, ss)
  PROVE  LET fs == Append(es, [kind |-> "sessions", list |-> t]) IN
         InTurn(fs, f, t.shells, ss) /\ LastIs(fs, l, t)
<1> DEFINE e == [kind |-> "sessions", list |-> t]
           fs == Append(es, e)
           n == Len(es) + 1
<1>1. e \in Events /\ e.list = t /\ e.kind = "sessions"
  BY DEF Events
<1>2. /\ DOMAIN fs = 1..n /\ n \in Nat /\ DOMAIN es = 1..Len(es) /\ Len(es) \in Nat /\ fs[n] = e
      /\ \A i \in DOMAIN es : fs[i] = es[i] /\ i \in DOMAIN fs /\ i # n
      /\ \A i \in DOMAIN fs : i = n \/ i \in DOMAIN es
      /\ n \in DOMAIN fs
  <2> HIDE DEF e
  <2> QED
    BY <1>1, LenProperties, AppendProperties
<1>3. \A g : Before(g, t.shells, t.shells)
  BY DEF Before
<1> HIDE DEF fs, e
<1>4. \A i \in DOMAIN es : IsList(fs, i) => IsList(es, i)
  BY <1>2 DEF IsList
<1>5. InTurn(fs, f, t.shells, ss)
  <2>1. ASSUME NEW i \in DOMAIN fs, IsList(fs, i)
        PROVE  Nested(fs[i].list) /\ Past(fs[i].list.shells, t.shells, ss) /\ Before(f, fs[i].list.shells, t.shells)
    <3>1. CASE i = n
      BY <1>1, <1>2, <1>3, <3>1
    <3>2. CASE i \in DOMAIN es
      BY <1>2, <1>4, <2>1, <3>2 DEF InTurn
    <3> QED
      BY <1>2, <3>1, <3>2
  <2>2. ASSUME NEW i \in DOMAIN fs, NEW j \in DOMAIN fs, i < j, IsList(fs, i), IsList(fs, j)
        PROVE  Before(fs[i].list.shells, fs[j].list.shells, t.shells)
    <3>1. CASE j = n
      BY <1>1, <1>2, <1>3, <3>1
    <3>2. CASE j \in DOMAIN es
      <4>1. i \in DOMAIN es
        BY <1>2, <2>2, <3>2
      <4> QED
        BY <1>2, <1>4, <2>2, <3>2, <4>1 DEF InTurn
    <3> QED
      BY <1>2, <3>1, <3>2
  <2> QED
    BY <2>1, <2>2 DEF InTurn
<1>6. LastIs(fs, l, t)
  <2>1. IsList(fs, n) /\ Same(fs[n].list, t)
    BY <1>1, <1>2 DEF IsList, Same
  <2>2. ASSUME NEW i \in DOMAIN fs, \A j \in DOMAIN fs : j > i => ~IsList(fs, j) PROVE i = n
    BY <1>2, <2>1, <2>2
  <2> QED
    BY <1>2, <2>1, <2>2 DEF LastIs
<1> QED
  BY <1>5, <1>6 DEF fs, e

\* Other events have no part in it.
LEMMA AppendOther ==
  ASSUME NEW es \in Seq(Events), NEW e \in Events, e.kind # "sessions", NEW f, NEW t, NEW ss, NEW l, NEW u
  PROVE  /\ InTurn(es, f, t, ss) => InTurn(Append(es, e), f, t, ss)
         /\ LastIs(es, l, u) => LastIs(Append(es, e), l, u)
<1> DEFINE fs == Append(es, e)
           n == Len(es) + 1
<1>1. /\ DOMAIN fs = 1..n /\ n \in Nat /\ DOMAIN es = 1..Len(es) /\ Len(es) \in Nat /\ fs[n] = e
      /\ \A i \in DOMAIN es : fs[i] = es[i] /\ i \in DOMAIN fs /\ i # n
      /\ \A i \in DOMAIN fs : i = n \/ i \in DOMAIN es
  BY LenProperties, AppendProperties
<1> HIDE DEF fs, n
<1>2. \A i : IsList(fs, i) <=> IsList(es, i)
  BY <1>1 DEF IsList
<1>3. \A i : IsList(es, i) => i \in DOMAIN es /\ i \in DOMAIN fs /\ fs[i] = es[i]
  BY <1>1 DEF IsList
<1>4. InTurn(es, f, t, ss) => InTurn(fs, f, t, ss)
  BY <1>2, <1>3 DEF InTurn
<1>5. LastIs(es, l, u) => LastIs(fs, l, u)
  BY <1>2, <1>3 DEF LastIs
<1> QED
  BY <1>4, <1>5 DEF fs

\* An event is handled: a list becomes the client's.
LEMMA TailInTurn ==
  ASSUME NEW es \in Seq(Events), es # <<>>, NEW f, NEW t, NEW ss, NEW l, NEW u
  PROVE  /\ ~IsList(es, 1) => /\ InTurn(es, f, t, ss) => InTurn(Tail(es), f, t, ss)
                              /\ LastIs(es, l, u) => LastIs(Tail(es), l, u)
         /\ IsList(es, 1) => /\ InTurn(es, f, t, ss) => InTurn(Tail(es), es[1].list.shells, t, ss)
                             /\ LastIs(es, l, u) => LastIs(Tail(es), es[1].list, u)
<1> DEFINE fs == Tail(es)
           n == Len(es)
<1>1. /\ n \in Nat \ {0} /\ DOMAIN es = 1..n /\ DOMAIN fs = 1..(n - 1)
      /\ \A i \in 1..(n - 1) : fs[i] = es[i + 1]
  BY LenProperties, EmptySeq, HeadTailProperties
<1> HIDE DEF fs, n
<1>2. \A i \in DOMAIN fs : i + 1 \in DOMAIN es /\ i + 1 > 1 /\ fs[i] = es[i + 1]
  BY <1>1
<1>3. \A i \in DOMAIN es : i = 1 \/ (i - 1 \in DOMAIN fs /\ i = (i - 1) + 1)
  BY <1>1
<1>4. 1 \in DOMAIN es /\ \A i, j \in DOMAIN fs : i < j <=> i + 1 < j + 1
  BY <1>1
<1>5. \A i \in DOMAIN fs : IsList(fs, i) <=> IsList(es, i + 1)
  BY <1>2 DEF IsList
<1>6. InTurn(es, f, t, ss) /\ ~IsList(es, 1) => InTurn(fs, f, t, ss)
  BY <1>2, <1>4, <1>5 DEF InTurn
<1>7. InTurn(es, f, t, ss) /\ IsList(es, 1) => InTurn(fs, es[1].list.shells, t, ss)
  BY <1>2, <1>4, <1>5 DEF InTurn
<1>8. ASSUME NEW i \in DOMAIN fs, \A j \in DOMAIN fs : j > i => ~IsList(fs, j)
      PROVE  \A j \in DOMAIN es : j > i + 1 => ~IsList(es, j)
  <2> SUFFICES ASSUME NEW j \in DOMAIN es, j > i + 1 PROVE ~IsList(es, j)
    OBVIOUS
  <2>1. j - 1 \in DOMAIN fs /\ j = (j - 1) + 1 /\ j - 1 > i
    BY <1>1
  <2> QED
    BY <1>5, <1>8, <2>1
<1>9. ASSUME \A i \in DOMAIN fs : ~IsList(fs, i) PROVE \A j \in DOMAIN es : j > 1 => ~IsList(es, j)
  <2> SUFFICES ASSUME NEW j \in DOMAIN es, j > 1 PROVE ~IsList(es, j)
    OBVIOUS
  <2>1. j - 1 \in DOMAIN fs /\ j = (j - 1) + 1
    BY <1>1
  <2> QED
    BY <1>5, <1>9, <2>1
<1>10. ASSUME LastIs(es, l, u), NEW m, IF IsList(es, 1) THEN m = es[1].list ELSE m = l
       PROVE  LastIs(fs, m, u)
  <2>1. ASSUME NEW i \in DOMAIN fs, IsList(fs, i), \A j \in DOMAIN fs : j > i => ~IsList(fs, j)
        PROVE  Same(fs[i].list, u)
    <3>1. \A j \in DOMAIN es : j > i + 1 => ~IsList(es, j)
      BY <1>8, <2>1
    <3> QED
      BY <1>2, <1>5, <1>10, <2>1, <3>1 DEF LastIs
  <2>2. ASSUME \A i \in DOMAIN fs : ~IsList(fs, i) PROVE Same(m, u)
    <3>1. \A j \in DOMAIN es : j > 1 => ~IsList(es, j)
      BY <1>9, <2>2
    <3>2. CASE IsList(es, 1)
      BY <1>4, <1>10, <3>1, <3>2 DEF LastIs
    <3>3. CASE ~IsList(es, 1)
      <4>1. \A j \in DOMAIN es : ~IsList(es, j)
        BY <1>1, <3>1, <3>3
      <4> QED
        BY <1>10, <3>3, <4>1 DEF LastIs
    <3> QED
      BY <3>2, <3>3
  <2> QED
    BY <2>1, <2>2 DEF LastIs
<1> QED
  BY <1>6, <1>7, <1>10 DEF fs

LEMMA PrefixInTurn ==
  ASSUME NEW es \in Seq(Events), NEW n \in 0..Len(es), NEW f, NEW t, NEW ss, InTurn(es, f, t, ss)
  PROVE  SubSeq(es, 1, n) \in Seq(Events) /\ InTurn(SubSeq(es, 1, n), f, t, ss)
<1> DEFINE fs == SubSeq(es, 1, n)
<1>1. /\ fs \in Seq(Events) /\ \A i \in DOMAIN fs : i \in DOMAIN es /\ fs[i] = es[i]
  <2>1. Len(es) \in Nat /\ DOMAIN es = 1..Len(es) /\ \A i \in 1..n : i \in 1..Len(es) /\ es[i] \in Events
    BY LenProperties, ElementOfSeq
  <2>2. fs = [i \in 1..n |-> es[i]]
    <3>1. fs = [i \in 1..(n - 1 + 1) |-> es[1 + i - 1]]
      BY <2>1 DEF SubSeq
    <3>2. n - 1 + 1 = n /\ \A i \in 1..n : 1 + i - 1 = i
      BY <2>1
    <3> QED
      BY <3>1, <3>2
  <2> QED
    BY <2>1, <2>2 DEF Seq
<1> HIDE DEF fs
<1>2. InTurn(fs, f, t, ss)
  BY <1>1 DEF InTurn, IsList
<1> QED
  BY <1>1, <1>2 DEF fs

--------------------------------------------------------------------------------
(***************************************************************************)
(* Requests.                                                               *)
(***************************************************************************)
LEMMA RequestsGrow ==
  ASSUME NEW q \in Seq(Requests), NEW r \in Seq(Requests)
  PROVE  /\ q \o r \in Seq(Requests)
         /\ ListAsked(q) \/ ListAsked(r) => ListAsked(q \o r)
         /\ \A a : ShellAsked(q, a) \/ ShellAsked(r, a) => ShellAsked(q \o r, a)
         /\ \A f, t, ss : KillsIn(q, f, t, ss) /\ KillsIn(r, f, t, ss) => KillsIn(q \o r, f, t, ss)
<1> DEFINE p == q \o r
           n == Len(q)
           m == Len(r)
<1>1. /\ p \in Seq(Requests) /\ DOMAIN q = 1..n /\ DOMAIN r = 1..m /\ DOMAIN p = 1..(n + m)
      /\ n \in Nat /\ m \in Nat
      /\ \A i \in 1..(n + m) : p[i] = IF i <= n THEN q[i] ELSE r[i - n]
  BY ConcatProperties, LenProperties
<1> HIDE DEF p, n, m
<1>2. \A i \in DOMAIN q : i \in DOMAIN p /\ p[i] = q[i]
  BY <1>1
<1>3. \A i \in DOMAIN r : i + n \in DOMAIN p /\ p[i + n] = r[i]
  BY <1>1
<1>4. \A i \in DOMAIN p : (i \in DOMAIN q /\ p[i] = q[i]) \/ (i - n \in DOMAIN r /\ p[i] = r[i - n])
  BY <1>1
<1>5. ListAsked(q) \/ ListAsked(r) => ListAsked(p)
  BY <1>2, <1>3 DEF ListAsked
<1>6. \A a : ShellAsked(q, a) \/ ShellAsked(r, a) => ShellAsked(p, a)
  BY <1>2, <1>3 DEF ShellAsked
<1>7. \A f, t, ss : KillsIn(q, f, t, ss) /\ KillsIn(r, f, t, ss) => KillsIn(p, f, t, ss)
  BY <1>4 DEF KillsIn
<1> QED
  BY <1>1, <1>5, <1>6, <1>7 DEF p

LEMMA RequestsShrink ==
  ASSUME NEW q \in Seq(Requests), q # <<>>
  PROVE  /\ Tail(q) \in Seq(Requests) /\ Head(q) \in Requests /\ 1 \in DOMAIN q /\ q[1] = Head(q)
         /\ ListAsked(q) => Head(q).kind = "list" \/ ListAsked(Tail(q))
         /\ \A a : ShellAsked(q, a) => (Head(q).kind = "shell" /\ Head(q).of = a) \/ ShellAsked(Tail(q), a)
         /\ \A f, t, ss : KillsIn(q, f, t, ss) => KillsIn(Tail(q), f, t, ss)
<1> DEFINE p == Tail(q)
           n == Len(q)
<1>1. /\ n \in Nat \ {0} /\ DOMAIN q = 1..n /\ DOMAIN p = 1..(n - 1)
      /\ \A i \in 1..(n - 1) : p[i] = q[i + 1]
      /\ p \in Seq(Requests) /\ Head(q) = q[1] /\ Head(q) \in Requests
  BY LenProperties, EmptySeq, HeadTailProperties
<1> HIDE DEF p, n
<1>2. \A i \in DOMAIN q : i = 1 \/ (i - 1 \in DOMAIN p /\ p[i - 1] = q[i])
  BY <1>1
<1>3. \A i \in DOMAIN p : i + 1 \in DOMAIN q /\ p[i] = q[i + 1]
  BY <1>1
<1>4. 1 \in DOMAIN q
  BY <1>1
<1>5. ListAsked(q) => Head(q).kind = "list" \/ ListAsked(p)
  BY <1>1, <1>2 DEF ListAsked
<1>6. \A a : ShellAsked(q, a) => (Head(q).kind = "shell" /\ Head(q).of = a) \/ ShellAsked(p, a)
  BY <1>1, <1>2 DEF ShellAsked
<1>7. \A f, t, ss : KillsIn(q, f, t, ss) => KillsIn(p, f, t, ss)
  BY <1>3 DEF KillsIn
<1> QED
  BY <1>1, <1>4, <1>5, <1>6, <1>7 DEF p

\* What has been listed may be killed.
LEMMA ListedKills ==
  ASSUME NEW q, NEW c, OnlyListed(q, c), NEW t, NEW ss, Past(c.shells, t, ss)
  PROVE  KillsIn(q, c.shells, t, ss)
BY DEF OnlyListed, KillsIn, Past

--------------------------------------------------------------------------------
(***************************************************************************)
(* Steps of the client.                                                    *)
(***************************************************************************)
LEMMA SentIs ==
  ASSUME NEW c, Sound(c), Revealed(c)
  PROVE  LET d == [c EXCEPT !.sent = <<>>] IN
         /\ Sound(d) /\ Revealed(d) /\ d.sent = <<>>
         /\ d.agents = c.agents /\ d.shells = c.shells /\ d.awaiting = c.awaiting
<1> DEFINE d == [c EXCEPT !.sent = <<>>]
<1>1. c \in Clients /\ <<>> \in Seq(Requests)
  BY DEF Sound, Tidy
<1>2. /\ d.agents = c.agents /\ d.shells = c.shells /\ d.selection = c.selection /\ d.panel = c.panel
      /\ d.active = c.active /\ d.awaiting = c.awaiting /\ d.sent = <<>>
      /\ d.pending = c.pending /\ d.keyboard = c.keyboard /\ d \in Clients
  BY <1>1 DEF Clients
<1> HIDE DEF d
<1>3. Sound(d)
  BY <1>2 DEF Sound, Tidy, Nested, StillAwaits, ShellKeys, Forgets
<1>4. Revealed(d)
  BY <1>2, ViewIs
<1>5. d = [c EXCEPT !.sent = <<>>]
  BY DEF d
<1> QED
  BY <1>2, <1>3, <1>4, <1>5

\* A method that is no list's keeps the invariant.
LEMMA MethodFits ==
  ASSUME PanelInv, NEW d, Sound(d), Revealed(d), d.agents = client.agents, d.shells = client.shells,
         OnlyListed(d.sent, client),
         \/ d.awaiting = client.awaiting
         \/ \E a \in Agent : /\ d.awaiting = [of |-> a, known |-> ShellKeys(client, a)]
                             /\ ShellAsked(d.sent, a),
         NEW rest, Becomes(d, rest),
         rest = events \/ (events # <<>> /\ ~IsList(events, 1) /\ rest = Tail(events)),
         UNCHANGED <<daemonVars, up, missed>>, moves' \in 0..MaxMoves
  PROVE  PanelInv'
<1>1. /\ Sound(client') /\ Revealed(client') /\ client'.sent = <<>> /\ client'.agents = client.agents
      /\ client'.shells = client.shells /\ client'.awaiting = d.awaiting
  BY SentIs DEF Becomes
<1>2. requests \in Seq(Requests) /\ d.sent \in Seq(Requests) /\ events \in Seq(Events)
  BY DEF PanelInv, PanelTypes, Sound, Tidy, Clients
<1>3. /\ rest \in Seq(Events) /\ InTurn(rest, client.shells, table.shells, issued)
      /\ LastIs(events, client, table) => LastIs(rest, client, table)
  <2>1. CASE rest = events
    BY <1>2, <2>1 DEF PanelInv, OrderFit
  <2>2. CASE events # <<>> /\ ~IsList(events, 1) /\ rest = Tail(events)
    BY <1>2, <2>2, TailInTurn, HeadTailProperties DEF PanelInv, OrderFit
  <2> QED
    BY <2>1, <2>2
<1>4. KillsIn(d.sent, client.shells, table.shells, issued)
  BY ListedKills DEF PanelInv, OrderFit
<1>5. /\ requests' \in Seq(Requests) /\ KillsIn(requests', client.shells, table.shells, issued)
      /\ ListAsked(requests) => ListAsked(requests')
      /\ \A a : ShellAsked(requests, a) \/ (up /\ ShellAsked(d.sent, a)) => ShellAsked(requests', a)
  BY <1>2, <1>4, RequestsGrow DEF PanelInv, KillsFit, Becomes
<1>6. PanelTypes'
  BY <1>1, <1>3, <1>5 DEF PanelInv, PanelTypes, Sound, Tidy, Becomes, daemonVars
<1>7. OrderFit' /\ KillsFit'
  BY <1>1, <1>3, <1>5 DEF PanelInv, OrderFit, KillsFit, Becomes, daemonVars
<1>8. SyncFit'
  <2>1. LastIs(rest, client, table) => LastIs(rest, client', table)
    BY <1>1 DEF LastIs, Same
  <2> QED
    BY <1>3, <1>5, <2>1 DEF PanelInv, SyncFit, Becomes, daemonVars
<1>9. AwaitFit'
  <2>1. CASE d.awaiting = client.awaiting
    BY <1>1, <1>5, <2>1 DEF PanelInv, AwaitFit, Comes, daemonVars
  <2>2. ASSUME NEW a \in Agent, d.awaiting = [of |-> a, known |-> ShellKeys(client, a)], ShellAsked(d.sent, a)
        PROVE  AwaitFit'
    <3>1. ShellKeys(client, a) \subseteq issued
      BY DEF PanelInv, OrderFit, Past, ShellKeys
    <3>2. missed \/ up
      BY DEF PanelInv, SyncFit
    <3>3. missed \/ ShellAsked(requests', a)
      BY <1>5, <2>2, <3>2
    <3> QED
      BY <1>1, <2>2, <3>1, <3>3 DEF AwaitFit, Comes, daemonVars
  <2> QED
    BY <2>1, <2>2
<1> QED
  BY <1>1, <1>6, <1>7, <1>8, <1>9 DEF PanelInv

\* A list is taken over.
LEMMA ListFits ==
  ASSUME PanelInv, events # <<>>, IsList(events, 1), OnSessions(events[1].list),
         UNCHANGED <<daemonVars, up, moves, missed>>
  PROVE  PanelInv'
<1> DEFINE l == events[1].list
           heard == Heard(client, l)
<1>1. l \in Lists /\ Nested(l) /\ Past(l.shells, table.shells, issued) /\ Before(client.shells, l.shells, table.shells)
  <2>1. 1 \in DOMAIN events /\ events[1] \in Events /\ events[1].kind = "sessions"
    <3>1. 1 \in DOMAIN events /\ events[1].kind = "sessions" /\ events \in Seq(Events)
      BY DEF IsList, PanelInv, PanelTypes
    <3> QED
      BY <3>1, ElementOfSeq, LenProperties
  <2>2. l \in Lists
    BY <2>1 DEF Events
  <2> QED
    BY <2>1, <2>2 DEF PanelInv, OrderFit, InTurn
<1>2. PICK c \in Prunings(heard) : Becomes(Reveal(AdoptNewShell(c)), Tail(events))
  BY DEF OnSessions, Heard, Gone
<1> DEFINE d == Reveal(AdoptNewShell(c))
<1>3. /\ Tidy(heard) /\ heard.agents = l.agents /\ heard.shells = l.shells
      /\ heard.awaiting \in {None, client.awaiting} /\ heard.sent = <<>>
  <2>1. Sound(client) /\ client.sent = <<>>
    BY DEF PanelInv, PanelTypes
  <2>2. l \in Lists /\ Nested(l)
    BY <1>1
  <2> HIDE DEF l
  <2> QED
    BY <2>1, <2>2, HeardIs
<1> HIDE DEF heard, l
<1>4. /\ Tidy(c) /\ c.agents = l.agents /\ c.shells = l.shells
      /\ c.awaiting \in {None, client.awaiting} /\ c.sent = <<>>
  BY <1>2, <1>3, PruningsAre
<1>5. /\ Sound(d) /\ Revealed(d) /\ d.agents = l.agents /\ d.shells = l.shells
      /\ d.awaiting \in {None, client.awaiting} /\ d.sent = <<>>
  <2> DEFINE e == AdoptNewShell(c)
  <2>1. /\ Sound(e) /\ e.agents = c.agents /\ e.shells = c.shells
        /\ e.awaiting \in {None, c.awaiting} /\ e.sent = c.sent
    BY <1>4, AdoptIs
  <2>2. d = Reveal(e)
    OBVIOUS
  <2> HIDE DEF e, d
  <2> QED
    BY <1>4, <2>1, <2>2, RevealIs DEF Sound
<1>6. Becomes(d, Tail(events))
  BY <1>2
<1> HIDE DEF d
<1>7. /\ Sound(client') /\ Revealed(client') /\ client'.sent = <<>> /\ client'.agents = l.agents
      /\ client'.shells = l.shells /\ client'.awaiting \in {None, client.awaiting}
  BY <1>5, <1>6, SentIs DEF Becomes
<1>8. requests' = requests
  <2>1. requests \in Seq(Requests)
    BY DEF PanelInv, PanelTypes
  <2> QED
    BY <1>5, <1>6, <2>1, ConcatEmptySeq DEF Becomes
<1>9. /\ events' \in Seq(Events) /\ InTurn(events', l.shells, table.shells, issued)
      /\ LastIs(events, client, table) => LastIs(events', l, table)
  <2>1. events \in Seq(Events) /\ InTurn(events, client.shells, table.shells, issued) /\ events' = Tail(events)
    BY <1>6 DEF PanelInv, PanelTypes, OrderFit, Becomes
  <2> QED
    BY <2>1, TailInTurn, HeadTailProperties DEF l
<1>10. PanelTypes'
  BY <1>7, <1>8, <1>9 DEF PanelInv, PanelTypes, Sound, Tidy, daemonVars
<1>11. OrderFit'
  BY <1>1, <1>7, <1>9 DEF PanelInv, OrderFit, daemonVars
<1>12. KillsFit'
  BY <1>1, <1>7, <1>8 DEF PanelInv, KillsFit, KillsIn, Before, daemonVars
<1>13. SyncFit'
  <2>1. LastIs(events', l, table) => LastIs(events', client', table)
    BY <1>7 DEF LastIs, Same
  <2> QED
    BY <1>8, <1>9, <2>1 DEF PanelInv, SyncFit, daemonVars
<1>14. AwaitFit'
  BY <1>7, <1>8 DEF PanelInv, AwaitFit, daemonVars
<1> QED
  BY <1>7, <1>10, <1>11, <1>12, <1>13, <1>14 DEF PanelInv

\* What the invariant says of the client between two methods.
LEMMA AtRest ==
  ASSUME PanelInv
  PROVE  /\ Sound(client) /\ Revealed(client) /\ client \in Clients /\ client.sent = <<>>
         /\ <<>> \in Seq(Requests) /\ OnlyListed(<<>>, client) /\ moves \in 0..MaxMoves
BY DEF PanelInv, PanelTypes, OnlyListed

LEMMA MovesIs == ASSUME PanelInv, Moves PROVE moves' \in 0..MaxMoves
BY PanelAssumption DEF PanelInv, PanelTypes, Moves

LEMMA CommandFits ==
  ASSUME PanelInv, NEW a \in Agent, Command(a)
  PROVE  PanelInv'
<1>1. Asks
  BY DEF Command, NewTab, ToggleShell, PickTab, CloseTab, KillAgent
<1>2. moves' \in 0..MaxMoves /\ UNCHANGED <<daemonVars, up, missed>>
  BY <1>1, MovesIs DEF Asks
<1>3. Selected(client) = a => a \in client.agents
  BY AtRest, SelectedIs, NotAmong
<1>4. CASE NewTab(a)
  <2> DEFINE d == NewShell(client, a)
             r == [kind |-> "shell", of |-> a]
  <2>1. Selected(client) = a /\ Becomes(d, events)
    BY <1>4 DEF NewTab
  <2>2. /\ Sound(d) /\ Revealed(d) /\ d.agents = client.agents /\ d.shells = client.shells
        /\ d.awaiting = [of |-> a, known |-> ShellKeys(client, a)] /\ d.sent = Append(client.sent, r)
    BY <1>3, <2>1, AtRest, NewShellIs
  <2>3. r \in Requests /\ r.kind = "shell" /\ r.of = a
    BY DEF Requests
  <2> HIDE DEF d, r
  <2>4. OnlyListed(d.sent, client)
    BY <2>2, <2>3, AtRest, AppendListed
  <2>5. ShellAsked(d.sent, a)
    <3>1. Len(Append(<<>>, r)) = 1 /\ Append(<<>>, r)[1] = r /\ 1 \in DOMAIN Append(<<>>, r)
      OBVIOUS
    <3> QED
      BY <2>2, <2>3, <3>1, AtRest DEF ShellAsked
  <2> QED
    BY <1>2, <2>1, <2>2, <2>4, <2>5, MethodFits
<1>5. CASE ToggleShell(a)
  <2>1. CASE a \in client.panel /\ Becomes(CloseShell(client, a), events)
    <3> DEFINE d == CloseShell(client, a)
    <3>1. a \in client.agents
      BY <1>3, <1>5 DEF ToggleShell
    <3>2. /\ Sound(d) /\ Revealed(d) /\ d.agents = client.agents /\ d.shells = client.shells
          /\ d.awaiting = client.awaiting /\ d.sent = client.sent
      BY <3>1, AtRest, CloseShellIs
    <3>3. Becomes(d, events)
      BY <2>1
    <3> HIDE DEF d
    <3> QED
      BY <1>2, <3>2, <3>3, AtRest, MethodFits
  <2>2. CASE ActiveShell(client, a) # None /\ Becomes(Show(client, ActiveShell(client, a), a, TRUE), events)
    <3> DEFINE s == ActiveShell(client, a)
               d == Show(client, s, a, TRUE)
               r == [kind |-> "restart", shell |-> s]
    <3>1. a \in client.agents
      BY <1>3, <1>5 DEF ToggleShell
    <3>2. s \in Shell /\ client.shells[s] # None
      BY <2>2, AtRest, KeysAre DEF ShellKeys
    <3>3. Becomes(d, events)
      BY <2>2
    <3>4. r \in Requests /\ r.kind = "restart"
      BY <3>2 DEF Requests
    <3> HIDE DEF s
    <3>5. /\ Sound(d) /\ Revealed(d) /\ d.agents = client.agents /\ d.shells = client.shells
          /\ d.awaiting = client.awaiting /\ (d.sent = client.sent \/ d.sent = Append(client.sent, r))
      BY <3>1, <3>2, AtRest, ShowIs
    <3> HIDE DEF d, r
    <3>6. OnlyListed(d.sent, client)
      BY <3>4, <3>5, AtRest, AppendListed
    <3> QED
      BY <1>2, <3>3, <3>5, <3>6, MethodFits
  <2> QED
    BY <1>5, <2>1, <2>2 DEF ToggleShell
<1>6. CASE KillAgent(a)
  <2> DEFINE r == [kind |-> "kill", id |-> a]
             d == [client EXCEPT !.sent = Append(@, r)]
  <2>1. r \in Requests /\ r.id \notin Shell
    BY NotAmong DEF Requests
  <2>2. Becomes(d, events)
    BY <1>6 DEF KillAgent
  <2> HIDE DEF r
  <2>3. /\ Sound(d) /\ Revealed(d) /\ d.agents = client.agents /\ d.shells = client.shells
        /\ d.awaiting = client.awaiting /\ d.sent = Append(client.sent, r)
    BY <2>1, AtRest, SendingIs
  <2> HIDE DEF d
  <2>4. OnlyListed(d.sent, client)
    BY <2>1, <2>3, AtRest, AppendListed
  <2> QED
    BY <1>2, <2>2, <2>3, <2>4, MethodFits
<1>7. ASSUME NEW s \in Shell, PickTab(a, s) PROVE PanelInv'
  <2> DEFINE d == Show(client, s, a, TRUE)
             r == [kind |-> "restart", shell |-> s]
  <2>1. a \in client.agents /\ client.shells[s] # None /\ Becomes(d, events)
    BY <1>3, <1>7 DEF PickTab, ShellKeys
  <2>2. r \in Requests /\ r.kind = "restart"
    BY DEF Requests
  <2>3. /\ Sound(d) /\ Revealed(d) /\ d.agents = client.agents /\ d.shells = client.shells
        /\ d.awaiting = client.awaiting /\ (d.sent = client.sent \/ d.sent = Append(client.sent, r))
    BY <2>1, AtRest, ShowIs
  <2> HIDE DEF d, r
  <2>4. OnlyListed(d.sent, client)
    BY <2>2, <2>3, AtRest, AppendListed
  <2> QED
    BY <1>2, <2>1, <2>3, <2>4, MethodFits
<1>8. ASSUME NEW s \in Shell, CloseTab(a, s) PROVE PanelInv'
  <2> DEFINE d == CloseShellTab(client, s)
  <2>1. Becomes(d, events)
    BY <1>8 DEF CloseTab
  <2>2. /\ Sound(d) /\ Revealed(d) /\ d.agents = client.agents /\ d.shells = client.shells
        /\ d.awaiting = client.awaiting /\ OnlyListed(d.sent, client)
    BY AtRest, CloseShellTabIs
  <2> HIDE DEF d
  <2> QED
    BY <1>2, <2>1, <2>2, MethodFits
<1> QED
  BY <1>4, <1>5, <1>6, <1>7, <1>8 DEF Command

LEMMA SelectFits ==
  ASSUME PanelInv, NEW a \in Agent, Select(a)
  PROVE  PanelInv'
<1> DEFINE e == [client EXCEPT !.selection = a]
           d == Reveal(e)
<1>1. /\ e.agents = client.agents /\ e.shells = client.shells /\ e.panel = client.panel
      /\ e.active = client.active /\ e.awaiting = client.awaiting /\ e.sent = client.sent
      /\ e.pending = client.pending /\ e.keyboard = client.keyboard /\ e \in Clients
  BY AtRest DEF Clients
<1>2. Becomes(d, events) /\ UNCHANGED <<daemonVars, up, missed>> /\ moves' \in 0..MaxMoves
  BY AtRest DEF Select
<1> HIDE DEF e
<1>3. Sound(e)
  BY <1>1, AtRest DEF Sound, Tidy, Nested, Forgets, StillAwaits, ShellKeys
<1>4. /\ Sound(d) /\ Revealed(d) /\ d.agents = client.agents /\ d.shells = client.shells
      /\ d.awaiting = client.awaiting /\ d.sent = <<>>
  BY <1>1, <1>3, AtRest, RevealIs DEF Sound
<1> HIDE DEF d
<1> QED
  BY <1>2, <1>4, AtRest, MethodFits

\* The keyboard goes to what is shown.
LEMMA FocusFits ==
  ASSUME PanelInv, Focus
  PROVE  PanelInv'
<1>1. PICK k \in {None, Selected(client), Visible(client)} : client' = [client EXCEPT !.keyboard = k]
  BY DEF Focus
<1>2. /\ k \in Agent \cup Shell \cup {None} /\ (k \in Agent => k \in client.agents)
      /\ (k \in Shell => client.shells[k] # None)
  <2>1. Selected(client) \in client.agents \cup {None} /\ client.agents \subseteq Agent
    BY AtRest, SelectedIs DEF Clients
  <2>2. Visible(client) # None => Visible(client) \in Shell /\ client.shells[Visible(client)] # None
    BY AtRest, VisibleIs
  <2> QED
    BY <1>1, <2>1, <2>2, NotAmong
<1>3. /\ client'.agents = client.agents /\ client'.shells = client.shells /\ client'.selection = client.selection
      /\ client'.panel = client.panel /\ client'.active = client.active /\ client'.awaiting = client.awaiting
      /\ client'.sent = client.sent /\ client'.pending = client.pending /\ client'.keyboard = k
      /\ client' \in Clients
  BY <1>1, <1>2, AtRest DEF Clients
<1>4. Sound(client')
  BY <1>2, <1>3, AtRest DEF Sound, Tidy, Nested, Forgets, StillAwaits, ShellKeys
<1>5. Revealed(client')
  BY <1>3, AtRest, ViewIs
<1>6. UNCHANGED <<daemonVars, wireVars, moves, missed>>
  BY DEF Focus
<1>7. PanelTypes' /\ OrderFit' /\ KillsFit' /\ AwaitFit'
  BY <1>3, <1>6 DEF PanelInv, PanelTypes, OrderFit, KillsFit, AwaitFit, daemonVars, wireVars
<1>8. SyncFit'
  BY <1>3, <1>6 DEF PanelInv, SyncFit, LastIs, Same, daemonVars, wireVars
<1> QED
  BY <1>4, <1>5, <1>7, <1>8 DEF PanelInv

LEMMA MainFits ==
  ASSUME PanelInv, Main
  PROVE  PanelInv'
<1>1. /\ events # <<>> /\ events \in Seq(Events) /\ Head(events) = events[1] /\ 1 \in DOMAIN events
      /\ events[1] \in Events
  <2>1. events \in Seq(Events) /\ events # <<>>
    BY DEF Main, PanelInv, PanelTypes
  <2>2. Len(events) \in Nat \ {0}
    BY <2>1, EmptySeq, LenProperties
  <2> QED
    BY <2>1, <2>2, HeadTailProperties, LenProperties, ElementOfSeq
<1>2. UNCHANGED <<daemonVars, up, moves, missed>> /\ moves' \in 0..MaxMoves
  BY AtRest DEF Main
<1> DEFINE e == events[1]
<1>3. CASE e.kind = "sessions" /\ OnSessions(e.list)
  BY <1>1, <1>2, <1>3, ListFits DEF IsList
<1>4. CASE e.kind = "exited" /\ OnExited(e.shell)
  <2> DEFINE s == e.shell
             d == CloseShellTab(client, s)
  <2>1. ~IsList(events, 1) /\ s \in Shell /\ Becomes(d, Tail(events))
    BY <1>1, <1>4 DEF IsList, Events, OnExited
  <2> HIDE DEF s
  <2>2. /\ Sound(d) /\ Revealed(d) /\ d.agents = client.agents /\ d.shells = client.shells
        /\ d.awaiting = client.awaiting /\ OnlyListed(d.sent, client)
    BY <2>1, AtRest, CloseShellTabIs
  <2> HIDE DEF d
  <2> QED
    BY <1>1, <1>2, <2>1, <2>2, MethodFits
<1>5. CASE e.kind = "error" /\ OnError
  <2> DEFINE a == client.pending
             d == IF a # None /\ ShellKeys(client, a) = {} THEN CloseShell(client, a) ELSE client
  <2>1. ~IsList(events, 1) /\ Becomes(d, Tail(events))
    BY <1>5 DEF IsList, OnError
  <2>2. a # None => a \in client.agents
    BY AtRest DEF Sound, Tidy, Forgets
  <2> HIDE DEF a
  <2>3. /\ Sound(d) /\ Revealed(d) /\ d.agents = client.agents /\ d.shells = client.shells
        /\ d.awaiting = client.awaiting /\ d.sent = client.sent
    BY <2>2, AtRest, CloseShellIs
  <2> HIDE DEF d
  <2> QED
    BY <1>1, <1>2, <2>1, <2>3, AtRest, MethodFits
<1>6. CASE e.kind = "up" /\ OnUp
  <2> DEFINE r == [kind |-> "list"]
             d == [client EXCEPT !.sent = Append(@, r)]
  <2>1. r \in Requests /\ r.kind = "list"
    BY DEF Requests
  <2>2. ~IsList(events, 1) /\ Becomes(d, Tail(events))
    BY <1>6 DEF IsList, OnUp
  <2> HIDE DEF r
  <2>3. /\ Sound(d) /\ Revealed(d) /\ d.agents = client.agents /\ d.shells = client.shells
        /\ d.awaiting = client.awaiting /\ d.sent = Append(client.sent, r)
    BY <2>1, AtRest, SendingIs
  <2> HIDE DEF d
  <2>4. OnlyListed(d.sent, client)
    BY <2>1, <2>3, AtRest, AppendListed
  <2> QED
    BY <1>1, <1>2, <2>2, <2>3, <2>4, MethodFits
<1> QED
  BY <1>1, <1>3, <1>4, <1>5, <1>6 DEF Main

--------------------------------------------------------------------------------
(***************************************************************************)
(* Steps of the daemon and of the connection.                              *)
(***************************************************************************)
LEMMA SystemFits ==
  ASSUME PanelInv, PanelTypes', UNCHANGED client,
         NoneReturns(table.shells, issued, table'.shells, issued'),
         Nested(table'), Past(table'.shells, table'.shells, issued'),
         InTurn(events, client.shells, table'.shells, issued') => InTurn(events', client.shells, table'.shells, issued'),
         requests' \in {requests, <<>>} \/ (requests # <<>> /\ requests' = Tail(requests)),
         SyncFit', AwaitFit'
  PROVE  PanelInv'
<1>1. /\ Past(client.shells, table'.shells, issued') /\ InTurn(events', client.shells, table'.shells, issued')
      /\ KillsIn(requests, client.shells, table'.shells, issued')
  BY OrderStays DEF PanelInv, OrderFit, KillsFit
<1>2. KillsIn(requests', client.shells, table'.shells, issued')
  <2>1. requests \in Seq(Requests)
    BY DEF PanelInv, PanelTypes
  <2>2. KillsIn(<<>>, client.shells, table'.shells, issued')
    BY DEF KillsIn
  <2> QED
    BY <1>1, <2>1, <2>2, RequestsShrink
<1>3. OrderFit' /\ KillsFit'
  BY <1>1, <1>2 DEF OrderFit, KillsFit
<1> QED
  BY <1>3 DEF PanelInv

\* The table goes from t to u, and only what state a shell is in may differ.
Relabels(t, u) ==
  /\ u.agents = t.agents
  /\ \A s \in Shell : /\ u.shells[s] = None <=> t.shells[s] = None
                      /\ t.shells[s] # None => u.shells[s].of = t.shells[s].of

LEMMA RelabelsAre ==
  ASSUME NEW t, NEW u, Relabels(t, u), NEW ss \in SUBSET Shell, Nested(t), Past(t.shells, t.shells, ss)
  PROVE  /\ NoneReturns(t.shells, ss, u.shells, ss) /\ Nested(u) /\ Past(u.shells, u.shells, ss)
         /\ \A es, l : LastIs(es, l, t) => LastIs(es, l, u)
         /\ \A w, q : Comes(w, q, t) => Comes(w, q, u)
<1>1. NoneReturns(t.shells, ss, u.shells, ss)
  BY DEF Relabels, NoneReturns
<1>2. Nested(u)
  BY DEF Relabels, Nested
<1>3. Past(u.shells, u.shells, ss)
  BY DEF Relabels, Past
<1>4. \A l : Same(l, t) => Same(l, u)
  BY DEF Relabels, Same
<1>5. \A es, l : LastIs(es, l, t) => LastIs(es, l, u)
  BY <1>4 DEF LastIs
<1>6. \A w, q : Comes(w, q, t) => Comes(w, q, u)
  BY DEF Relabels, Comes
<1> QED
  BY <1>1, <1>2, <1>3, <1>5, <1>6

LEMMA MarkIs ==
  ASSUME NEW t \in Lists, NEW s \in Shell, t.shells[s] # None, NEW x \in State
  PROVE  LET u == [t EXCEPT !.shells[s].state = x] IN u \in Lists /\ Relabels(t, u)
<1> DEFINE f == [t.shells EXCEPT ![s].state = x]
           u == [t EXCEPT !.shells[s].state = x]
<1>1. t.shells \in [Shell -> {None} \cup ShellEntry] /\ t.agents \in SUBSET Agent /\ t.shells[s] \in ShellEntry
  BY DEF Lists
<1>2. \A r \in Shell : f[r] = IF r = s THEN [t.shells[s] EXCEPT !.state = x] ELSE t.shells[r]
  BY <1>1
<1>3. [t.shells[s] EXCEPT !.state = x] \in ShellEntry /\ [t.shells[s] EXCEPT !.state = x].of = t.shells[s].of
  BY <1>1 DEF ShellEntry
<1>4. f \in [Shell -> {None} \cup ShellEntry]
  BY <1>1, <1>2, <1>3
<1>5. u = [t EXCEPT !.shells = f]
  BY DEF Lists
<1> HIDE DEF f
<1>6. u.shells = f /\ u.agents = t.agents /\ u \in Lists
  BY <1>1, <1>4, <1>5 DEF Lists
<1> HIDE DEF u
<1>7. Relabels(t, u)
  BY <1>2, <1>3, <1>6, NotAmong DEF Relabels
<1> QED
  BY <1>6, <1>7 DEF u

\* A step that leaves the sessions there are, and nothing that is due undone.
LEMMA RelabelFits ==
  ASSUME PanelInv, table' \in Lists, Relabels(table, table'), UNCHANGED <<issued, client>>,
         owed' \subseteq Shell, up' \in BOOLEAN, up => up', due' \in BOOLEAN, due => due',
         missed' \in BOOLEAN, missed => missed', moves' \in 0..MaxMoves,
         \/ events' = events
         \/ \E e \in Events : e.kind # "sessions" /\ events' = Append(events, e),
         \/ requests' = requests
         \/ /\ requests # <<>> /\ requests' = Tail(requests) /\ Head(requests).kind # "list"
            /\ Head(requests).kind = "shell" => missed' \/ Head(requests).of \notin table.agents
  PROVE  PanelInv'
<1>0. /\ requests \in Seq(Requests) /\ events \in Seq(Events) /\ issued \in SUBSET Shell
      /\ Nested(table) /\ Past(table.shells, table.shells, issued)
  BY DEF PanelInv, PanelTypes, OrderFit
<1>1. /\ NoneReturns(table.shells, issued, table'.shells, issued) /\ Nested(table')
      /\ Past(table'.shells, table'.shells, issued)
      /\ \A es, l : LastIs(es, l, table) => LastIs(es, l, table')
      /\ \A w, q : Comes(w, q, table) => Comes(w, q, table')
  BY <1>0, RelabelsAre
<1>2. /\ events' \in Seq(Events)
      /\ InTurn(events, client.shells, table'.shells, issued) => InTurn(events', client.shells, table'.shells, issued)
      /\ LastIs(events, client, table') => LastIs(events', client, table')
  <2>1. CASE events' = events
    BY <1>0, <2>1
  <2>2. ASSUME NEW e \in Events, e.kind # "sessions", events' = Append(events, e)
        PROVE  /\ events' \in Seq(Events)
               /\ InTurn(events, client.shells, table'.shells, issued) =>
                    InTurn(events', client.shells, table'.shells, issued)
               /\ LastIs(events, client, table') => LastIs(events', client, table')
    BY <1>0, <2>2, AppendOther, AppendProperties
  <2> QED
    BY <2>1, <2>2
<1>3. /\ requests' \in Seq(Requests) /\ (ListAsked(requests) => ListAsked(requests'))
      /\ \A w : Comes(w, requests, table) => missed' \/ Comes(w, requests', table)
  <2>1. CASE requests' = requests
    BY <1>0, <2>1
  <2>2. CASE requests' # requests
    <3>1. /\ requests # <<>> /\ requests' = Tail(requests) /\ Head(requests).kind # "list"
          /\ Head(requests).kind = "shell" => missed' \/ Head(requests).of \notin table.agents
      BY <2>2
    <3>2. /\ requests' \in Seq(Requests) /\ (ListAsked(requests) => ListAsked(requests'))
          /\ \A a : ShellAsked(requests, a) =>
               (Head(requests).kind = "shell" /\ Head(requests).of = a) \/ ShellAsked(requests', a)
      BY <1>0, <3>1, RequestsShrink
    <3>3. \A w : Comes(w, requests, table) => missed' \/ Comes(w, requests', table)
      BY <3>1, <3>2 DEF Comes
    <3> QED
      BY <3>2, <3>3
  <2> QED
    BY <2>1, <2>2
<1>4. PanelTypes'
  BY <1>2, <1>3 DEF PanelInv, PanelTypes
<1>5. SyncFit'
  BY <1>1, <1>2, <1>3 DEF PanelInv, PanelTypes, SyncFit
<1>6. AwaitFit'
  BY <1>1, <1>3 DEF PanelInv, PanelTypes, AwaitFit
<1> QED
  BY <1>0, <1>1, <1>2, <1>4, <1>5, <1>6, SystemFits

LEMMA SameTable == Relabels(table, table)
BY DEF Relabels

\* A list of the table is sent, because it has been asked for or because of a change.
LEMMA SessionsFit ==
  ASSUME PanelInv, events' = Append(events, Sessions), UNCHANGED <<table, issued, owed, up, client, moves, missed>>,
         due' \in BOOLEAN,
         requests' = requests \/ (requests # <<>> /\ requests' = Tail(requests) /\ Head(requests).kind = "list")
  PROVE  PanelInv'
<1>0. /\ requests \in Seq(Requests) /\ events \in Seq(Events) /\ table \in Lists /\ issued \in SUBSET Shell
      /\ Nested(table) /\ Past(table.shells, table.shells, issued)
      /\ InTurn(events, client.shells, table.shells, issued)
  BY DEF PanelInv, PanelTypes, OrderFit
<1>1. /\ Sessions \in Events /\ Sessions = [kind |-> "sessions", list |-> table]
  BY <1>0 DEF Sessions, Events
<1>2. /\ events' \in Seq(Events) /\ InTurn(events', client.shells, table.shells, issued)
      /\ LastIs(events', client, table)
  BY <1>0, <1>1, AppendList, AppendProperties
<1>3. requests' \in Seq(Requests) /\ \A a : ShellAsked(requests, a) => ShellAsked(requests', a)
  BY <1>0, RequestsShrink
<1>4. PanelTypes'
  BY <1>2, <1>3 DEF PanelInv, PanelTypes
<1>5. SyncFit'
  BY <1>2 DEF PanelInv, SyncFit
<1>6. AwaitFit'
  BY <1>3 DEF PanelInv, AwaitFit, Comes
<1>7. NoneReturns(table.shells, issued, table.shells, issued)
  BY DEF NoneReturns
<1> QED
  BY <1>0, <1>2, <1>4, <1>5, <1>6, <1>7, SystemFits

LEMMA ErrorIs == Error \in Events /\ Error.kind # "sessions"
BY DEF Error, Events

\* What every step of the daemon starts from.
LEMMA TablesAre ==
  ASSUME PanelInv
  PROVE  /\ table \in Lists /\ issued \in SUBSET Shell /\ owed \in SUBSET Shell /\ up \in BOOLEAN
         /\ due \in BOOLEAN /\ missed \in BOOLEAN /\ moves \in 0..MaxMoves
         /\ requests \in Seq(Requests) /\ events \in Seq(Events)
         /\ table.agents \in SUBSET Agent /\ table.shells \in [Shell -> {None} \cup ShellEntry]
         /\ Nested(table) /\ Past(table.shells, table.shells, issued)
         /\ Past(client.shells, table.shells, issued)
         /\ \A s \in Shell : table.shells[s] # None =>
              table.shells[s].of \in table.agents /\ s \in issued /\ table.shells[s] \in ShellEntry
BY DEF PanelInv, PanelTypes, OrderFit, Lists, Nested, Past

\* A shell is made: its id is new, so nothing has heard of it.
LEMMA MadeFits ==
  ASSUME PanelInv, requests # <<>>, requests' = Tail(requests), UNCHANGED <<owed, up, events, client, moves, missed>>,
         Head(requests).kind = "shell",
         NEW s \in Shell \ issued, Head(requests).of \in table.agents, issued' = issued \cup {s},
         table' = [table EXCEPT !.shells[s] = [of |-> Head(requests).of, state |-> "up"]],
         due' = TRUE
  PROVE  PanelInv'
<1> DEFINE a == Head(requests).of
           x == [of |-> a, state |-> "up"]
           g == [table.shells EXCEPT ![s] = x]
<1>1. x \in ShellEntry /\ x.of = a /\ a \in table.agents
  BY TablesAre DEF ShellEntry, State
<1>2. table' = [table EXCEPT !.shells = g]
  BY TablesAre DEF Lists
<1> HIDE DEF x
<1>3. /\ g \in [Shell -> {None} \cup ShellEntry]
      /\ \A r \in Shell : g[r] = IF r = s THEN x ELSE table.shells[r]
  BY <1>1, TablesAre
<1> HIDE DEF g
<1>4. table'.shells = g /\ table'.agents = table.agents /\ table' \in Lists
  BY <1>2, <1>3, TablesAre DEF Lists
<1>5. NoneReturns(table.shells, issued, g, issued')
  BY <1>3, TablesAre DEF NoneReturns
<1>6. Nested(table') /\ Past(g, g, issued')
  BY <1>1, <1>3, <1>4, TablesAre DEF Nested, Past
<1>7. /\ requests' \in Seq(Requests)
      /\ \A b : ShellAsked(requests, b) => b = a \/ ShellAsked(requests', b)
  BY TablesAre, RequestsShrink
<1>8. PanelTypes'
  BY <1>4, <1>7, TablesAre DEF PanelInv, PanelTypes
<1>9. SyncFit'
  BY DEF PanelInv, SyncFit
<1>10. ASSUME NEW w, w.known \subseteq issued, Comes(w, requests, table)
       PROVE  Comes(w, requests', table')
  <2>1. CASE ShellAsked(requests, w.of)
    <3>1. CASE w.of = a
      <4>1. table'.shells[s] # None /\ table'.shells[s].of = w.of /\ s \notin w.known
        BY <1>1, <1>3, <1>4, <1>10, <3>1, NotAmong
      <4> QED
        BY <4>1 DEF Comes
    <3>2. CASE w.of # a
      BY <1>7, <2>1, <3>2 DEF Comes
    <3> QED
      BY <3>1, <3>2
  <2>2. CASE w.of \notin table.agents
    BY <1>4, <2>2 DEF Comes
  <2>3. ASSUME NEW r \in Shell, table.shells[r] # None, table.shells[r].of = w.of, r \notin w.known
        PROVE  Comes(w, requests', table')
    <3>1. r # s
      BY <2>3, TablesAre
    <3> QED
      BY <1>3, <1>4, <2>3, <3>1 DEF Comes
  <2> QED
    BY <1>10, <2>1, <2>2, <2>3 DEF Comes
<1>11. AwaitFit'
  BY <1>10 DEF PanelInv, AwaitFit
<1> QED
  BY <1>4, <1>5, <1>6, <1>8, <1>9, <1>11, SystemFits

\* A session is killed: no shell that is awaited is, unless its session is.
LEMMA KilledFits ==
  ASSUME PanelInv, requests # <<>>, requests' = Tail(requests), UNCHANGED <<up, client>>, HandleKill
  PROVE  PanelInv'
<1> DEFINE id == Head(requests).id
           doomed == {s \in Shell : table.shells[s] # None /\ (s = id \/ table.shells[s].of = id)}
           g == [s \in Shell |-> IF s \in doomed THEN None ELSE table.shells[s]]
<1>1. /\ Head(requests).kind = "kill" /\ due' = TRUE /\ UNCHANGED <<events, issued, moves, missed>>
      /\ table' = [agents |-> table.agents \ {id}, shells |-> g]
      /\ owed' = owed \cup {s \in doomed : table.shells[s].state = "up"}
  BY DEF HandleKill
<1>2. /\ requests' \in Seq(Requests) /\ 1 \in DOMAIN requests /\ requests[1] = Head(requests)
      /\ \A b : ShellAsked(requests, b) => ShellAsked(requests', b)
  BY <1>1, TablesAre, RequestsShrink
<1>3. id \in Shell => client.shells[id] # None \/ table.shells[id] = None
  BY <1>1, <1>2 DEF PanelInv, KillsFit, KillsIn
<1>4. \A s \in Shell : s \in doomed <=> table.shells[s] # None /\ (s = id \/ table.shells[s].of = id)
  OBVIOUS
<1>5. doomed \subseteq Shell /\ owed' \in SUBSET Shell
  BY <1>1, TablesAre
<1> HIDE DEF id, doomed
<1>6. \A s \in Shell : g[s] = IF s \in doomed THEN None ELSE table.shells[s]
  OBVIOUS
<1>7. g \in [Shell -> {None} \cup ShellEntry]
  BY TablesAre
<1> HIDE DEF g
<1>8. table'.shells = g /\ table'.agents = table.agents \ {id} /\ table' \in Lists
  BY <1>1, <1>7, TablesAre DEF Lists
<1>9. NoneReturns(table.shells, issued, g, issued')
  BY <1>1, <1>6, TablesAre DEF NoneReturns
<1>10. Nested(table') /\ Past(g, g, issued')
  BY <1>1, <1>4, <1>6, <1>8, TablesAre DEF Nested, Past
<1>11. PanelTypes'
  BY <1>1, <1>2, <1>5, <1>8, TablesAre DEF PanelInv, PanelTypes
<1>12. SyncFit'
  BY <1>1 DEF PanelInv, SyncFit
<1>13. ASSUME client.awaiting # None, Comes(client.awaiting, requests, table)
       PROVE  Comes(client.awaiting, requests', table')
  <2> DEFINE w == client.awaiting
  <2>1. CASE ShellAsked(requests, w.of) \/ w.of \notin table.agents \/ w.of = id
    BY <1>2, <1>8, <2>1 DEF Comes
  <2>2. ASSUME NEW s \in Shell, table.shells[s] # None, table.shells[s].of = w.of, s \notin w.known, w.of # id
        PROVE  Comes(w, requests', table')
    <3>1. s # id
      <4> SUFFICES ASSUME s = id PROVE FALSE
        OBVIOUS
      <4>1. client.shells[s] # None
        BY <1>3, <2>2
      <4>2. client.shells[s].of = w.of
        BY <2>2, <4>1, TablesAre DEF Past
      <4>3. s \in ShellKeys(client, w.of)
        BY <4>1, <4>2 DEF ShellKeys
      <4> QED
        BY <1>13, <2>2, <4>3, AtRest DEF Sound, StillAwaits
    <3>2. table'.shells[s] = table.shells[s]
      BY <1>4, <1>6, <1>8, <2>2, <3>1
    <3> QED
      BY <2>2, <3>2 DEF Comes
  <2> QED
    BY <1>13, <2>1, <2>2 DEF Comes
<1>14. AwaitFit'
  BY <1>1, <1>13 DEF PanelInv, AwaitFit
<1> QED
  BY <1>1, <1>8, <1>9, <1>10, <1>11, <1>12, <1>14, SystemFits

LEMMA HandleFits ==
  ASSUME PanelInv, Handle
  PROVE  PanelInv'
<1>1. /\ requests # <<>> /\ requests' = Tail(requests) /\ UNCHANGED <<up, client>>
  BY DEF Handle
<1>2. CASE HandleList
  BY <1>1, <1>2, TablesAre, SessionsFit DEF HandleList
<1>3. CASE HandleShell
  <2>1. Head(requests).kind = "shell" /\ UNCHANGED owed
    BY <1>3 DEF HandleShell
  <2>2. ASSUME NEW s \in Shell \ issued, Head(requests).of \in table.agents, issued' = issued \cup {s},
               table' = [table EXCEPT !.shells[s] = [of |-> Head(requests).of, state |-> "up"]],
               due' = TRUE, UNCHANGED <<events, moves, missed>>
        PROVE  PanelInv'
    BY <1>1, <2>1, <2>2, MadeFits
  <2>3. CASE /\ IF Head(requests).of \in table.agents THEN Moves /\ missed' = TRUE ELSE UNCHANGED <<moves, missed>>
             /\ events' = Append(events, Error)
             /\ UNCHANGED <<table, issued, due>>
    <3>1. /\ moves' \in 0..MaxMoves /\ missed' \in BOOLEAN /\ (missed => missed')
          /\ missed' \/ Head(requests).of \notin table.agents
      BY <2>3, TablesAre, MovesIs
    <3> QED
      BY <1>1, <2>1, <2>3, <3>1, TablesAre, SameTable, ErrorIs, RelabelFits
  <2> QED
    BY <1>3, <2>2, <2>3 DEF HandleShell
<1>4. CASE HandleRestart
  <2> DEFINE s == Head(requests).shell
  <2>1. Head(requests).kind = "restart" /\ UNCHANGED <<issued, owed, missed>>
    BY <1>4 DEF HandleRestart
  <2>2. s \in Shell
    <3>1. Head(requests) \in Requests
      BY <1>1, TablesAre, RequestsShrink
    <3> QED
      BY <2>1, <3>1 DEF Requests
  <2>3. CASE UNCHANGED <<table, due>> /\ events' \in {events, Append(events, Error)} /\ moves' \in 0..MaxMoves
    BY <1>1, <2>1, <2>3, TablesAre, SameTable, ErrorIs, RelabelFits
  <2>4. CASE /\ table.shells[s] # None /\ table' = [table EXCEPT !.shells[s].state = "up"]
             /\ due' = TRUE /\ UNCHANGED <<events, moves>>
    <3>1. table' \in Lists /\ Relabels(table, table')
      <4>1. "up" \in State
        BY DEF State
      <4> HIDE DEF s
      <4> QED
        BY <2>2, <2>4, <4>1, TablesAre, MarkIs
    <3> QED
      BY <1>1, <2>1, <2>4, <3>1, TablesAre, RelabelFits
  <2> QED
    BY <1>4, <2>3, <2>4, TablesAre, MovesIs DEF HandleRestart
<1>5. CASE HandleKill
  BY <1>1, <1>5, KilledFits
<1> QED
  BY <1>2, <1>3, <1>4, <1>5 DEF Handle

LEMMA EndsFits ==
  ASSUME PanelInv, NEW s \in Shell, Ends(s) \/ MarkStopped(s)
  PROVE  PanelInv'
<1>1. PICK x \in State : table.shells[s] # None /\ table' = [table EXCEPT !.shells[s].state = x]
  BY DEF Ends, MarkStopped, State
<1>2. table' \in Lists /\ Relabels(table, table')
  BY <1>1, TablesAre, MarkIs
<1>3. UNCHANGED <<issued, wireVars, client, missed>> /\ (Moves \/ UNCHANGED moves)
  BY DEF Ends, MarkStopped
<1>4. owed' \subseteq Shell /\ due' \in BOOLEAN /\ (due => due')
  <2>1. \/ owed' = owed \cup {s} /\ due' = due
        \/ owed' = owed /\ due' = TRUE
    BY DEF Ends, MarkStopped
  <2>2. owed \in SUBSET Shell /\ due \in BOOLEAN
    BY TablesAre
  <2> QED
    BY <2>1, <2>2
<1>5. moves' \in 0..MaxMoves
  BY <1>3, TablesAre, MovesIs
<1> QED
  BY <1>2, <1>3, <1>4, <1>5, TablesAre, RelabelFits DEF wireVars

LEMMA TellExitedFits ==
  ASSUME PanelInv, NEW s \in Shell, TellExited(s)
  PROVE  PanelInv'
<1> DEFINE e == [kind |-> "exited", shell |-> s]
<1>1. e \in Events /\ e.kind # "sessions"
  BY DEF Events
<1>2. events' \in {events, Append(events, e)}
  BY DEF TellExited
<1> HIDE DEF e
<1>3. UNCHANGED <<table, issued, due, up, requests, client, moves, missed>> /\ owed' \subseteq Shell
  BY TablesAre DEF TellExited
<1> QED
  BY <1>1, <1>2, <1>3, TablesAre, SameTable, RelabelFits

LEMMA TellFits ==
  ASSUME PanelInv, Tell
  PROVE  PanelInv'
BY SessionsFit DEF Tell

\* What is lost with the connection is owed to nobody.
LEMMA DropFits ==
  ASSUME PanelInv, Drop
  PROVE  PanelInv'
<1>1. /\ missed' = TRUE /\ requests' = <<>> /\ up' = FALSE /\ due' = FALSE /\ owed' = {}
      /\ UNCHANGED <<issued, client>> /\ moves' \in 0..MaxMoves
  BY MovesIs DEF Drop
<1>2. PICK n \in 0..Len(events) : events' = SubSeq(events, 1, n)
  BY DEF Drop
<1>3. table' \in Lists /\ Relabels(table, table')
  <2>1. CASE UNCHANGED table
    BY <2>1, TablesAre, SameTable
  <2>2. CASE table' = [table EXCEPT !.shells = [s \in Shell |->
               IF @[s] = None THEN None ELSE [@[s] EXCEPT !.state = "down"]]]
    <3> DEFINE g == [s \in Shell |-> IF table.shells[s] = None THEN None ELSE [table.shells[s] EXCEPT !.state = "down"]]
    <3>1. \A s \in Shell : /\ g[s] = IF table.shells[s] = None THEN None ELSE [table.shells[s] EXCEPT !.state = "down"]
                           /\ table.shells[s] # None => /\ [table.shells[s] EXCEPT !.state = "down"] \in ShellEntry
                                                        /\ [table.shells[s] EXCEPT !.state = "down"].of = table.shells[s].of
      BY TablesAre DEF ShellEntry, State
    <3>2. table' = [table EXCEPT !.shells = g]
      BY <2>2
    <3>3. g \in [Shell -> {None} \cup ShellEntry]
      BY <3>1
    <3> HIDE DEF g
    <3>4. table'.shells = g /\ table'.agents = table.agents /\ table' \in Lists
      BY <3>2, <3>3, TablesAre DEF Lists
    <3> QED
      BY <3>1, <3>4, NotAmong DEF Relabels
  <2> QED
    BY <2>1, <2>2 DEF Drop
<1>4. /\ NoneReturns(table.shells, issued, table'.shells, issued) /\ Nested(table')
      /\ Past(table'.shells, table'.shells, issued)
  BY <1>3, TablesAre, RelabelsAre
<1>5. /\ events' \in Seq(Events)
      /\ InTurn(events, client.shells, table'.shells, issued) => InTurn(events', client.shells, table'.shells, issued)
  BY <1>2, TablesAre, PrefixInTurn DEF PanelInv, OrderFit
<1>6. PanelTypes'
  <2>1. requests' \in Seq(Requests)
    BY <1>1, AtRest
  <2>2. client' = client /\ client \in Clients /\ client.sent = <<>> /\ issued' \in SUBSET Shell
    BY <1>1, AtRest, TablesAre
  <2> QED
    BY <1>1, <1>3, <1>5, <2>1, <2>2 DEF PanelTypes
<1>7. SyncFit' /\ AwaitFit'
  BY <1>1 DEF PanelInv, SyncFit, AwaitFit
<1> QED
  BY <1>1, <1>4, <1>5, <1>6, <1>7, SystemFits

LEMMA RedialFits ==
  ASSUME PanelInv, Redial
  PROVE  PanelInv'
<1>1. [kind |-> "up"] \in Events
  BY DEF Events
<1> QED
  BY <1>1, TablesAre, SameTable, RelabelFits DEF Redial, daemonVars

--------------------------------------------------------------------------------
(***************************************************************************)
(* The theorems.                                                           *)
(***************************************************************************)
LEMMA InitFits == ASSUME Init PROVE PanelInv
<1>1. PICK made \in {{}} \cup {{s} : s \in Shell}, entry \in [of : Agent, state : {"up", "down"}] :
        /\ issued = made
        /\ table = [agents |-> Agent, shells |-> [s \in Shell |-> IF s \in made THEN entry ELSE None]]
  BY DEF Init
<1> DEFINE r == [kind |-> "list"]
<1>2. /\ due = FALSE /\ owed = {} /\ up = TRUE /\ requests = <<r>> /\ events = <<>> /\ moves = 0 /\ missed = FALSE
      /\ client = [agents |-> {}, shells |-> NoShells, selection |-> None,
                   panel |-> {}, active |-> [a \in Agent |-> None],
                   pending |-> None, awaiting |-> None, keyboard |-> None, sent |-> <<>>]
  BY DEF Init
<1>3. r \in Requests /\ r.kind = "list"
  BY DEF Requests
<1> HIDE DEF r
<1>4. requests \in Seq(Requests) /\ events \in Seq(Events) /\ ListAsked(requests)
  BY <1>2, <1>3 DEF ListAsked
<1>5. \A i \in DOMAIN requests : requests[i].kind = "list"
  BY <1>2, <1>3
<1>6. entry \in ShellEntry /\ entry.of \in Agent /\ entry # None
  BY NotAmong DEF ShellEntry, State
<1>7. /\ table \in Lists /\ table.agents = Agent
      /\ \A s \in Shell : table.shells[s] = IF s \in issued THEN entry ELSE None
  BY <1>1, <1>6 DEF Lists
<1>8. issued \in SUBSET Shell
  BY <1>1
<1>9. client \in Clients
  BY <1>2 DEF Clients, NoShells
<1>10. /\ client.agents = {} /\ client.panel = {} /\ client.pending = None /\ client.awaiting = None
       /\ client.keyboard = None /\ client.sent = <<>> /\ client.selection = None
       /\ \A s \in Shell : client.shells[s] = None
  BY <1>2 DEF NoShells
<1>11. PanelTypes
  <2>1. moves \in 0..MaxMoves
    BY <1>2, PanelAssumption
  <2>2. due \in BOOLEAN /\ owed \in SUBSET Shell /\ up \in BOOLEAN /\ missed \in BOOLEAN
    BY <1>2
  <2> QED
    BY <1>4, <1>7, <1>8, <1>9, <1>10, <2>1, <2>2 DEF PanelTypes
<1>12. Sound(client)
  BY <1>9, <1>10, NotAmong DEF Sound, Tidy, Nested, Forgets, StillAwaits
<1>13. Revealed(client)
  <2>1. Visible(client) = None
    BY <1>9, <1>10, VisibleIs
  <2> QED
    BY <2>1 DEF Revealed
<1>14. OrderFit
  BY <1>2, <1>6, <1>7, <1>10 DEF OrderFit, Nested, Past, InTurn
<1>15. KillsFit /\ SyncFit /\ AwaitFit
  BY <1>2, <1>4, <1>5, <1>10 DEF KillsFit, KillsIn, SyncFit, AwaitFit
<1> QED
  BY <1>11, <1>12, <1>13, <1>14, <1>15 DEF PanelInv

LEMMA StutterFits ==
  ASSUME PanelInv, UNCHANGED panelVars
  PROVE  PanelInv'
BY DEF PanelInv, PanelTypes, OrderFit, KillsFit, SyncFit, AwaitFit, panelVars, daemonVars, wireVars

\* What the client remembers, what is on the wires and what the daemon has fit together,
\* however the user's commands, the lists, the exits and lost connections are ordered.
THEOREM PanelInductive == Spec => []PanelInv
<1>1. ASSUME PanelInv, [Next]_panelVars PROVE PanelInv'
  <2>1. CASE User
    BY <1>1, <2>1, FocusFits, CommandFits, SelectFits DEF User
  <2>2. CASE Main
    BY <1>1, <2>2, MainFits
  <2>3. CASE Daemon
    BY <1>1, <2>3, HandleFits, TellFits, EndsFits, TellExitedFits DEF Daemon
  <2>4. CASE Drop
    BY <1>1, <2>4, DropFits
  <2>5. CASE Redial
    BY <1>1, <2>5, RedialFits
  <2>6. CASE UNCHANGED panelVars
    BY <1>1, <2>6, StutterFits
  <2> QED
    BY <1>1, <2>1, <2>2, <2>3, <2>4, <2>5, <2>6 DEF Next
<1> QED
  BY <1>1, InitFits, PTL DEF Spec

\* The types of the panel's variables (the state of AppModel and of the daemon it talks to).
THEOREM PanelTyped == Spec => []PanelTypeOK
<1>1. PanelInv => PanelTypeOK
  BY DEF PanelInv, PanelTypes, PanelTypeOK, Lists, Clients
<1> QED
  BY <1>1, PanelInductive, PTL

\* apply's forget leaves nothing of a session that is not listed (AppModel.swift).
THEOREM PanelAlwaysForgets == Spec => []PanelForgets
<1>1. PanelInv => PanelForgets
  BY DEF PanelInv, Sound, Tidy, Forgets, PanelForgets
<1> QED
  BY <1>1, PanelInductive, PTL

\* revealShell hands the keyboard over as soon as there is a shell to hand it to: what a
\* command waits for at rest is no shell that is shown and runs.
THEOREM ShellGetsKeyboard == Spec => []ShellTakesKeyboard
<1>1. ASSUME PanelInv PROVE ShellTakesKeyboard
  <2> SUFFICES ASSUME Quiet, ~missed, client.pending # None, client.pending = Selected(client),
                      Visible(client) # None, Running(client, Visible(client))
               PROVE  FALSE
    BY DEF ShellTakesKeyboard
  <2> DEFINE w == client.awaiting
  <2>1. w # None /\ w.of = client.selection
    BY <1>1, AtRest, VisibleIs DEF Revealed
  <2>2. ~ListAsked(requests) /\ ~ShellAsked(requests, w.of)
    BY DEF Quiet, ListAsked, ShellAsked
  <2>3. Same(client, table)
    BY <1>1, <2>2 DEF PanelInv, SyncFit, LastIs, Quiet, IsList
  <2>4. w.of \in table.agents
    BY <1>1, <2>1, <2>3, AtRest DEF Sound, Tidy, Forgets, Same
  <2>5. PICK s \in Shell : table.shells[s] # None /\ table.shells[s].of = w.of /\ s \notin w.known
    BY <1>1, <2>1, <2>2, <2>4 DEF PanelInv, AwaitFit, Comes
  <2>6. client.shells[s] # None /\ client.shells[s].of = w.of
    BY <1>1, <2>3, <2>5, TablesAre DEF Same, Past
  <2>7. s \in ShellKeys(client, w.of)
    BY <2>6 DEF ShellKeys
  <2> QED
    BY <1>1, <2>1, <2>5, <2>7, AtRest DEF Sound, StillAwaits
<1> QED
  BY <1>1, PanelInductive, PTL
================================================================================
