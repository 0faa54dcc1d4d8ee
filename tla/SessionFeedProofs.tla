--------------------------- MODULE SessionFeedProofs ---------------------------
(***************************************************************************)
(* What a client is attached to and what it has been told, for any number  *)
(* of sessions, changes, connections and restarts, and either client.      *)
(***************************************************************************)
EXTENDS SessionFeed, FiniteSetTheorems, SequenceTheorems, TLAPS

\* What is on its way to the daemon, the oldest first.
Queue == requests \o pending
AttachOf(s) == [kind |-> "attach", sid |-> s]
Has(q, r) == \E i \in DOMAIN q : q[i] = r

\* Nothing is left of the connections before.
HasUp(es) == \E i \in DOMAIN es : es[i].kind = "up"
Settled == up /\ ~HasUp(events)

\* An event of the latest connection there is news of.
Recent(es, i) == \A j \in DOMAIN es : j > i => es[j].kind # "up"

NoRecentDown(es) == \A i \in DOMAIN es : es[i].kind = "down" => ~Recent(es, i)
WiresFit ==
  /\ client = "macos" => pending = <<>>
  /\ up \/ requests = <<>>
  /\ up => NoRecentDown(events)

\* The client is attached to, and keeps a terminal for, nothing it does not know of.
HoldingsFit == attached \cup terminals \subseteq Alive(known)

KillsFit == \A s \in Sid : killedOn[s] # None => table[s] = None /\ killedOn[s] <= links

\* No list made on this connection names what was killed before it.
KilledBefore == {s \in Sid : killedOn[s] # None /\ killedOn[s] < links}
Omits(l, ss) == \A s \in ss : l[s] = "absent"
EventsOmit(es, ss) ==
  \A i \in DOMAIN es : es[i].kind = "sessions" /\ Recent(es, i) => Omits(es[i].list, ss)
ListsFit ==
  /\ feed # None => Omits(feed, KilledBefore)
  /\ reply # None => Omits(reply, KilledBefore)
  /\ EventsOmit(events, KilledBefore)

\* What the client is attached to has been subscribed to, or will be.
AttachedFit == Settled => \A s \in attached : streams[s] # None \/ Has(Queue, AttachOf(s))

\* Once a list of this connection has been heard, the client is attached to all it knows of
\* and knows of nothing killed before the connection. Until then a list is on its way.
HasList(es) == \E i \in DOMAIN es : es[i].kind = "sessions"
ListComes == Has(Queue, ListRequest) \/ reply # None \/ HasList(events)
ListHeard == Alive(known) \subseteq attached /\ Omits(known, KilledBefore)
ListedFit == Settled => ListComes \/ ListHeard

\* The sessions that the client attaches to when the next list says they are running. A
\* restart in the queue is of one of these, or has an Attach behind it.
Awaiting == {s \in Sid : s \notin attached \/ known[s] = "Stopped"}
Followed(q, ss) ==
  \A i \in DOMAIN q : q[i].kind = "restart" =>
    q[i].sid \in ss \/ \E j \in DOMAIN q : j > i /\ q[j] = AttachOf(q[i].sid)
RestartsFit == Followed(Queue, Awaiting)

\* The run that answers the user is subscribed to, or will be, or the client awaits it and a
\* list that has it is on its way.
HasRunning(es, s) == \E i \in DOMAIN es : es[i].kind = "sessions" /\ es[i].list[s] = "Running"
RunningComes(s) ==
  \/ telling > 0 \/ due > 0 \/ Has(Queue, ListRequest)
  \/ feed # None /\ feed[s] = "Running"
  \/ reply # None /\ reply[s] = "Running"
  \/ HasRunning(events, s)
AnswerComes(s) ==
  \/ streams[s] = table[s].run
  \/ Has(Queue, AttachOf(s))
  \/ s \in Awaiting /\ RunningComes(s)
AnswersFit == Settled => \A s \in Sid : Up(s) /\ table[s].asked => AnswerComes(s)

TypeInv == FeedTypeOK /\ telling + due <= changes

FeedInv ==
  /\ TypeInv /\ WiresFit /\ HoldingsFit /\ KillsFit /\ ListsFit
  /\ AttachedFit /\ ListedFit /\ RestartsFit /\ AnswersFit

--------------------------------------------------------------------------------
(***************************************************************************)
(* Sequences of requests and events.                                       *)
(***************************************************************************)
\* A finite set is listed as a sequence of its own members.
LEMMA SeqOfSet ==
  ASSUME NEW S, IsFiniteSet(S)
  PROVE  /\ SetToSeq(S) \in Seq(S)
         /\ \A x \in S : \E i \in DOMAIN SetToSeq(S) : SetToSeq(S)[i] = x
<1> DEFINE n == Cardinality(S)
<1>1. n \in Nat /\ ExistsBijection(1..n, S)
  BY FS_CardinalityType
<1>2. \E f \in [1..n -> S] : IsInjective(f)
  BY <1>1 DEF ExistsBijection, Bijection, Injection
<1>3. SetToSeq(S) \in [1..n -> S] /\ IsInjective(SetToSeq(S))
  BY <1>2 DEF SetToSeq
<1>4. SetToSeq(S) \in Injection(1..n, S)
  BY <1>3 DEF Injection
<1>5. IsFiniteSet(1..n) /\ Cardinality(1..n) = n
  BY <1>1, FS_Interval
<1>6. SetToSeq(S) \in Surjection(1..n, S)
  BY <1>4, <1>5, FS_Injection
<1> QED
  BY <1>1, <1>3, <1>6 DEF Surjection, Seq

LEMMA AttachingIs ==
  ASSUME NEW S \in SUBSET Sid
  PROVE  /\ Attaching(S) \in Seq(Request)
         /\ \A i \in DOMAIN Attaching(S) : \E s \in S : Attaching(S)[i] = AttachOf(s)
         /\ \A s \in S : \E i \in DOMAIN Attaching(S) : Attaching(S)[i] = AttachOf(s)
<1>1. IsFiniteSet(S)
  BY FeedAssumption, FS_Subset
<1> DEFINE f == SetToSeq(S)
<1>2. f \in Seq(S) /\ \A x \in S : \E i \in DOMAIN f : f[i] = x
  BY <1>1, SeqOfSet
<1>3. Attaching(S) = [i \in DOMAIN f |-> AttachOf(f[i])]
  BY DEF Attaching, AttachOf
<1>4. DOMAIN Attaching(S) = DOMAIN f
  BY <1>3
<1>5. \A i \in DOMAIN f : f[i] \in S /\ Attaching(S)[i] = AttachOf(f[i])
  BY <1>2, <1>3
<1>6. \A s \in S : AttachOf(s) \in Request
  BY DEF AttachOf, Request
<1> HIDE DEF f
<1>7. PICK n \in Nat : DOMAIN f = 1..n
  BY <1>2, LenProperties
<1>8. Attaching(S) \in [1..n -> Request]
  BY <1>3, <1>5, <1>6, <1>7
<1>9. Attaching(S) \in Seq(Request)
  BY <1>7, <1>8 DEF Seq
<1> QED
  BY <1>2, <1>4, <1>5, <1>9

--------------------------------------------------------------------------------
(***************************************************************************)
(* Types.                                                                  *)
(***************************************************************************)
LEMMA ListIs == List \in Listing /\ \A s \in Sid : List[s] = IF table[s] = None THEN "absent"
                                            ELSE IF Down(s) THEN "Stopped" ELSE "Running"
BY DEF List, Listing

LEMMA AbsentIs == Absent \in Listing
BY DEF Absent, Listing

\* What a batch does to the queue and its parts.
LEMMA SendsTyped ==
  ASSUME NEW batch \in Seq(Request), {pending, requests} \subseteq Seq(Request), SendAll(batch)
  PROVE  {pending', requests'} \subseteq Seq(Request)
<1>1. pending \o batch \in Seq(Request) /\ requests \o batch \in Seq(Request)
  OBVIOUS
<1> QED
  BY <1>1 DEF SendAll

LEMMA Bounds == MaxChanges \in Nat /\ MaxLinks \in Nat /\ MaxAsked \in Nat
BY FeedAssumption

LEMMA TypeInit == Init => TypeInv
<1> SUFFICES ASSUME Init PROVE TypeInv
  OBVIOUS
<1>1. table \in [Sid -> Entry \cup {None}]
  <2>1. \A e \in [run : {1}, state : {"up", "down"}, asked : {FALSE}] : e \in Entry
    <3>1. 1 \in Run
      BY Bounds DEF Run
    <3> QED
      BY <3>1 DEF Entry
  <2> QED
    BY <2>1 DEF Init
<1>2. NoStreams \in [Sid -> Run \cup {None}] /\ NoStreams \in [Sid -> 0..MaxLinks \cup {None}]
  BY DEF NoStreams
<1>3. <<>> \in Seq(Request) /\ <<>> \in Seq(Event)
  OBVIOUS
<1>4. 0 \in 0..MaxChanges /\ 0 \in 0..MaxLinks /\ 0 \in 0..MaxAsked /\ 0 + 0 <= 0
  BY Bounds
<1> QED
  BY <1>1, <1>2, <1>3, <1>4, AbsentIs DEF Init, TypeInv, FeedTypeOK

\* A change of the table is counted, and told before it is done with.
LEMMA ChangeTyped ==
  ASSUME TypeInv, NEW s \in Sid, NEW e \in Entry \cup {None}, ChangeTable(s, e)
  PROVE  /\ table' \in [Sid -> Entry \cup {None}] /\ changes' \in 0..MaxChanges
         /\ telling' \in 0..MaxChanges /\ telling' + due <= changes'
BY Bounds DEF TypeInv, FeedTypeOK, ChangeTable

\* A new connection begins with nothing.
LEMMA ConnectionTyped ==
  ASSUME TypeInv, NewConnection
  PROVE  /\ links' \in 0..MaxLinks /\ requests' \in Seq(Request) /\ events' \in Seq(Event)
         /\ due' = 0 /\ feed' = None /\ reply' = None /\ owed' = {}
         /\ streams' \in [Sid -> Run \cup {None}]
<1>1. Told("up", Absent) \in Event
  BY AbsentIs DEF Told, Event
<1> QED
  BY <1>1, Bounds DEF TypeInv, FeedTypeOK, NewConnection, NoStreams

LEMMA TypeStep == TypeInv /\ [Next]_feedVars => TypeInv'
<1> SUFFICES ASSUME TypeInv, [Next]_feedVars PROVE TypeInv'
  OBVIOUS
<1> USE Bounds DEF TypeInv, FeedTypeOK, feedOnly, daemonVars, connVars, wireVars, clientVars, linkVars
<1>1. ASSUME NEW s \in Sid, Launch(s) PROVE TypeInv'
  <2>1. Launched(FALSE) \in Entry
    <3>1. changes + 2 \in Run
      BY <1>1 DEF Launch, ChangeTable, Run
    <3> QED
      BY <3>1 DEF Launched, Entry
  <2> QED
    BY <1>1, <2>1, ChangeTyped DEF Launch
<1>2. ASSUME NEW s \in Sid, End(s) PROVE TypeInv'
  <2>1. table' \in [Sid -> Entry \cup {None}]
    <3>1. table[s] \in Entry /\ table' = [table EXCEPT ![s].state = "over"]
      BY <1>2 DEF End, Up
    <3>2. [table[s] EXCEPT !.state = "over"] \in Entry
      BY <3>1 DEF Entry
    <3> QED
      BY <3>1, <3>2
  <2>2. owed' \subseteq Sid
    BY <1>2 DEF End, Owing
  <2> QED
    BY <1>2, <2>1, <2>2 DEF End
<1>3. ASSUME NEW s \in Sid, Stop(s) PROVE TypeInv'
  <2>1. [table[s] EXCEPT !.state = "down"] \in Entry
    BY <1>3 DEF Stop, Entry
  <2> QED
    BY <1>3, <2>1, ChangeTyped DEF Stop
<1>4. ASSUME NEW s \in Sid, Kill(s) PROVE TypeInv'
  <2>1. owed' \subseteq Sid
    BY <1>4 DEF Kill, Owing
  <2>2. killedOn' \in [Sid -> 0..MaxLinks \cup {None}]
    BY <1>4 DEF Kill
  <2> QED
    BY <1>4, <2>1, <2>2, ChangeTyped DEF Kill
<1>5. CASE Announce
  BY <1>5 DEF Announce
<1>6. CASE FeedList
  BY <1>6, ListIs DEF FeedList
<1>7. CASE FeedSend
  <2>1. Told("sessions", feed) \in Event
    BY <1>7 DEF FeedSend, Told, Event
  <2> QED
    BY <1>7, <2>1 DEF FeedSend
<1>8. CASE Forward
  <2>1. PICK s \in owed : owed' = owed \ {s} /\ events' = Append(events, Told("exited", [Absent EXCEPT ![s] = "Stopped"]))
    BY <1>8 DEF Forward
  <2>2. Told("exited", [Absent EXCEPT ![s] = "Stopped"]) \in Event
    BY DEF Told, Event, Absent, Listing
  <2> QED
    BY <1>8, <2>1, <2>2 DEF Forward
<1>9. CASE HandleList
  BY <1>9, ListIs DEF HandleList, Handles
<1>10. CASE ReplyList
  <2>1. Told("sessions", reply) \in Event
    BY <1>10 DEF ReplyList, Told, Event
  <2> QED
    BY <1>10, <2>1 DEF ReplyList
<1>11. CASE HandleAttach
  <2>1. Tail(requests) \in Seq(Request)
    BY <1>11 DEF HandleAttach, Handles
  <2>2. streams' \in [Sid -> Run \cup {None}]
    <3> DEFINE s == Head(requests).sid
    <3>1. table[s] # None => table[s].run \in Run \/ s \notin Sid
      BY DEF Entry
    <3>2. s \in Sid \/ s \notin Sid
      OBVIOUS
    <3>3. 0 \in Run
      BY DEF Run
    <3> QED
      BY <1>11, <3>1, <3>2, <3>3 DEF HandleAttach
  <2> QED
    BY <1>11, <2>1, <2>2 DEF HandleAttach, Handles
<1>12. CASE HandleRestart
  <2>1. Tail(requests) \in Seq(Request)
    BY <1>12 DEF HandleRestart, Handles
  <2>2. CASE UNCHANGED <<table, changes, telling>>
    BY <1>12, <2>1, <2>2 DEF HandleRestart, Handles
  <2>3. CASE Down(Head(requests).sid) /\ ChangeTable(Head(requests).sid, Launched(TRUE))
    <3> DEFINE s == Head(requests).sid
    <3>1. Launched(TRUE) \in Entry
      <4>1. changes + 2 \in Run
        BY <2>3 DEF ChangeTable, Run
      <4> QED
        BY <4>1 DEF Launched, Entry
    <3>2. table' \in [Sid -> Entry \cup {None}]
      BY <2>3, <3>1 DEF ChangeTable
    <3>3. changes' \in 0..MaxChanges /\ telling' \in 0..MaxChanges /\ telling' + due <= changes'
      BY <2>3 DEF ChangeTable
    <3> QED
      BY <1>12, <2>1, <3>2, <3>3 DEF HandleRestart, Handles
  <2> QED
    BY <1>12, <2>2, <2>3 DEF HandleRestart
<1>13. CASE LinkUp
  BY <1>13, ConnectionTyped DEF LinkUp
<1>14. CASE Redial
  BY <1>14, ConnectionTyped DEF Redial
<1>15. CASE LinkDown
  <2>1. pending' \in Seq(Request)
    <3>1. pending # <<>> => Tail(pending) \in Seq(Request)
      OBVIOUS
    <3> QED
      BY <1>15, <3>1 DEF LinkDown
  <2>2. Told("down", Absent) \in Event
    BY AbsentIs DEF Told, Event
  <2>3. events' \in Seq(Event) /\ requests' \in Seq(Request)
    BY <1>15, <2>2 DEF LinkDown
  <2>4. streams' \in [Sid -> Run \cup {None}]
    BY <1>15 DEF LinkDown, NoStreams
  <2>5. due' \in 0..MaxChanges /\ telling' + due' <= changes' /\ telling' = telling /\ changes' = changes
    BY <1>15 DEF LinkDown
  <2>6. up' \in BOOLEAN /\ feed' = None /\ reply' = None /\ owed' = {}
    BY <1>15 DEF LinkDown
  <2>7. UNCHANGED <<client, table, killedOn, links, known, attached, terminals, asked>>
    BY <1>15 DEF LinkDown
  <2> QED
    BY <2>1, <2>3, <2>4, <2>5, <2>6, <2>7
<1>16. CASE Pump
  <2>1. Tail(pending) \in Seq(Request) /\ Append(requests, Head(pending)) \in Seq(Request)
    BY <1>16 DEF Pump
  <2> QED
    BY <1>16, <2>1 DEF Pump
<1>17. CASE Connected
  <2>1. <<ListRequest>> \in Seq(Request)
    BY DEF ListRequest, Request
  <2>2. {pending', requests'} \subseteq Seq(Request)
    BY <1>17, <2>1, SendsTyped DEF Connected
  <2> QED
    BY <1>17, <2>2 DEF Connected, Hears, Voided
<1>18. CASE Disconnected
  <2>1. events' \in Seq(Event) /\ attached' \subseteq Sid
    BY <1>18 DEF Disconnected, Hears
  <2> QED
    BY <1>18, <2>1 DEF Disconnected
<1>19. CASE Sessions
  <2>1. Head(events) \in Event
    BY <1>19 DEF Sessions, Hears
  <2> DEFINE l == Head(events).list
  <2>2. l \in Listing /\ Alive(l) \subseteq Sid /\ Fresh(l) \subseteq Sid
    BY <2>1 DEF Event, Alive, Fresh
  <2>3. Asks(l) \in Seq(Request)
    BY <2>2, AttachingIs DEF Asks
  <2>4. SendAll(Asks(l)) /\ known' = l /\ attached' = Alive(l) /\ terminals' \subseteq terminals \cup Fresh(l)
    BY <1>19 DEF Sessions
  <2>5. events' \in Seq(Event)
    BY <1>19 DEF Sessions, Hears
  <2> HIDE DEF l
  <2> QED
    BY <1>19, <2>2, <2>3, <2>4, <2>5, SendsTyped DEF Sessions
<1>20. CASE Exited
  <2>1. known' \in Listing
    BY <1>20 DEF Exited, Listing
  <2> QED
    BY <1>20, <2>1 DEF Exited, Hears
<1>21. ASSUME NEW s \in Sid, AskRestart(s) PROVE TypeInv'
  <2>1. <<[kind |-> "restart", sid |-> s]>> \in Seq(Request)
    BY DEF Request
  <2>2. {pending', requests'} \subseteq Seq(Request)
    BY <1>21, <2>1, SendsTyped DEF AskRestart
  <2> QED
    BY <1>21, <2>2 DEF AskRestart
<1>22. CASE UNCHANGED feedVars
  BY <1>22 DEF feedVars
<1> QED
  BY <1>1, <1>2, <1>3, <1>4, <1>5, <1>6, <1>7, <1>8, <1>9, <1>10, <1>11, <1>12, <1>13, <1>14, <1>15,
     <1>16, <1>17, <1>18, <1>19, <1>20, <1>21, <1>22 DEF Next, Table, Feed, Handler, Link, Client, User

--------------------------------------------------------------------------------
(***************************************************************************)
(* The queue loses its oldest requests or has a batch put behind them, and *)
(* so do the events.                                                       *)
(***************************************************************************)
\* r is q without its first n.
Rest(q, r, n) == Len(r) + n = Len(q) /\ \A i \in 1..Len(r) : r[i] = q[i + n]

LEMMA TailRest ==
  ASSUME NEW T, NEW q \in Seq(T), q # <<>>
  PROVE  Tail(q) \in Seq(T) /\ Rest(q, Tail(q), 1) /\ q[1] = Head(q)
BY DEF Rest

LEMMA RestHas ==
  ASSUME NEW T, NEW q \in Seq(T), NEW r \in Seq(T), NEW n \in Nat, Rest(q, r, n)
  PROVE  /\ \A x : Has(r, x) => Has(q, x)
         /\ n = 1 => \A x : Has(q, x) => x = q[1] \/ Has(r, x)
<1>1. DOMAIN q = 1..Len(q) /\ DOMAIN r = 1..Len(r) /\ Len(q) \in Nat /\ Len(r) \in Nat
  OBVIOUS
<1>2. ASSUME NEW i \in DOMAIN r PROVE i + n \in DOMAIN q /\ r[i] = q[i + n]
  BY <1>1 DEF Rest
<1>3. ASSUME n = 1, NEW i \in DOMAIN q PROVE q[i] = q[1] \/ (i - 1 \in DOMAIN r /\ r[i - 1] = q[i])
  <2>1. CASE i = 1
    BY <2>1
  <2>2. CASE i # 1
    <3>1. i - 1 \in 1..Len(r) /\ (i - 1) + 1 = i
      BY <1>1, <1>3, <2>2 DEF Rest
    <3> QED
      BY <1>1, <1>3, <3>1 DEF Rest
  <2> QED
    BY <2>1, <2>2
<1> QED
  BY <1>2, <1>3 DEF Has

LEMMA RestFollowed ==
  ASSUME NEW q \in Seq(Request), NEW r \in Seq(Request), NEW n \in Nat, Rest(q, r, n),
         NEW ss, Followed(q, ss)
  PROVE  Followed(r, ss)
<1>1. DOMAIN q = 1..Len(q) /\ DOMAIN r = 1..Len(r) /\ Len(q) \in Nat /\ Len(r) \in Nat
  OBVIOUS
<1>2. ASSUME NEW i \in DOMAIN r, r[i].kind = "restart", r[i].sid \notin ss
      PROVE  \E j \in DOMAIN r : j > i /\ r[j] = AttachOf(r[i].sid)
  <2>1. i + n \in DOMAIN q /\ r[i] = q[i + n]
    BY <1>1 DEF Rest
  <2>2. PICK j \in DOMAIN q : j > i + n /\ q[j] = AttachOf(r[i].sid)
    BY <1>2, <2>1 DEF Followed
  <2>3. j - n \in 1..Len(r) /\ j - n > i /\ (j - n) + n = j
    BY <1>1, <2>2 DEF Rest
  <2>4. r[j - n] = q[j]
    BY <2>3 DEF Rest
  <2> QED
    BY <1>1, <2>2, <2>3, <2>4
<1> QED
  BY <1>2 DEF Followed

\* A batch behind the queue.
LEMMA MoreHas ==
  ASSUME NEW T, NEW q \in Seq(T), NEW b \in Seq(T)
  PROVE  \A x : Has(q \o b, x) <=> Has(q, x) \/ Has(b, x)
<1>1. DOMAIN q = 1..Len(q) /\ DOMAIN b = 1..Len(b) /\ Len(q) \in Nat /\ Len(b) \in Nat
  OBVIOUS
<1>2. DOMAIN (q \o b) = 1..(Len(q) + Len(b))
  OBVIOUS
<1>3. \A i \in DOMAIN q : i \in DOMAIN (q \o b) /\ (q \o b)[i] = q[i]
  BY <1>1, <1>2
<1>4. ASSUME NEW i \in DOMAIN b PROVE i + Len(q) \in DOMAIN (q \o b) /\ (q \o b)[i + Len(q)] = b[i]
  BY <1>1, <1>2
<1>5. ASSUME NEW i \in DOMAIN (q \o b), i \notin DOMAIN q
      PROVE i - Len(q) \in DOMAIN b /\ (q \o b)[i] = b[i - Len(q)]
  BY <1>1, <1>2, <1>5
<1> QED
  BY <1>3, <1>4, <1>5 DEF Has

\* The restarts in the queue and in the batch stay followed, if what was awaited still is or
\* is attached to by the batch.
LEMMA MoreFollowed ==
  ASSUME NEW q \in Seq(Request), NEW b \in Seq(Request), NEW ss, NEW tt, Followed(q, ss),
         \A s \in ss : s \in tt \/ Has(b, AttachOf(s)),
         \A i \in DOMAIN b : b[i].kind = "restart" => b[i].sid \in tt
  PROVE  Followed(q \o b, tt)
<1>1. DOMAIN q = 1..Len(q) /\ DOMAIN b = 1..Len(b) /\ Len(q) \in Nat /\ Len(b) \in Nat
  OBVIOUS
<1>2. DOMAIN (q \o b) = 1..(Len(q) + Len(b))
  OBVIOUS
<1>3. \A i \in DOMAIN q : i \in DOMAIN (q \o b) /\ (q \o b)[i] = q[i]
  BY <1>1, <1>2
<1>4. ASSUME NEW i \in DOMAIN b
      PROVE i + Len(q) \in DOMAIN (q \o b) /\ (q \o b)[i + Len(q)] = b[i] /\ \A j \in DOMAIN q : i + Len(q) > j
  BY <1>1, <1>2
<1>5. ASSUME NEW i \in DOMAIN (q \o b), i \notin DOMAIN q
      PROVE i - Len(q) \in DOMAIN b /\ (q \o b)[i] = b[i - Len(q)]
  BY <1>1, <1>2, <1>5
<1>6. ASSUME NEW i \in DOMAIN (q \o b), (q \o b)[i].kind = "restart", (q \o b)[i].sid \notin tt
      PROVE  \E j \in DOMAIN (q \o b) : j > i /\ (q \o b)[j] = AttachOf((q \o b)[i].sid)
  <2>1. i \in DOMAIN q
    BY <1>5, <1>6
  <2>2. q[i].kind = "restart" /\ (q \o b)[i] = q[i]
    BY <1>3, <1>6, <2>1
  <2>3. CASE \E j \in DOMAIN q : j > i /\ q[j] = AttachOf(q[i].sid)
    BY <1>3, <2>2, <2>3
  <2>4. CASE q[i].sid \in ss
    <3>1. PICK j \in DOMAIN b : b[j] = AttachOf(q[i].sid)
      BY <1>6, <2>2, <2>4 DEF Has
    <3> QED
      BY <1>4, <2>1, <2>2, <3>1
  <2> QED
    BY <2>1, <2>2, <2>3, <2>4 DEF Followed
<1> QED
  BY <1>6 DEF Followed

\* The oldest event is heard.
LEMMA TailEvents ==
  ASSUME NEW es \in Seq(Event), es # <<>>
  PROVE  LET rest == Tail(es)  e == Head(es) IN
         /\ rest \in Seq(Event) /\ e \in Event
         /\ HasUp(es) <=> e.kind = "up" \/ HasUp(rest)
         /\ HasList(es) <=> e.kind = "sessions" \/ HasList(rest)
         /\ \A s : HasRunning(es, s) <=> (e.kind = "sessions" /\ e.list[s] = "Running") \/ HasRunning(rest, s)
         /\ NoRecentDown(es) => NoRecentDown(rest) /\ (e.kind = "down" => HasUp(rest))
         /\ \A ss : EventsOmit(es, ss) =>
              EventsOmit(rest, ss) /\ (e.kind = "sessions" => Omits(e.list, ss) \/ HasUp(rest))
<1> DEFINE rest == Tail(es)
           e == Head(es)
<1>1. rest \in Seq(Event) /\ e \in Event /\ e = es[1] /\ Len(rest) + 1 = Len(es)
  OBVIOUS
<1>2. DOMAIN es = 1..Len(es) /\ DOMAIN rest = 1..Len(rest) /\ Len(es) \in Nat /\ Len(rest) \in Nat
  OBVIOUS
<1>3. \A i \in DOMAIN rest : i + 1 \in DOMAIN es /\ rest[i] = es[i + 1]
  BY <1>1, <1>2
<1>4. ASSUME NEW i \in DOMAIN es PROVE i = 1 \/ (i - 1 \in DOMAIN rest /\ rest[i - 1] = es[i])
  BY <1>1, <1>2
<1>5. 1 \in DOMAIN es
  BY <1>1, <1>2
<1> HIDE DEF rest, e
<1>6. HasUp(es) <=> e.kind = "up" \/ HasUp(rest)
  <2>1. HasUp(es) => e.kind = "up" \/ HasUp(rest)
    BY <1>1, <1>4 DEF HasUp
  <2>2. HasUp(rest) => HasUp(es)
    BY <1>3 DEF HasUp
  <2>3. e.kind = "up" => HasUp(es)
    BY <1>1, <1>5 DEF HasUp
  <2> QED
    BY <2>1, <2>2, <2>3
<1>7. HasList(es) <=> e.kind = "sessions" \/ HasList(rest)
  <2>1. HasList(es) => e.kind = "sessions" \/ HasList(rest)
    BY <1>1, <1>4 DEF HasList
  <2>2. HasList(rest) => HasList(es)
    BY <1>3 DEF HasList
  <2>3. e.kind = "sessions" => HasList(es)
    BY <1>1, <1>5 DEF HasList
  <2> QED
    BY <2>1, <2>2, <2>3
<1>8. ASSUME NEW s
      PROVE  HasRunning(es, s) <=> (e.kind = "sessions" /\ e.list[s] = "Running") \/ HasRunning(rest, s)
  <2>1. ASSUME HasRunning(es, s)
        PROVE  (e.kind = "sessions" /\ e.list[s] = "Running") \/ HasRunning(rest, s)
    BY <1>1, <1>4, <2>1 DEF HasRunning
  <2>2. ASSUME HasRunning(rest, s) PROVE HasRunning(es, s)
    BY <1>3, <2>2 DEF HasRunning
  <2>3. e.kind = "sessions" /\ e.list[s] = "Running" => HasRunning(es, s)
    BY <1>1, <1>5 DEF HasRunning
  <2> QED
    BY <2>1, <2>2, <2>3
<1>9. ASSUME NEW i \in DOMAIN rest, Recent(rest, i) PROVE Recent(es, i + 1)
  <2> SUFFICES ASSUME NEW j \in DOMAIN es, j > i + 1 PROVE es[j].kind # "up"
    BY DEF Recent
  <2>1. j - 1 \in DOMAIN rest /\ rest[j - 1] = es[j] /\ j - 1 > i
    BY <1>2, <1>4
  <2> QED
    BY <1>9, <2>1 DEF Recent
<1>10. ~HasUp(rest) => Recent(es, 1)
  <2> SUFFICES ASSUME ~HasUp(rest), NEW j \in DOMAIN es, j > 1 PROVE es[j].kind # "up"
    BY DEF Recent
  <2>1. j - 1 \in DOMAIN rest /\ rest[j - 1] = es[j]
    BY <1>2, <1>4
  <2> QED
    BY <2>1 DEF HasUp
<1>11. NoRecentDown(es) => NoRecentDown(rest) /\ (e.kind = "down" => HasUp(rest))
  BY <1>1, <1>3, <1>5, <1>9, <1>10 DEF NoRecentDown
<1>12. ASSUME NEW ss, EventsOmit(es, ss)
       PROVE EventsOmit(rest, ss) /\ (e.kind = "sessions" => Omits(e.list, ss) \/ HasUp(rest))
  BY <1>1, <1>3, <1>5, <1>9, <1>10, <1>12 DEF EventsOmit
<1> QED
  BY <1>1, <1>6, <1>7, <1>8, <1>11, <1>12 DEF rest, e

\* One more event.
LEMMA MoreEvents ==
  ASSUME NEW es \in Seq(Event), NEW e \in Event
  PROVE  LET more == Append(es, e) IN
         /\ HasUp(more) <=> HasUp(es) \/ e.kind = "up"
         /\ HasList(more) <=> HasList(es) \/ e.kind = "sessions"
         /\ \A s : HasRunning(more, s) <=> HasRunning(es, s) \/ (e.kind = "sessions" /\ e.list[s] = "Running")
         /\ e.kind = "up" => NoRecentDown(more) /\ \A ss : EventsOmit(more, ss)
         /\ e.kind # "down" /\ NoRecentDown(es) => NoRecentDown(more)
         /\ \A ss : EventsOmit(es, ss) /\ (e.kind = "sessions" => Omits(e.list, ss)) => EventsOmit(more, ss)
<1> DEFINE more == Append(es, e)
           n == Len(es) + 1
<1>1. DOMAIN es = 1..Len(es) /\ DOMAIN more = 1..n /\ Len(es) \in Nat /\ n \in DOMAIN more /\ more[n] = e
  OBVIOUS
<1>2. \A i \in DOMAIN es : i \in DOMAIN more /\ more[i] = es[i] /\ n > i
  BY <1>1
<1>3. \A i \in DOMAIN more : i = n \/ (i \in DOMAIN es /\ more[i] = es[i])
  BY <1>1, <1>2
<1>4. \A i \in DOMAIN more : ~(i > n)
  BY <1>1
<1> HIDE DEF more, n
<1>5. HasUp(more) <=> HasUp(es) \/ e.kind = "up"
  BY <1>1, <1>2, <1>3 DEF HasUp
<1>6. HasList(more) <=> HasList(es) \/ e.kind = "sessions"
  BY <1>1, <1>2, <1>3 DEF HasList
<1>7. \A s : HasRunning(more, s) <=> HasRunning(es, s) \/ (e.kind = "sessions" /\ e.list[s] = "Running")
  BY <1>1, <1>2, <1>3 DEF HasRunning
<1>8. ASSUME NEW i \in DOMAIN es PROVE Recent(more, i) <=> Recent(es, i) /\ e.kind # "up"
  BY <1>1, <1>2, <1>3 DEF Recent
<1>9. e.kind = "up" => NoRecentDown(more) /\ \A ss : EventsOmit(more, ss)
  BY <1>1, <1>3, <1>8 DEF NoRecentDown, EventsOmit
<1>10. e.kind # "down" /\ NoRecentDown(es) => NoRecentDown(more)
  BY <1>1, <1>3, <1>8 DEF NoRecentDown
<1>11. \A ss : EventsOmit(es, ss) /\ (e.kind = "sessions" => Omits(e.list, ss)) => EventsOmit(more, ss)
  BY <1>1, <1>3, <1>8 DEF EventsOmit
<1> QED
  BY <1>5, <1>6, <1>7, <1>9, <1>10, <1>11 DEF more

--------------------------------------------------------------------------------
(***************************************************************************)
(* The steps.  TypeInv is kept by all of them; FitInv is the rest.         *)
(***************************************************************************)
FitInv ==
  /\ WiresFit /\ HoldingsFit /\ KillsFit /\ ListsFit
  /\ AttachedFit /\ ListedFit /\ RestartsFit /\ AnswersFit

LEMMA FitInit == Init => FitInv
<1> SUFFICES ASSUME Init PROVE FitInv
  OBVIOUS
<1>1. ~up /\ Queue = <<>> /\ events = <<>> /\ feed = None /\ reply = None
  BY DEF Init, Queue
<1>2. WiresFit /\ HoldingsFit
  BY <1>1 DEF Init, WiresFit, HoldingsFit
<1>3. KillsFit
  BY DEF Init, KillsFit, NoStreams
<1>4. ListsFit
  BY <1>1 DEF ListsFit, EventsOmit
<1>5. RestartsFit
  BY <1>1 DEF RestartsFit, Followed
<1> QED
  BY <1>1, <1>2, <1>3, <1>4, <1>5 DEF FitInv, AttachedFit, ListedFit, AnswersFit, Settled

LEMMA QueueIs == TypeInv => Queue \in Seq(Request)
BY DEF TypeInv, FeedTypeOK, Queue

\* The handler takes the oldest request of the queue.
LEMMA HandledRest ==
  ASSUME TypeInv, requests # <<>>, requests' = Tail(requests), pending' = pending
  PROVE  /\ Queue \in Seq(Request) /\ Queue' \in Seq(Request) /\ Queue # <<>>
         /\ Rest(Queue, Queue', 1) /\ Queue[1] = Head(requests)
<1>1. requests \in Seq(Request) /\ pending \in Seq(Request)
  BY DEF TypeInv, FeedTypeOK
<1>2. Queue \in Seq(Request) /\ Queue # <<>> /\ Queue[1] = Head(requests)
  BY <1>1 DEF Queue
<1>3. Queue' = Tail(Queue)
  BY <1>1 DEF Queue
<1> QED
  BY <1>2, <1>3, TailRest

LEMMA TellsMore ==
  ASSUME TypeInv, NEW s, NEW e, ChangeTable(s, e)
  PROVE  telling' > 0
<1>1. telling \in Nat
  BY Bounds DEF TypeInv, FeedTypeOK
<1>2. telling' = telling + 1
  BY DEF ChangeTable
<1> QED
  BY <1>1, <1>2

\* The table changes, or an announcement is on its way.
LEMMA TableStep ==
  ASSUME FeedInv, Table \/ Announce
  PROVE  FitInv'
<1> USE DEF FeedInv, TypeInv, FeedTypeOK
<1>1. UNCHANGED <<client, up, links, pending, requests, events, streams, feed, reply, known, attached, terminals>>
  BY DEF Table, Launch, End, Stop, Kill, Announce, connVars, feedOnly, wireVars, clientVars, linkVars
<1>2. Queue' = Queue /\ Awaiting' = Awaiting /\ Settled' = Settled
  BY <1>1 DEF Queue, Awaiting, Settled
<1>3. KillsFit' /\ KilledBefore' \subseteq KilledBefore
  <2>1. ASSUME NEW s \in Sid, Launch(s) PROVE KillsFit' /\ KilledBefore' \subseteq KilledBefore
    BY <1>1, <2>1 DEF Launch, ChangeTable, KillsFit, KilledBefore
  <2>2. ASSUME NEW s \in Sid, End(s) PROVE KillsFit' /\ KilledBefore' \subseteq KilledBefore
    BY <1>1, <2>2 DEF End, Up, daemonVars, KillsFit, KilledBefore
  <2>3. ASSUME NEW s \in Sid, Stop(s) PROVE KillsFit' /\ KilledBefore' \subseteq KilledBefore
    BY <1>1, <2>3 DEF Stop, ChangeTable, KillsFit, KilledBefore
  <2>4. ASSUME NEW s \in Sid, Kill(s) PROVE KillsFit' /\ KilledBefore' \subseteq KilledBefore
    <3>1. killedOn' = [killedOn EXCEPT ![s] = links] /\ table' = [table EXCEPT ![s] = None] /\ links' = links
      BY <1>1, <2>4 DEF Kill, ChangeTable
    <3>2. links \in Nat /\ ~(links < links)
      BY Bounds
    <3> QED
      BY <3>1, <3>2 DEF KillsFit, KilledBefore
  <2>5. CASE Announce
    BY <1>1, <2>5 DEF Announce, KillsFit, KilledBefore
  <2> QED
    BY <2>1, <2>2, <2>3, <2>4, <2>5 DEF Table
<1>4. WiresFit' /\ HoldingsFit' /\ RestartsFit' /\ AttachedFit'
  BY <1>1, <1>2 DEF WiresFit, HoldingsFit, Alive, RestartsFit, AttachedFit
<1>5. ListsFit' /\ ListedFit'
  BY <1>1, <1>2, <1>3 DEF ListsFit, EventsOmit, Omits, ListedFit, ListComes, ListHeard, Alive
<1>6. ASSUME NEW s \in Sid, (Up(s) /\ table[s].asked)'
      PROVE  Up(s) /\ table[s].asked /\ table'[s].run = table[s].run
  <2>1. ASSUME NEW t \in Sid, Launch(t) PROVE Up(s) /\ table[s].asked /\ table'[s].run = table[s].run
    BY <1>6, <2>1 DEF Launch, ChangeTable, Launched, Up
  <2>2. ASSUME NEW t \in Sid, End(t) \/ Stop(t) \/ Kill(t)
        PROVE Up(s) /\ table[s].asked /\ table'[s].run = table[s].run
    BY <1>6, <2>2 DEF End, Stop, Kill, ChangeTable, Up, Entry
  <2>3. CASE Announce
    BY <1>6, <2>3 DEF Announce, Up
  <2> QED
    BY <2>1, <2>2, <2>3 DEF Table
<1>7. up /\ (telling > 0 \/ due > 0) => (telling' > 0 \/ due' > 0)
  <2>1. telling \in Nat /\ due \in Nat
    BY Bounds
  <2>2. CASE Announce
    BY <2>1, <2>2 DEF Announce
  <2>3. ASSUME NEW s \in Sid, Launch(s) \/ Stop(s) PROVE telling' > 0
    BY <2>3, TellsMore DEF Launch, Stop
  <2>4. ASSUME NEW s \in Sid, Kill(s) PROVE telling' > 0
    BY <2>4, TellsMore DEF Kill
  <2>5. ASSUME NEW s \in Sid, End(s) PROVE telling' = telling /\ due' = due
    BY <2>5 DEF End, feedOnly
  <2> QED
    BY <2>2, <2>3, <2>4, <2>5 DEF Table
<1>8. AnswersFit'
  <2> SUFFICES ASSUME Settled', NEW s \in Sid, (Up(s) /\ table[s].asked)' PROVE AnswerComes(s)'
    BY DEF AnswersFit
  <2>1. AnswerComes(s) /\ up
    BY <1>2, <1>6 DEF AnswersFit, Settled
  <2>2. RunningComes(s) => RunningComes(s)'
    BY <1>1, <1>2, <1>7, <2>1 DEF RunningComes
  <2> QED
    BY <1>1, <1>2, <1>6, <2>1, <2>2 DEF AnswerComes
<1> QED
  BY <1>3, <1>4, <1>5, <1>8 DEF FitInv

\* The feed and the handler list the table and tell; a forwarder tells.
LEMMA FeedListStep ==
  ASSUME FeedInv, FeedList
  PROVE  FitInv'
<1> USE DEF FeedInv, TypeInv, FeedTypeOK
<1>1. /\ UNCHANGED <<client, table, telling, killedOn, up, links, pending, requests, events, streams, reply, known, attached, terminals>>
      /\ feed = None /\ feed' = List
  BY DEF FeedList, daemonVars, wireVars, clientVars, linkVars
<1>2. Queue' = Queue /\ Awaiting' = Awaiting /\ Settled' = Settled /\ KilledBefore' = KilledBefore
  BY <1>1 DEF Queue, Awaiting, Settled, KilledBefore
<1>3. WiresFit' /\ HoldingsFit' /\ KillsFit' /\ RestartsFit' /\ AttachedFit' /\ ListedFit'
  BY <1>1, <1>2 DEF WiresFit, HoldingsFit, Alive, KillsFit, RestartsFit, AttachedFit, ListedFit, ListComes, ListHeard
<1>4. ListsFit'
  BY <1>1, <1>2, ListIs DEF ListsFit, Omits, KilledBefore, KillsFit
<1>5. AnswersFit'
  <2> SUFFICES ASSUME Settled', NEW s \in Sid, (Up(s) /\ table[s].asked)' PROVE AnswerComes(s)'
    BY DEF AnswersFit
  <2>1. Up(s) /\ AnswerComes(s)
    BY <1>1, <1>2 DEF AnswersFit, Up
  <2>2. feed'[s] = "Running" /\ feed' # None
    BY <1>1, <2>1, ListIs, NoneAssumption DEF Up, Down
  <2> QED
    BY <1>1, <1>2, <2>1, <2>2 DEF AnswerComes, RunningComes
<1> QED
  BY <1>3, <1>4, <1>5 DEF FitInv

LEMMA HandleListStep ==
  ASSUME FeedInv, HandleList
  PROVE  FitInv'
<1> USE DEF FeedInv, TypeInv, FeedTypeOK
<1>1. /\ UNCHANGED <<client, table, telling, killedOn, up, links, pending, events, streams, feed, due, known, attached, terminals>>
      /\ reply = None /\ reply' = List /\ requests # <<>> /\ requests' = Tail(requests) /\ Head(requests).kind = "list"
  BY DEF HandleList, Handles, daemonVars, feedOnly, clientVars, linkVars
<1>2. Awaiting' = Awaiting /\ Settled' = Settled /\ KilledBefore' = KilledBefore
  BY <1>1 DEF Awaiting, Settled, KilledBefore
<1>3. List # None
  BY ListIs, NoneAssumption
<1>4. /\ Queue' \in Seq(Request) /\ Rest(Queue, Queue', 1)
      /\ Queue[1].kind = "list"
  BY <1>1, HandledRest
<1>5. \A s : Has(Queue, AttachOf(s)) => Has(Queue', AttachOf(s))
  BY <1>4, QueueIs, RestHas DEF AttachOf
<1>6. WiresFit' /\ HoldingsFit' /\ KillsFit'
  BY <1>1 DEF WiresFit, HoldingsFit, Alive, KillsFit
<1>7. AttachedFit' /\ ListedFit'
  BY <1>1, <1>2, <1>3, <1>5 DEF AttachedFit, ListedFit, ListComes
<1>8. RestartsFit'
  BY <1>2, <1>4, QueueIs, RestFollowed DEF RestartsFit
<1>9. ListsFit'
  BY <1>1, <1>2, ListIs DEF ListsFit, Omits, KilledBefore, KillsFit
<1>10. AnswersFit'
  <2> SUFFICES ASSUME Settled', NEW s \in Sid, (Up(s) /\ table[s].asked)' PROVE AnswerComes(s)'
    BY DEF AnswersFit
  <2>1. Up(s) /\ AnswerComes(s)
    BY <1>1, <1>2 DEF AnswersFit, Up
  <2>2. reply'[s] = "Running" /\ reply' # None
    BY <1>1, <1>3, <2>1, ListIs DEF Up, Down
  <2> QED
    BY <1>1, <1>2, <1>5, <2>1, <2>2 DEF AnswerComes, RunningComes
<1> QED
  BY <1>6, <1>7, <1>8, <1>9, <1>10 DEF FitInv

LEMMA ReplyListStep ==
  ASSUME FeedInv, ReplyList
  PROVE  FitInv'
<1> USE DEF FeedInv, TypeInv, FeedTypeOK
<1> DEFINE e == Told("sessions", reply)
<1>1. /\ UNCHANGED <<client, table, telling, killedOn, up, links, pending, requests, streams, feed, due, known, attached, terminals>>
      /\ reply # None /\ reply' = None /\ events' = Append(events, e)
  BY DEF ReplyList, daemonVars, feedOnly, clientVars, linkVars
<1>2. e \in Event /\ e.kind = "sessions" /\ e.list = reply
  BY <1>1 DEF Told, Event
<1> HIDE DEF e
<1>3. /\ HasUp(events') <=> HasUp(events)
      /\ HasList(events')
      /\ \A s : HasRunning(events', s) <=> HasRunning(events, s) \/ reply[s] = "Running"
      /\ NoRecentDown(events) => NoRecentDown(events')
      /\ \A ss : EventsOmit(events, ss) /\ Omits(reply, ss) => EventsOmit(events', ss)
  BY <1>1, <1>2, MoreEvents
<1>4. Queue' = Queue /\ Awaiting' = Awaiting /\ Settled' = Settled /\ KilledBefore' = KilledBefore
  BY <1>1, <1>3 DEF Queue, Awaiting, Settled, KilledBefore
<1>5. WiresFit' /\ HoldingsFit' /\ KillsFit' /\ RestartsFit' /\ AttachedFit'
  BY <1>1, <1>3, <1>4 DEF WiresFit, HoldingsFit, Alive, KillsFit, RestartsFit, AttachedFit
<1>6. ListsFit' /\ ListedFit'
  BY <1>1, <1>3, <1>4 DEF ListsFit, ListedFit, ListComes
<1>7. AnswersFit'
  BY <1>1, <1>3, <1>4 DEF AnswersFit, Up, AnswerComes, RunningComes
<1> QED
  BY <1>5, <1>6, <1>7 DEF FitInv

LEMMA FeedSendStep ==
  ASSUME FeedInv, FeedSend
  PROVE  FitInv'
<1> USE DEF FeedInv, TypeInv, FeedTypeOK
<1> DEFINE e == Told("sessions", feed)
<1>1. /\ UNCHANGED <<client, table, telling, killedOn, up, links, pending, requests, streams, reply, due, known, attached, terminals>>
      /\ feed # None /\ feed' = None /\ events' = Append(events, e)
  BY DEF FeedSend, daemonVars, feedOnly, clientVars, linkVars
<1>2. e \in Event /\ e.kind = "sessions" /\ e.list = feed
  BY <1>1 DEF Told, Event
<1> HIDE DEF e
<1>3. /\ HasUp(events') <=> HasUp(events)
      /\ HasList(events')
      /\ \A s : HasRunning(events', s) <=> HasRunning(events, s) \/ feed[s] = "Running"
      /\ NoRecentDown(events) => NoRecentDown(events')
      /\ \A ss : EventsOmit(events, ss) /\ Omits(feed, ss) => EventsOmit(events', ss)
  BY <1>1, <1>2, MoreEvents
<1>4. Queue' = Queue /\ Awaiting' = Awaiting /\ Settled' = Settled /\ KilledBefore' = KilledBefore
  BY <1>1, <1>3 DEF Queue, Awaiting, Settled, KilledBefore
<1>5. WiresFit' /\ HoldingsFit' /\ KillsFit' /\ RestartsFit' /\ AttachedFit'
  BY <1>1, <1>3, <1>4 DEF WiresFit, HoldingsFit, Alive, KillsFit, RestartsFit, AttachedFit
<1>6. ListsFit' /\ ListedFit'
  BY <1>1, <1>3, <1>4 DEF ListsFit, ListedFit, ListComes
<1>7. AnswersFit'
  BY <1>1, <1>3, <1>4 DEF AnswersFit, Up, AnswerComes, RunningComes
<1> QED
  BY <1>5, <1>6, <1>7 DEF FitInv

LEMMA ForwardStep ==
  ASSUME FeedInv, Forward
  PROVE  FitInv'
<1> USE DEF FeedInv, TypeInv, FeedTypeOK
<1>1. UNCHANGED <<client, table, telling, killedOn, up, links, pending, requests, streams, feed, reply, due, known, attached, terminals>>
  BY DEF Forward, daemonVars, feedOnly, clientVars, linkVars
<1>2. PICK s \in owed : events' = Append(events, Told("exited", [Absent EXCEPT ![s] = "Stopped"]))
  BY DEF Forward
<1> DEFINE e == Told("exited", [Absent EXCEPT ![s] = "Stopped"])
<1>3. e \in Event /\ e.kind = "exited"
  BY DEF Told, Event, Absent, Listing
<1> HIDE DEF e
<1>4. /\ HasUp(events') <=> HasUp(events)
      /\ HasList(events') <=> HasList(events)
      /\ \A t : HasRunning(events', t) <=> HasRunning(events, t)
      /\ NoRecentDown(events) => NoRecentDown(events')
      /\ \A ss : EventsOmit(events, ss) => EventsOmit(events', ss)
  <2>1. events' = Append(events, e)
    BY <1>2 DEF e
  <2> QED
    BY <1>3, <2>1, MoreEvents
<1>5. Queue' = Queue /\ Awaiting' = Awaiting /\ Settled' = Settled /\ KilledBefore' = KilledBefore
  BY <1>1, <1>4 DEF Queue, Awaiting, Settled, KilledBefore
<1>6. WiresFit' /\ HoldingsFit' /\ KillsFit' /\ RestartsFit' /\ AttachedFit'
  BY <1>1, <1>4, <1>5 DEF WiresFit, HoldingsFit, Alive, KillsFit, RestartsFit, AttachedFit
<1>7. ListsFit' /\ ListedFit'
  BY <1>1, <1>4, <1>5 DEF ListsFit, ListedFit, ListComes, ListHeard, Alive
<1>8. AnswersFit'
  BY <1>1, <1>4, <1>5 DEF AnswersFit, Up, AnswerComes, RunningComes
<1> QED
  BY <1>6, <1>7, <1>8 DEF FitInv

\* The handler subscribes, or launches.
LEMMA HandleAttachStep ==
  ASSUME FeedInv, HandleAttach
  PROVE  FitInv'
<1> USE DEF FeedInv, TypeInv, FeedTypeOK
<1> DEFINE q == Head(requests)
<1>1. /\ UNCHANGED <<client, table, telling, killedOn, up, links, pending, events, feed, reply, due, known, attached, terminals>>
      /\ requests # <<>> /\ requests' = Tail(requests) /\ q.kind = "attach"
      /\ streams' = [streams EXCEPT ![q.sid] = IF table[q.sid] # None /\ ~Down(q.sid) THEN table[q.sid].run ELSE 0]
  BY DEF HandleAttach, Handles, daemonVars, feedOnly, clientVars, linkVars
<1>2. Awaiting' = Awaiting /\ Settled' = Settled /\ KilledBefore' = KilledBefore
  BY <1>1 DEF Awaiting, Settled, KilledBefore
<1>3. Queue' \in Seq(Request) /\ Queue \in Seq(Request) /\ Rest(Queue, Queue', 1) /\ Queue[1] = q
  BY <1>1, HandledRest
<1>4. q.kind = "attach" /\ q \in Request
  BY <1>1
<1> HIDE DEF q
<1>5. ASSUME NEW s \in Sid, Has(Queue, AttachOf(s)) PROVE q.sid = s \/ Has(Queue', AttachOf(s))
  BY <1>3, <1>5, RestHas DEF AttachOf
<1>6. Has(Queue, ListRequest) => Has(Queue', ListRequest)
  BY <1>3, <1>4, RestHas DEF ListRequest
<1>7. ASSUME NEW s \in Sid, q.sid = s PROVE streams'[s] # None /\ (Up(s) => streams'[s] = table[s].run)
  <2>1. table[s] # None => table[s].run \in Nat
    BY DEF Entry, Run
  <2>2. streams'[s] = IF table[s] # None /\ ~Down(s) THEN table[s].run ELSE 0
    BY <1>1, <1>7
  <2> QED
    BY <2>1, <2>2, NoneAssumption DEF Up, Down
<1>8. \A s \in Sid : q.sid # s => streams'[s] = streams[s]
  BY <1>1
<1>9. WiresFit' /\ HoldingsFit' /\ KillsFit' /\ ListsFit'
  BY <1>1, <1>2 DEF WiresFit, HoldingsFit, Alive, KillsFit, ListsFit
<1>10. RestartsFit'
  BY <1>2, <1>3, RestFollowed DEF RestartsFit
<1>11. AttachedFit'
  BY <1>1, <1>2, <1>5, <1>7, <1>8 DEF AttachedFit
<1>12. ListedFit'
  BY <1>1, <1>2, <1>6 DEF ListedFit, ListComes, ListHeard, Alive
<1>13. AnswersFit'
  <2> SUFFICES ASSUME Settled', NEW s \in Sid, (Up(s) /\ table[s].asked)' PROVE AnswerComes(s)'
    BY DEF AnswersFit
  <2>1. Up(s) /\ AnswerComes(s)
    BY <1>1, <1>2 DEF AnswersFit, Up
  <2>2. CASE q.sid = s
    BY <1>1, <1>7, <2>1, <2>2 DEF AnswerComes
  <2>3. CASE q.sid # s
    BY <1>1, <1>2, <1>5, <1>6, <1>8, <2>1, <2>3 DEF AnswerComes, RunningComes
  <2> QED
    BY <2>2, <2>3
<1> QED
  BY <1>9, <1>10, <1>11, <1>12, <1>13 DEF FitInv

LEMMA HandleRestartStep ==
  ASSUME FeedInv, HandleRestart
  PROVE  FitInv'
<1> USE DEF FeedInv, TypeInv, FeedTypeOK
<1> DEFINE q == Head(requests)
<1>1. /\ UNCHANGED <<client, killedOn, up, links, pending, events, streams, feed, reply, due, known, attached, terminals>>
      /\ requests # <<>> /\ requests' = Tail(requests) /\ q.kind = "restart"
      /\ \/ Down(q.sid) /\ ChangeTable(q.sid, Launched(TRUE))
         \/ UNCHANGED <<table, changes, telling>>
  BY DEF HandleRestart, Handles, connVars, feedOnly, clientVars, linkVars
<1>2. Awaiting' = Awaiting /\ Settled' = Settled /\ KilledBefore' = KilledBefore
  BY <1>1 DEF Awaiting, Settled, KilledBefore
<1>3. Queue' \in Seq(Request) /\ Queue \in Seq(Request) /\ Queue # <<>> /\ Rest(Queue, Queue', 1) /\ Queue[1] = q
  BY <1>1, HandledRest
<1>4. q.kind = "restart"
  BY <1>1
<1> HIDE DEF q
<1>5. \A s : Has(Queue, AttachOf(s)) => Has(Queue', AttachOf(s))
  BY <1>3, <1>4, RestHas DEF AttachOf
<1>6. Has(Queue, ListRequest) => Has(Queue', ListRequest)
  BY <1>3, <1>4, RestHas DEF ListRequest
<1>7. q.sid \in Awaiting \/ Has(Queue', AttachOf(q.sid))
  <2>1. 1 \in DOMAIN Queue
    BY <1>3
  <2>2. CASE \E j \in DOMAIN Queue : j > 1 /\ Queue[j] = AttachOf(q.sid)
    <3>1. Has(Queue, AttachOf(q.sid))
      BY <2>2 DEF Has
    <3> QED
      BY <1>5, <3>1
  <2> QED
    BY <1>3, <1>4, <2>1, <2>2 DEF RestartsFit, Followed
<1>8. WiresFit' /\ HoldingsFit' /\ ListsFit'
  BY <1>1, <1>2 DEF WiresFit, HoldingsFit, Alive, ListsFit
<1>9. KillsFit'
  BY <1>1 DEF KillsFit, ChangeTable, Down
<1>10. RestartsFit'
  BY <1>2, <1>3, RestFollowed DEF RestartsFit
<1>11. AttachedFit' /\ ListedFit'
  BY <1>1, <1>2, <1>5, <1>6 DEF AttachedFit, ListedFit, ListComes, ListHeard, Alive
<1>12. AnswersFit'
  <2> SUFFICES ASSUME Settled', NEW s \in Sid, (Up(s) /\ table[s].asked)' PROVE AnswerComes(s)'
    BY DEF AnswersFit
  <2>1. telling > 0 => telling' > 0
    BY <1>1, TellsMore
  <2>2. RunningComes(s) => RunningComes(s)'
    BY <1>1, <1>6, <2>1 DEF RunningComes
  <2>3. CASE table'[s] = table[s]
    BY <1>1, <1>2, <1>5, <2>2, <2>3 DEF AnswersFit, Up, AnswerComes
  <2>4. CASE table'[s] # table[s]
    <3>1. ChangeTable(q.sid, Launched(TRUE))
      BY <1>1, <2>4
    <3>2. s = q.sid /\ telling' > 0
      BY <2>4, <3>1, TellsMore DEF ChangeTable
    <3> QED
      BY <1>2, <1>7, <3>2 DEF AnswerComes, RunningComes
  <2> QED
    BY <2>3, <2>4
<1> QED
  BY <1>8, <1>9, <1>10, <1>11, <1>12 DEF FitInv

LEMMA PumpsTheSame ==
  ASSUME NEW T, NEW r \in Seq(T), NEW q \in Seq(T), q # <<>>
  PROVE  Append(r, Head(q)) \o Tail(q) = r \o q
<1> DEFINE s == Append(r, Head(q)) \o Tail(q)
           t == r \o q
<1>1. s \in Seq(T) /\ t \in Seq(T) /\ Len(s) = Len(r) + Len(q) /\ Len(t) = Len(r) + Len(q)
  OBVIOUS
<1>2. ASSUME NEW i \in 1..(Len(r) + Len(q)) PROVE s[i] = t[i]
  <2>1. CASE i \in 1..Len(r)
    BY <2>1
  <2>2. CASE i = Len(r) + 1
    BY <2>2
  <2>3. CASE i > Len(r) + 1
    BY <2>3
  <2> QED
    BY <2>1, <2>2, <2>3
<1> HIDE DEF s, t
<1> QED
  BY <1>1, <1>2, SeqEqual DEF s, t

LEMMA PumpStep ==
  ASSUME FeedInv, Pump
  PROVE  FitInv'
<1> USE DEF FeedInv, TypeInv, FeedTypeOK
<1>1. /\ UNCHANGED <<client, table, telling, killedOn, up, links, events, streams, feed, reply, due, known, attached, terminals>>
      /\ up /\ pending # <<>> /\ requests' = Append(requests, Head(pending)) /\ pending' = Tail(pending)
  BY DEF Pump, daemonVars, connVars, feedOnly, clientVars, linkVars
<1>2. Queue' = Queue
  <2>1. requests \in Seq(Request) /\ pending \in Seq(Request)
    OBVIOUS
  <2>2. Append(requests, Head(pending)) \o Tail(pending) = requests \o pending
    BY <1>1, <2>1, PumpsTheSame
  <2> QED
    BY <1>1, <2>2 DEF Queue
<1>3. Awaiting' = Awaiting /\ Settled' = Settled /\ KilledBefore' = KilledBefore
  BY <1>1 DEF Awaiting, Settled, KilledBefore
<1>4. WiresFit' /\ HoldingsFit' /\ KillsFit' /\ ListsFit'
  BY <1>1, <1>3 DEF WiresFit, HoldingsFit, Alive, KillsFit, ListsFit
<1>5. RestartsFit' /\ AttachedFit' /\ ListedFit'
  BY <1>1, <1>2, <1>3 DEF RestartsFit, AttachedFit, ListedFit, ListComes, ListHeard, Alive
<1>6. AnswersFit'
  BY <1>1, <1>2, <1>3 DEF AnswersFit, Up, AnswerComes, RunningComes
<1> QED
  BY <1>4, <1>5, <1>6 DEF FitInv

\* A connection begins or ends: what was on its way to the daemon on the last one is lost,
\* and what waits for the next keeps its order.
LEMMA LinkStep ==
  ASSUME FeedInv, Link
  PROVE  FitInv'
<1> USE DEF FeedInv, TypeInv, FeedTypeOK
<1>1. /\ UNCHANGED <<client, table, killedOn, known, attached, terminals>>
      /\ requests' = <<>> /\ feed' = None /\ reply' = None
  BY DEF Link, LinkUp, Redial, LinkDown, NewConnection, daemonVars, clientVars
<1>2. \/ up' /\ links' = links + 1 /\ pending' = pending /\ events' = Append(events, Told("up", Absent))
      \/ /\ ~up' /\ links' = links /\ events' = Append(events, Told("down", Absent))
         /\ \/ pending' = pending
            \/ pending # <<>> /\ pending' = Tail(pending)
  BY DEF Link, LinkUp, Redial, LinkDown, NewConnection
<1>3. Told("up", Absent) \in Event /\ Told("down", Absent) \in Event
  BY AbsentIs DEF Told, Event
<1>4. Told("up", Absent).kind = "up" /\ Told("down", Absent).kind = "down"
  BY DEF Told
<1>5. /\ ~Settled'
      /\ up' => NoRecentDown(events')
      /\ links' = links + 1 => \A ss : EventsOmit(events', ss)
      /\ \A ss : EventsOmit(events, ss) => EventsOmit(events', ss)
  <2>1. CASE up' /\ links' = links + 1 /\ events' = Append(events, Told("up", Absent))
    BY <1>3, <1>4, <2>1, MoreEvents DEF Settled
  <2>2. CASE ~up' /\ links' = links /\ events' = Append(events, Told("down", Absent))
    <3>1. links # links + 1
      BY Bounds
    <3> QED
      BY <1>3, <1>4, <2>2, <3>1, MoreEvents DEF Settled
  <2> QED
    BY <1>2, <2>1, <2>2
<1>6. Queue \in Seq(Request) /\ Queue' \in Seq(Request) /\ \E n \in Nat : Rest(Queue, Queue', n)
  <2>1. Queue \in Seq(Request) /\ Queue = requests \o pending /\ Queue' = pending'
    BY <1>1, <1>2 DEF Queue
  <2>2. CASE pending' = pending
    <3>1. Rest(requests \o pending, pending, Len(requests)) /\ Len(requests) \in Nat
      BY DEF Rest
    <3> QED
      BY <2>1, <2>2, <3>1
  <2>3. CASE pending # <<>> /\ pending' = Tail(pending)
    <3> DEFINE n == Len(requests) + 1
    <3>1. Len(Tail(pending)) + n = Len(requests \o pending) /\ n \in Nat
      BY <2>3
    <3>2. ASSUME NEW i \in 1..Len(Tail(pending)) PROVE Tail(pending)[i] = (requests \o pending)[i + n]
      <4>1. i + 1 \in 1..Len(pending) /\ Tail(pending)[i] = pending[i + 1]
        BY <2>3
      <4>2. (requests \o pending)[Len(requests) + (i + 1)] = pending[i + 1]
        BY <4>1
      <4>3. i + n = Len(requests) + (i + 1)
        OBVIOUS
      <4> QED
        BY <4>1, <4>2, <4>3
    <3> HIDE DEF n
    <3>3. Rest(requests \o pending, Tail(pending), n)
      BY <3>1, <3>2 DEF Rest
    <3>4. Queue = requests \o pending /\ Queue' = Tail(pending) /\ Tail(pending) \in Seq(Request)
      BY <2>1, <2>3
    <3> QED
      BY <3>1, <3>3, <3>4
  <2> QED
    BY <1>2, <2>2, <2>3
<1>7. WiresFit' /\ HoldingsFit'
  BY <1>1, <1>2, <1>5 DEF WiresFit, HoldingsFit, Alive
<1>8. KillsFit'
  <2>1. \A s \in Sid : killedOn[s] # None /\ killedOn[s] <= links => killedOn[s] <= links'
    BY <1>2, Bounds
  <2> QED
    BY <1>1, <2>1 DEF KillsFit
<1>9. ListsFit'
  <2>1. links' = links => KilledBefore' = KilledBefore
    BY <1>1 DEF KilledBefore
  <2> QED
    BY <1>1, <1>2, <1>5, <2>1 DEF ListsFit
<1>10. RestartsFit'
  <2>1. Awaiting' = Awaiting
    BY <1>1 DEF Awaiting
  <2> QED
    BY <1>6, <2>1, RestFollowed DEF RestartsFit
<1> QED
  BY <1>5, <1>7, <1>8, <1>9, <1>10 DEF FitInv, AttachedFit, ListedFit, AnswersFit

\* The client sends a batch: it is queued, or the queue is the macOS client's and there is no
\* connection.
LEMMA SendIs ==
  ASSUME TypeInv, WiresFit, NEW batch \in Seq(Request), SendAll(batch), client' = client, up' = up
  PROVE  /\ Queue \in Seq(Request) /\ Queue' \in Seq(Request)
         /\ Queue' = Queue \o batch \/ (~up /\ Queue' = <<>>)
         /\ client = "macos" => pending' = <<>>
         /\ up \/ requests' = <<>>
<1>1. requests \in Seq(Request) /\ pending \in Seq(Request) /\ client \in {"macos", "terminal"}
  BY DEF TypeInv, FeedTypeOK
<1>2. CASE client = "terminal"
  <2>1. pending' = pending \o batch /\ requests' = requests
    BY <1>2 DEF SendAll
  <2>2. requests \o (pending \o batch) = (requests \o pending) \o batch
    BY <1>1
  <2> QED
    BY <1>1, <1>2, <2>1, <2>2 DEF Queue, WiresFit
<1>3. CASE client = "macos" /\ up
  <2>1. requests' = requests \o batch /\ pending = <<>> /\ pending' = <<>>
    BY <1>3 DEF SendAll, WiresFit
  <2> QED
    BY <1>1, <1>3, <2>1 DEF Queue
<1>4. CASE client = "macos" /\ ~up
  <2>1. requests' = <<>> /\ pending' = <<>>
    BY <1>4 DEF SendAll, WiresFit
  <2> QED
    BY <1>1, <1>4, <2>1 DEF Queue
<1> QED
  BY <1>1, <1>2, <1>3, <1>4

\* A batch without restarts, that attaches to what is not awaited any more.
LEMMA SentFollowed ==
  ASSUME TypeInv, WiresFit, RestartsFit, NEW batch \in Seq(Request), SendAll(batch), client' = client, up' = up,
         \A s \in Awaiting : s \in Awaiting' \/ Has(batch, AttachOf(s)),
         \A i \in DOMAIN batch : batch[i].kind = "restart" => batch[i].sid \in Awaiting'
  PROVE  RestartsFit'
<1>1. CASE Queue' = Queue \o batch
  BY <1>1, SendIs, MoreFollowed DEF RestartsFit
<1>2. CASE Queue' = <<>>
  BY <1>2 DEF RestartsFit, Followed
<1> QED
  BY <1>1, <1>2, SendIs

\* The client hears that there is a connection, or that there is none.
LEMMA ConnectedStep ==
  ASSUME FeedInv, Connected
  PROVE  FitInv'
<1> USE DEF FeedInv, TypeInv, FeedTypeOK
<1>1. /\ UNCHANGED <<client, table, killedOn, telling, up, links, streams, feed, reply, due, known, terminals>>
      /\ events # <<>> /\ Head(events).kind = "up" /\ events' = Tail(events)
      /\ attached' = {} /\ SendAll(<<ListRequest>>)
  BY DEF Connected, Hears, Voided, daemonVars, connVars, feedOnly, linkVars
<1> DEFINE b == <<ListRequest>>
<1>2. b \in Seq(Request) /\ Has(b, ListRequest) /\ \A i \in DOMAIN b : b[i].kind = "list"
  BY DEF ListRequest, Request, Has
<1> HIDE DEF b
<1>3. SendAll(b)
  BY <1>1 DEF b
<1>4. /\ Queue' = Queue \o b \/ ~up
      /\ client = "macos" => pending' = <<>>
      /\ up \/ requests' = <<>>
      /\ Queue \in Seq(Request)
  BY <1>1, <1>2, <1>3, SendIs
<1>5. up => Has(Queue', ListRequest)
  <2>1. \A x : Has(Queue \o b, x) <=> Has(Queue, x) \/ Has(b, x)
    BY <1>2, <1>4, MoreHas
  <2> QED
    BY <1>2, <1>4, <2>1
<1>6. /\ NoRecentDown(events) => NoRecentDown(events')
      /\ \A ss : EventsOmit(events, ss) => EventsOmit(events', ss)
  BY <1>1, TailEvents
<1>7. Awaiting' = Sid /\ KilledBefore' = KilledBefore
  BY <1>1 DEF Awaiting, KilledBefore
<1>8. WiresFit' /\ HoldingsFit' /\ KillsFit' /\ ListsFit'
  BY <1>1, <1>4, <1>6, <1>7 DEF WiresFit, HoldingsFit, Alive, KillsFit, ListsFit
<1>9. RestartsFit'
  <2>1. \A s \in Awaiting : s \in Awaiting'
    BY <1>7 DEF Awaiting
  <2> QED
    BY <1>1, <1>2, <1>3, <2>1, SentFollowed
<1>10. AttachedFit' /\ ListedFit'
  BY <1>1, <1>5 DEF AttachedFit, ListedFit, ListComes, Settled
<1>11. AnswersFit'
  BY <1>1, <1>5, <1>7 DEF AnswersFit, AnswerComes, RunningComes, Settled
<1> QED
  BY <1>8, <1>9, <1>10, <1>11 DEF FitInv

LEMMA DisconnectedStep ==
  ASSUME FeedInv, Disconnected
  PROVE  FitInv'
<1> USE DEF FeedInv, TypeInv, FeedTypeOK
<1>1. /\ UNCHANGED <<client, table, killedOn, telling, up, links, pending, requests, streams, feed, reply, due, known, terminals>>
      /\ events # <<>> /\ Head(events).kind = "down" /\ events' = Tail(events)
      /\ attached' \subseteq attached
  BY DEF Disconnected, Hears, daemonVars, connVars, feedOnly, linkVars
<1>2. /\ NoRecentDown(events) => NoRecentDown(events') /\ HasUp(events')
      /\ \A ss : EventsOmit(events, ss) => EventsOmit(events', ss)
  BY <1>1, TailEvents
<1>3. ~Settled'
  BY <1>1, <1>2 DEF Settled, WiresFit
<1>4. Queue' = Queue /\ Awaiting \subseteq Awaiting' /\ KilledBefore' = KilledBefore
  BY <1>1 DEF Queue, Awaiting, KilledBefore
<1>5. WiresFit' /\ HoldingsFit' /\ KillsFit' /\ ListsFit'
  BY <1>1, <1>2, <1>4 DEF WiresFit, HoldingsFit, Alive, KillsFit, ListsFit
<1>6. RestartsFit'
  BY <1>4 DEF RestartsFit, Followed
<1> QED
  BY <1>3, <1>5, <1>6 DEF FitInv, AttachedFit, ListedFit, AnswersFit

\* The client hears a list: it attaches to all that is listed and to nothing else.
LEMMA SessionsStep ==
  ASSUME FeedInv, Sessions
  PROVE  FitInv'
<1> USE DEF FeedInv, TypeInv, FeedTypeOK
<1>1. /\ UNCHANGED <<client, table, killedOn, telling, up, links, streams, feed, reply, due>>
      /\ events # <<>> /\ Head(events).kind = "sessions" /\ events' = Tail(events)
  BY DEF Sessions, Hears, daemonVars, connVars, feedOnly, linkVars
<1>2. Head(events) \in Event
  BY <1>1
<1>3. PICK l \in Listing : l = Head(events).list
  BY <1>2 DEF Event
<1>4. /\ known' = l /\ attached' = Alive(l) /\ SendAll(Asks(l))
      /\ terminals' = (terminals \ (IF client = "macos" THEN Alive(known) \ Alive(l) ELSE Sid \ Alive(l))) \cup Fresh(l)
  BY <1>3 DEF Sessions
<1> DEFINE b == Asks(l)
<1>5. Fresh(l) \subseteq Alive(l) /\ Alive(l) \subseteq Sid
  BY DEF Fresh, Alive
<1>6. /\ b \in Seq(Request) /\ \A s \in Fresh(l) : Has(b, AttachOf(s))
      /\ \A i \in DOMAIN b : b[i].kind = "attach"
  BY <1>5, AttachingIs DEF Asks, AttachOf, Has
<1> HIDE DEF b
<1>7. SendAll(b)
  BY <1>4 DEF b
<1>8. /\ Queue' = Queue \o b \/ ~up
      /\ client = "macos" => pending' = <<>>
      /\ up \/ requests' = <<>>
      /\ Queue \in Seq(Request)
  BY <1>1, <1>6, <1>7, SendIs
<1>9. up => \A x : Has(Queue', x) <=> Has(Queue, x) \/ Has(b, x)
  <2>1. \A x : Has(Queue \o b, x) <=> Has(Queue, x) \/ Has(b, x)
    BY <1>6, <1>8, MoreHas
  <2> QED
    BY <1>6, <1>8, <2>1
<1>10. /\ HasUp(events) <=> HasUp(events')
       /\ \A s : HasRunning(events, s) => l[s] = "Running" \/ HasRunning(events', s)
       /\ NoRecentDown(events) => NoRecentDown(events')
       /\ \A ss : EventsOmit(events, ss) => EventsOmit(events', ss) /\ (Omits(l, ss) \/ HasUp(events'))
  BY <1>1, <1>3, TailEvents
<1>11. Settled' = Settled /\ KilledBefore' = KilledBefore
  BY <1>1, <1>10 DEF Settled, KilledBefore
<1>12. ASSUME NEW s \in Awaiting PROVE s \in Awaiting' \/ (s \in Fresh(l) /\ Has(b, AttachOf(s)))
  <2>1. CASE l[s] = "Running"
    <3>1. s \in Alive(l) /\ s \notin Kept(l)
      BY <1>12, <2>1 DEF Alive, Awaiting, Kept, Restarted
    <3> QED
      BY <1>6, <3>1 DEF Fresh
  <2>2. CASE l[s] # "Running"
    <3>1. s \in Sid /\ (l[s] = "Stopped" \/ s \notin Alive(l))
      BY <1>12, <2>2 DEF Awaiting, Alive, Listing
    <3> QED
      BY <1>4, <3>1 DEF Awaiting
  <2> QED
    BY <2>1, <2>2
<1>13. ASSUME NEW s \in Awaiting, l[s] = "Running" PROVE s \in Fresh(l)
  BY <1>13 DEF Alive, Awaiting, Kept, Restarted, Fresh
<1>14. WiresFit' /\ KillsFit' /\ ListsFit'
  BY <1>1, <1>8, <1>10, <1>11 DEF WiresFit, KillsFit, ListsFit
<1>15. HoldingsFit'
  BY <1>1, <1>4, <1>5 DEF HoldingsFit, Alive
<1>16. RestartsFit'
  BY <1>1, <1>6, <1>7, <1>12, SentFollowed
<1>17. AttachedFit'
  <2> SUFFICES ASSUME Settled, NEW s \in Alive(l) PROVE streams[s] # None \/ Has(Queue', AttachOf(s))
    BY <1>1, <1>4, <1>11 DEF AttachedFit
  <2>1. CASE s \in Fresh(l)
    BY <1>6, <1>9, <2>1 DEF Settled
  <2>2. CASE s \notin Fresh(l)
    <3>1. s \in attached
      BY <2>2 DEF Fresh, Kept
    <3> QED
      BY <1>9, <3>1 DEF AttachedFit, Settled
  <2> QED
    BY <2>1, <2>2
<1>18. ListedFit'
  <2> SUFFICES ASSUME Settled' PROVE ListHeard'
    BY DEF ListedFit
  <2>1. Omits(l, KilledBefore)
    BY <1>10 DEF Settled, ListsFit
  <2> QED
    BY <1>4, <1>11, <2>1 DEF ListHeard
<1>19. AnswersFit'
  <2> SUFFICES ASSUME Settled', NEW s \in Sid, (Up(s) /\ table[s].asked)' PROVE AnswerComes(s)'
    BY DEF AnswersFit
  <2>1. AnswerComes(s) /\ up
    BY <1>1, <1>11 DEF AnswersFit, Up, Settled
  <2>2. CASE streams[s] = table[s].run \/ Has(Queue, AttachOf(s))
    BY <1>1, <1>9, <2>1, <2>2 DEF AnswerComes
  <2>3. CASE s \in Awaiting /\ l[s] = "Running"
    BY <1>6, <1>9, <1>13, <2>1, <2>3 DEF AnswerComes
  <2>4. CASE s \in Awaiting /\ RunningComes(s) /\ l[s] # "Running"
    <3>1. RunningComes(s)'
      BY <1>1, <1>9, <1>10, <2>1, <2>4 DEF RunningComes
    <3>2. s \in Awaiting' \/ Has(Queue', AttachOf(s))
      BY <1>9, <1>12, <2>1, <2>4
    <3> QED
      BY <3>1, <3>2 DEF AnswerComes
  <2> QED
    BY <2>1, <2>2, <2>3, <2>4 DEF AnswerComes
<1> QED
  BY <1>14, <1>15, <1>16, <1>17, <1>18, <1>19 DEF FitInv

\* The terminal client hears that a run has ended.
LEMMA ExitedStep ==
  ASSUME FeedInv, Exited
  PROVE  FitInv'
<1> USE DEF FeedInv, TypeInv, FeedTypeOK
<1>1. /\ UNCHANGED <<client, table, killedOn, telling, up, links, pending, requests, streams, feed, reply, due, attached, terminals>>
      /\ events # <<>> /\ Head(events).kind = "exited" /\ events' = Tail(events)
      /\ \A s \in Sid : known'[s] = known[s] \/ (known[s] # "absent" /\ known'[s] = "Stopped")
  BY DEF Exited, Hears, daemonVars, connVars, feedOnly, linkVars
<1>2. /\ HasUp(events) <=> HasUp(events')
      /\ HasList(events) <=> HasList(events')
      /\ \A s : HasRunning(events, s) <=> HasRunning(events', s)
      /\ NoRecentDown(events) => NoRecentDown(events')
      /\ \A ss : EventsOmit(events, ss) => EventsOmit(events', ss)
  BY <1>1, TailEvents
<1>3. Queue' = Queue /\ Awaiting \subseteq Awaiting' /\ KilledBefore' = KilledBefore /\ Settled' = Settled
  BY <1>1, <1>2 DEF Queue, Awaiting, KilledBefore, Settled
<1>4. Alive(known') = Alive(known) /\ (Omits(known, KilledBefore) => Omits(known', KilledBefore))
  BY <1>1 DEF Alive, Omits, KilledBefore
<1>5. WiresFit' /\ HoldingsFit' /\ KillsFit' /\ ListsFit'
  BY <1>1, <1>2, <1>3, <1>4 DEF WiresFit, HoldingsFit, KillsFit, ListsFit
<1>6. RestartsFit' /\ AttachedFit'
  BY <1>1, <1>3 DEF RestartsFit, Followed, AttachedFit
<1>7. ListedFit'
  BY <1>1, <1>2, <1>3, <1>4 DEF ListedFit, ListComes, ListHeard
<1>8. AnswersFit'
  BY <1>1, <1>2, <1>3 DEF AnswersFit, Up, AnswerComes, RunningComes
<1> QED
  BY <1>5, <1>6, <1>7, <1>8 DEF FitInv

\* The user restarts a session shown as stopped, and so awaits it.
LEMMA AskStep ==
  ASSUME FeedInv, NEW t \in Sid, AskRestart(t)
  PROVE  FitInv'
<1> USE DEF FeedInv, TypeInv, FeedTypeOK
<1> DEFINE b == <<[kind |-> "restart", sid |-> t]>>
<1>1. /\ UNCHANGED <<client, table, killedOn, telling, up, links, events, streams, feed, reply, due, known, attached, terminals>>
      /\ known[t] = "Stopped" /\ SendAll(b)
  BY DEF AskRestart, daemonVars, connVars, feedOnly, linkVars
<1>2. Awaiting' = Awaiting /\ t \in Awaiting /\ KilledBefore' = KilledBefore /\ Settled' = Settled
  BY <1>1 DEF Awaiting, KilledBefore, Settled
<1>3. b \in Seq(Request) /\ \A i \in DOMAIN b : b[i].sid = t
  BY DEF Request
<1> HIDE DEF b
<1>4. /\ Queue' = Queue \o b \/ ~up
      /\ client = "macos" => pending' = <<>>
      /\ up \/ requests' = <<>>
      /\ Queue \in Seq(Request)
  BY <1>1, <1>3, SendIs
<1>5. up => \A x : Has(Queue, x) => Has(Queue', x)
  <2>1. \A x : Has(Queue \o b, x) <=> Has(Queue, x) \/ Has(b, x)
    BY <1>3, <1>4, MoreHas
  <2> QED
    BY <1>3, <1>4, <2>1
<1>6. WiresFit' /\ HoldingsFit' /\ KillsFit' /\ ListsFit'
  BY <1>1, <1>2, <1>4 DEF WiresFit, HoldingsFit, Alive, KillsFit, ListsFit
<1>7. RestartsFit'
  BY <1>1, <1>2, <1>3, SentFollowed
<1>8. AttachedFit' /\ ListedFit'
  BY <1>1, <1>2, <1>5 DEF AttachedFit, ListedFit, ListComes, ListHeard, Alive, Settled
<1>9. AnswersFit'
  BY <1>1, <1>2, <1>5 DEF AnswersFit, Up, AnswerComes, RunningComes, Settled
<1> QED
  BY <1>6, <1>7, <1>8, <1>9 DEF FitInv

--------------------------------------------------------------------------------
\* The strengthening is an invariant: whatever the table, the link, either client and its
\* user do, every list, Attach and restart that is owed is on its way.
THEOREM FeedInductive == Spec => []FeedInv
<1>1. Init => FeedInv
  BY TypeInit, FitInit DEF FeedInv, FitInv
<1>2. FeedInv /\ [Next]_feedVars => FeedInv'
  <2> SUFFICES ASSUME FeedInv, [Next]_feedVars PROVE FeedInv'
    OBVIOUS
  <2>1. TypeInv'
    BY TypeStep DEF FeedInv
  <2>2. FitInv'
    <3>1. CASE UNCHANGED feedVars
      BY <3>1 DEF feedVars, daemonVars, connVars, feedOnly, wireVars, clientVars, linkVars, FeedInv, FitInv,
         WiresFit, HoldingsFit, KillsFit, ListsFit, AttachedFit, ListedFit, RestartsFit, AnswersFit, Settled,
         Queue, Alive, KilledBefore, ListComes, ListHeard, Awaiting, Up, AnswerComes, RunningComes
    <3>2. ASSUME NEW s \in Sid, AskRestart(s) PROVE FitInv'
      BY <3>2, AskStep
    <3> QED
      BY <3>1, <3>2, TableStep, FeedListStep, FeedSendStep, ForwardStep, HandleListStep, ReplyListStep,
         HandleAttachStep, HandleRestartStep, PumpStep, LinkStep, ConnectedStep, DisconnectedStep,
         SessionsStep, ExitedStep DEF Next, Feed, Handler, Client, User
  <2> QED
    BY <2>1, <2>2 DEF FeedInv, FitInv
<1> QED
  BY <1>1, <1>2, PTL DEF Spec

\* The variables keep their types.
THEOREM FeedTyped == Spec => []FeedTypeOK
<1>1. FeedInv => FeedTypeOK
  BY DEF FeedInv, TypeInv
<1> QED
  BY <1>1, FeedInductive, PTL

\* When all is quiet there is nothing left of the connections before, in the queue or on its
\* way to either side.
LEMMA AtRestIs == FeedInv /\ up /\ AtRest =>
  Settled /\ Queue = <<>> /\ (\A x : ~Has(Queue, x)) /\ ~HasList(events) /\ \A s : ~HasRunning(events, s)
BY DEF FeedInv, AtRest, Settled, Queue, Has, HasUp, HasList, HasRunning

\* Every connection is given the attachments anew (reconcile, SessionRegistry.sessions):
\* when it is quiet, all that is shown has been attached to on it, and what was killed
\* before it is gone.
THEOREM AttachedAnew == Spec => []ReattachedAfterReconnect
<1>1. ASSUME FeedInv, up, AtRest
      PROVE  /\ \A s \in Alive(known) : s \in attached /\ streams[s] # None
             /\ \A s \in Sid : killedOn[s] # None /\ killedOn[s] < links
                                => known[s] = "absent" /\ s \notin terminals
  <2>1. Settled /\ ~ListComes /\ \A x : ~Has(Queue, x)
    BY <1>1, AtRestIs DEF ListComes, AtRest
  <2>2. ListHeard
    BY <1>1, <2>1 DEF FeedInv, ListedFit
  <2>3. \A s \in attached : streams[s] # None
    BY <1>1, <2>1 DEF FeedInv, AttachedFit
  <2>4. terminals \subseteq Alive(known)
    BY <1>1 DEF FeedInv, HoldingsFit
  <2> QED
    BY <2>2, <2>3, <2>4 DEF ListHeard, Omits, KilledBefore, Alive
<1>2. FeedInv => ReattachedAfterReconnect
  BY <1>1 DEF ReattachedAfterReconnect
<1> QED
  BY <1>2, FeedInductive, PTL

\* The restart a user asks for is never silent, on whichever connection it is served and
\* whatever is listed in between: when it is quiet, its run streams to the client.
THEOREM RestartGetsSeen == Spec => []RestartIsSeen
<1>1. ASSUME FeedInv, up, AtRest, NEW s \in Sid, Up(s), table[s].asked
      PROVE  streams[s] = table[s].run
  <2>1. Settled /\ (\A x : ~Has(Queue, x)) /\ ~HasRunning(events, s)
    BY <1>1, AtRestIs
  <2>2. telling = 0 /\ due = 0 /\ feed = None /\ reply = None
    BY <1>1 DEF AtRest
  <2>3. ~RunningComes(s)
    BY <2>1, <2>2 DEF RunningComes
  <2> QED
    BY <1>1, <2>1, <2>3 DEF FeedInv, AnswersFit, AnswerComes
<1>2. FeedInv => RestartIsSeen
  BY <1>1 DEF RestartIsSeen
<1> QED
  BY <1>2, FeedInductive, PTL
================================================================================
