---------------------------- MODULE AttachFeedProofs ----------------------------
(***************************************************************************)
(* What a terminal of the macOS client parses, answers and tells the PTY,  *)
(* for any grids, any length of the backlog and any number of events.      *)
(***************************************************************************)
EXTENDS AttachFeed, SequenceTheorems, TLAPS

(* The records. *)
Wide == Grid \cup {Default}
Pieces == [kind : {"replay", "live", "exit", "old exit"}, n : Nat]
Feeds ==
  [backlog : Seq(Pieces), held : BOOLEAN, exit : Pieces \cup {None},
   laidOut : Grid \cup {None}, reported : Wide \cup {None}, sized : BOOLEAN,
   arrived : BOOLEAN, open : BOOLEAN, timer : {"off", "armed", "ripe"},
   opening : {"no", "settled", "parsed"}, reporting : Grid \cup {None},
   crossed : BOOLEAN, answered : BOOLEAN, early : BOOLEAN, got : Nat]
Sessions == [input : Seq(Pieces), parsed : Seq(Pieces), narrow : BOOLEAN, answers : BOOLEAN]
Surfaces ==
  [grid : Wide, resizes : Seq(Wide), resizing : Wide \cup {None}, laid : BOOLEAN,
   sizes : Seq(Grid)]
Streams == [term : Nat, run : Nat, queue : Seq({"live", "exited"})]
Frames == [kind : {"replay", "live", "exited", "up", "Running", "Stopped"}, term : Nat]

NetTypes ==
  /\ daemon \in [run : Nat \ {0}, up : BOOLEAN, due : BOOLEAN] /\ daemon.run <= events + 1
  /\ stream \in Streams /\ frames \in Seq(Frames) /\ events \in 0..MaxEvents
AppTypes ==
  /\ reports \in Seq(Grid) /\ known \in {None, "Running", "Stopped"} /\ attached \in BOOLEAN
  /\ window \in [open : BOOLEAN, redial : BOOLEAN] /\ pane \in Grid /\ made \in Nat
  /\ pty \in Grid
TermTypes ==
  feed \in Feeds /\ session \in Sessions /\ surface \in Surfaces \cup {None}

--------------------------------------------------------------------------------
\* The grid: a surface starts at the default one, which is the first it takes up; what it
\* reported last is what it applies or has applied.
Last(s) == s[Len(s)]
Asked == IF surface.resizes # <<>> THEN Last(surface.resizes) ELSE feed.reported
Shown == IF surface.sizes # <<>> THEN Last(surface.sizes) ELSE feed.laidOut

SurfaceFits ==
  /\ surface.resizing # None => feed.reported = surface.resizing
  /\ surface.resizing = None /\ feed.reported # None => feed.reported = surface.grid
  /\ feed.reported = None => surface.resizing = None
  /\ \A i \in DOMAIN surface.resizes : surface.resizes[i] = Default => i = 1 /\ feed.reported = None
  /\ surface.laid => Asked = Shown /\ Shown \in Grid

\* A feed is sized as soon as ghostty's grid is the view's, and the beat after that is over
\* when the grid has been applied. What the main actor was told last, or is about to be told,
\* is what ghostty reported last, unless the two crossed.
Told == IF feed.reporting # None THEN feed.reporting ELSE IF reports # <<>> THEN Last(reports) ELSE pane

SizedFits ==
  /\ feed.reported # None /\ feed.reported = feed.laidOut => feed.sized
  /\ feed.sized => feed.reported \in Grid
  /\ feed.sized <=> feed.timer # "off"
  /\ feed.timer = "armed" => surface.resizing # None
  /\ feed.timer = "ripe" => surface.grid \in Grid
  /\ ~feed.held => feed.timer = "ripe"
  /\ ~feed.sized => feed.reporting = None
  /\ feed.sized /\ ~feed.crossed => Told = feed.reported

\* Without a surface none of this has begun.
Unsized ==
  /\ feed.reported = None /\ feed.laidOut = None /\ ~feed.sized /\ feed.held
  /\ feed.timer = "off" /\ feed.reporting = None

GridFits ==
  /\ ~window.open => surface = None /\ Unsized
  /\ \/ surface = None /\ Unsized
     \/ surface \in Surfaces /\ SurfaceFits /\ SizedFits
  /\ ~session.narrow

\* The PTY of a run that is being streamed has the pane's grid.
Live == daemon.up /\ stream.run = daemon.run
PtyFits == stream.run <= daemon.run /\ (Live => pty = pane)

--------------------------------------------------------------------------------
\* The frames of the streams come one stream after the other, the replay first and the end
\* last; the forwarder's queue follows them.
OfStream(f) == f.kind \in {"replay", "live", "exited"}
InOrder(f, g) ==
  OfStream(f) /\ OfStream(g) =>
    f.term <= g.term /\ (f.kind = "exited" \/ g.kind = "replay" => f.term < g.term)

FlowFits ==
  /\ stream.term <= made
  /\ stream.term = 0 => stream.queue = <<>> /\ stream.run = 0
  /\ \A q \in DOMAIN stream.queue : stream.queue[q] = "exited" => q = Len(stream.queue) /\ ~Live
  /\ \A i \in DOMAIN frames : OfStream(frames[i]) =>
       /\ frames[i].term \in 1..made
       /\ stream.term # 0 => frames[i].term <= stream.term
       /\ frames[i].kind = "exited" /\ frames[i].term = stream.term => stream.queue = <<>> /\ ~Live
  /\ \A i, j \in DOMAIN frames : i < j => InOrder(frames[i], frames[j])

\* Before the release nothing is parsed, and the backlog has the last chunks, as many as the
\* limit allows; from then on chunks go to the parser. Nothing of the stream follows the end
\* of the run.
Passed == session.parsed \o session.input
Over ==
  \/ feed.exit # None /\ feed.exit.kind = "exit"
  \/ \E i \in DOMAIN Passed : Passed[i].kind = "exit"

Newest(s, got) ==
  /\ Len(s) = IF got < Limit THEN got ELSE Limit
  /\ \A i \in DOMAIN s : s[i].n = got - Len(s) + i /\ s[i].kind \in {"replay", "live"}

HeldFits ==
  /\ feed.held => session.input = <<>> /\ session.parsed = <<>>
  /\ ~feed.held => feed.backlog = <<>> /\ feed.exit = None
  /\ feed.held => Newest(feed.backlog, feed.got)
  /\ feed.exit # None => feed.exit.kind \in {"exit", "old exit"} /\ feed.exit.n = 0

Chunks(s) == {i \in DOMAIN s : s[i].n > 0}
Numbered(s, got) ==
  /\ \A i, j \in Chunks(s) : i < j => s[i].n < s[j].n
  /\ \E first \in 1..(got + 1) :
       /\ {s[i].n : i \in Chunks(s)} = first..got
       /\ first = 1 \/ got - first + 1 >= Limit
EndsWithExit(s) == \A i \in DOMAIN s : s[i].kind = "exit" => i = Len(s)

PassedFits == ~feed.held => Numbered(Passed, feed.got) /\ EndsWithExit(Passed)

OverFits ==
  Over => /\ made # 0
          /\ \A i \in DOMAIN frames : ~OfStream(frames[i])
          /\ stream.term = made => stream.queue = <<>> /\ ~Live
          /\ stream.term \in {0, made}

OrderFits == HeldFits /\ PassedFits /\ OverFits

--------------------------------------------------------------------------------
\* A feed settles as soon as something has arrived and nothing is held. A feed that settled
\* on its own replay gets no other, and opens when the parser is through with that one.
OpenFits ==
  /\ feed.opening # "no" <=> feed.arrived /\ ~feed.held
  /\ feed.answered => feed.arrived /\ made # 0 /\ \A i \in DOMAIN frames : frames[i].kind # "replay"
  /\ feed.opening # "no" /\ ~feed.early => feed.answered
  /\ feed.opening = "parsed" /\ ~feed.early =>
       \A i \in DOMAIN session.input : session.input[i].kind # "replay"
  /\ feed.open => feed.opening = "parsed"
  /\ feed.open /\ ~feed.early => ~session.answers
  /\ leaked = FALSE

FeedInv ==
  /\ NetTypes /\ AppTypes /\ TermTypes
  /\ GridFits /\ PtyFits /\ FlowFits /\ OrderFits /\ OpenFits

--------------------------------------------------------------------------------
(* Sequences. *)

LEMMA OneMore ==
  ASSUME NEW S, NEW s \in Seq(S), NEW e \in S
  PROVE  LET t == Append(s, e) IN
           /\ t \in Seq(S) /\ t # <<>> /\ Len(s) \in Nat /\ Len(t) = Len(s) + 1
           /\ DOMAIN s = 1..Len(s) /\ DOMAIN t = 1..(Len(s) + 1)
           /\ \A i \in 1..Len(s) : t[i] = s[i]
           /\ t[Len(s) + 1] = e /\ t[Len(t)] = e
<1>1. /\ Append(s, e) \in Seq(S) /\ Append(s, e) # <<>> /\ Len(Append(s, e)) = Len(s) + 1
      /\ \A i \in 1..Len(s) : Append(s, e)[i] = s[i]
      /\ Append(s, e)[Len(s) + 1] = e
  BY AppendProperties
<1>2. Len(s) \in Nat /\ DOMAIN s = 1..Len(s)
  BY LenProperties
<1>3. DOMAIN Append(s, e) = 1..Len(Append(s, e))
  BY <1>1, LenProperties
<1> QED
  BY <1>1, <1>2, <1>3

LEMMA OneLess ==
  ASSUME NEW S, NEW s \in Seq(S), s # <<>>
  PROVE  /\ Len(s) \in Nat \ {0} /\ DOMAIN s = 1..Len(s)
         /\ Head(s) = s[1] /\ Head(s) \in S
         /\ Tail(s) \in Seq(S) /\ Len(Tail(s)) = Len(s) - 1 /\ DOMAIN Tail(s) = 1..(Len(s) - 1)
         /\ \A i \in 1..(Len(s) - 1) : Tail(s)[i] = s[i + 1]
<1>1. Len(s) \in Nat \ {0} /\ DOMAIN s = 1..Len(s)
  BY LenProperties, EmptySeq
<1>2. /\ Head(s) \in S /\ Tail(s) \in Seq(S) /\ Len(Tail(s)) = Len(s) - 1
      /\ \A i \in 1..Len(Tail(s)) : Tail(s)[i] = s[i + 1]
  BY HeadTailProperties
<1>3. DOMAIN Tail(s) = 1..Len(Tail(s))
  BY <1>2, LenProperties
<1>4. Head(s) = s[1]
  BY <1>1
<1> QED
  BY <1>1, <1>2, <1>3, <1>4

LEMMA LastOfTail ==
  ASSUME NEW S, NEW s \in Seq(S), s # <<>>
  PROVE  IF Len(s) = 1 THEN Tail(s) = <<>> /\ Last(s) = Head(s)
         ELSE Tail(s) # <<>> /\ Last(Tail(s)) = Last(s)
<1>1. /\ Len(s) \in Nat \ {0} /\ Head(s) = s[1] /\ Tail(s) \in Seq(S)
      /\ Len(Tail(s)) = Len(s) - 1 /\ \A i \in 1..(Len(s) - 1) : Tail(s)[i] = s[i + 1]
  BY OneLess
<1>2. CASE Len(s) = 1
  <2>1. Len(Tail(s)) = 0
    BY <1>1, <1>2
  <2>2. Tail(s) = <<>>
    BY <1>1, <2>1, EmptySeq
  <2> QED
    BY <1>1, <1>2, <2>2 DEF Last
<1>3. CASE Len(s) # 1
  <2>1. Len(s) - 1 \in 1..(Len(s) - 1) /\ Len(s) - 1 + 1 = Len(s) /\ Len(s) - 1 # 0
    <3>1. Len(s) \in Nat /\ Len(s) # 0 /\ Len(s) # 1
      BY <1>1, <1>3
    <3>2. \A n \in Nat : n # 0 /\ n # 1 => n - 1 \in 1..(n - 1) /\ n - 1 + 1 = n /\ n - 1 # 0
      OBVIOUS
    <3> QED
      BY <3>1, <3>2
  <2>2. Tail(s)[Len(Tail(s))] = s[Len(s)]
    BY <1>1, <2>1
  <2>3. Tail(s) # <<>>
    BY <1>1, <2>1, EmptySeq
  <2> QED
    BY <1>3, <2>2, <2>3 DEF Last
<1> QED
  BY <1>2, <1>3

\* Without its ith element.
Without(s, i) == SubSeq(s, 1, i - 1) \o SubSeq(s, i + 1, Len(s))
LEMMA OneOut ==
  ASSUME NEW S, NEW s \in Seq(S), NEW i \in DOMAIN s
  PROVE  LET t == Without(s, i) IN
           /\ t \in Seq(S) /\ Len(s) \in Nat /\ DOMAIN s = 1..Len(s) /\ DOMAIN t = 1..(Len(s) - 1)
           /\ \A j \in 1..(Len(s) - 1) : t[j] = IF j < i THEN s[j] ELSE s[j + 1]
<1> DEFINE n == Len(s)
           a == SubSeq(s, 1, i - 1)
           b == SubSeq(s, i + 1, n)
<1>1. n \in Nat /\ DOMAIN s = 1..n /\ i \in 1..n
  BY LenProperties
<1>2. /\ a \in Seq(S) /\ Len(a) = i - 1 /\ \A j \in 1..(i - 1) : a[j] = s[j]
      /\ b \in Seq(S) /\ Len(b) = n - i /\ \A j \in 1..(n - i) : b[j] = s[j + i]
  <2>1. \A j \in 1..n : s[j] \in S
    BY <1>1, ElementOfSeq
  <2>2. a \in Seq(S) /\ Len(a) = i - 1 /\ \A j \in 1..(i - 1) : a[j] = s[j]
    BY <1>1, <2>1
  <2>3. b \in Seq(S) /\ Len(b) = n - i /\ \A j \in 1..(n - i) : b[j] = s[j + i]
    BY <1>1, <2>1
  <2> QED
    BY <2>2, <2>3
<1> HIDE DEF a, b, n
<1>3. /\ a \o b \in Seq(S) /\ Len(a \o b) = n - 1
      /\ \A j \in 1..(n - 1) : (a \o b)[j] = IF j < i THEN a[j] ELSE b[j - (i - 1)]
  <2>1. /\ a \o b \in Seq(S) /\ Len(a \o b) = Len(a) + Len(b)
        /\ \A j \in 1..(Len(a) + Len(b)) : (a \o b)[j] = IF j <= Len(a) THEN a[j] ELSE b[j - Len(a)]
    BY <1>2, ConcatProperties
  <2>2. Len(a) + Len(b) = n - 1 /\ \A j \in 1..(n - 1) : j <= Len(a) <=> j < i
    BY <1>1, <1>2
  <2> QED
    BY <1>2, <2>1, <2>2
<1>4. \A j \in 1..(n - 1) : (a \o b)[j] = IF j < i THEN s[j] ELSE s[j + 1]
  <2> TAKE j \in 1..(n - 1)
  <2>1. CASE j < i
    BY <1>1, <1>2, <1>3, <2>1
  <2>2. CASE ~(j < i)
    <3>1. j - (i - 1) \in 1..(n - i) /\ (j - (i - 1)) + i = j + 1
      BY <1>1, <2>2
    <3> QED
      BY <1>2, <1>3, <2>2, <3>1
  <2> QED
    BY <2>1, <2>2
<1>5. DOMAIN (a \o b) = 1..(n - 1)
  BY <1>3, LenProperties
<1> QED
  BY <1>1, <1>3, <1>4, <1>5 DEF Without, a, b, n

\* A first part of it, and one element more.
LEMMA CutAndOneMore ==
  ASSUME NEW S, NEW s \in Seq(S), NEW n \in 0..Len(s), NEW e \in S
  PROVE  LET t == Append(SubSeq(s, 1, n), e) IN
           /\ t \in Seq(S) /\ Len(s) \in Nat /\ DOMAIN s = 1..Len(s) /\ DOMAIN t = 1..(n + 1)
           /\ \A i \in 1..n : t[i] = s[i]
           /\ t[n + 1] = e
<1> DEFINE a == SubSeq(s, 1, n)
<1>1. Len(s) \in Nat /\ DOMAIN s = 1..Len(s)
  BY LenProperties
<1>2. a \in Seq(S) /\ Len(a) = n /\ \A i \in 1..n : a[i] = s[i]
  <2>1. \A j \in 1..Len(s) : s[j] \in S
    BY <1>1, ElementOfSeq
  <2> QED
    BY <1>1, <2>1
<1> HIDE DEF a
<1> QED
  BY <1>1, <1>2, OneMore DEF a

--------------------------------------------------------------------------------
(* What leaves a part alone keeps it. *)

LEMMA GridKept ==
  ASSUME GridFits, UNCHANGED <<surface, reports, pane>>,
         window'.open = window.open, session'.narrow = session.narrow,
         feed'.held = feed.held, feed'.laidOut = feed.laidOut, feed'.reported = feed.reported,
         feed'.sized = feed.sized, feed'.timer = feed.timer, feed'.reporting = feed.reporting,
         feed'.crossed = feed.crossed
  PROVE  GridFits'
<1>1. Told' = Told /\ Asked' = Asked /\ Shown' = Shown
  BY DEF Told, Asked, Shown
<1>2. Unsized' <=> Unsized
  BY DEF Unsized
<1>3. SurfaceFits' <=> SurfaceFits
  BY <1>1 DEF SurfaceFits
<1>4. SizedFits' <=> SizedFits
  BY <1>1 DEF SizedFits
<1> QED
  BY <1>2, <1>3, <1>4 DEF GridFits

\* The frames of streams that are left, in their order; g says where they were.
Thins(g) ==
  /\ \A i \in DOMAIN frames' : OfStream(frames'[i]) => g[i] \in DOMAIN frames /\ frames'[i] = frames[g[i]]
  /\ \A i, j \in DOMAIN frames' : i < j => g[i] < g[j]

LEMMA FlowKept ==
  ASSUME FlowFits, NEW g, Thins(g), made' = made, Live' => Live,
         stream' = stream \/ stream' = NoStream, made \in Nat
  PROVE  FlowFits'
<1>1. \A i, j \in DOMAIN frames' : i < j => InOrder(frames'[i], frames'[j])
  BY DEF FlowFits, Thins, InOrder
<1>2. CASE stream' = stream
  BY <1>1, <1>2 DEF FlowFits, Thins
<1>3. CASE stream' = NoStream
  <2>1. stream'.term = 0 /\ stream'.queue = <<>> /\ stream'.run = 0 /\ DOMAIN stream'.queue = {}
    BY <1>3 DEF NoStream
  <2>2. \A i \in DOMAIN frames' : OfStream(frames'[i]) => frames'[i].term \in 1..made'
    BY DEF FlowFits, Thins
  <2>3. \A i \in DOMAIN frames' : OfStream(frames'[i]) => frames'[i].term # 0
    BY <2>2
  <2> QED
    BY <1>1, <2>1, <2>2, <2>3 DEF FlowFits
<1> QED
  BY <1>2, <1>3

\* No frame of a stream is new.
LEMMA OrderKept ==
  ASSUME OrderFits, NEW g, Thins(g), made' = made, Live' => Live,
         stream' = stream \/ stream' = NoStream,
         session'.input = session.input, session'.parsed = session.parsed,
         feed'.held = feed.held, feed'.backlog = feed.backlog, feed'.exit = feed.exit,
         feed'.got = feed.got
  PROVE  OrderFits'
<1>1. Passed' = Passed /\ (Over' <=> Over)
  BY DEF Passed, Over
<1>2. HeldFits' /\ PassedFits'
  BY <1>1 DEF OrderFits, HeldFits, PassedFits
<1>3. OverFits'
  <2> SUFFICES ASSUME Over' PROVE OverFits'
    BY DEF OverFits
  <2>1. /\ made' # 0 /\ \A i \in DOMAIN frames' : ~OfStream(frames'[i])
    BY <1>1 DEF OrderFits, OverFits, Thins
  <2>2. CASE stream' = stream
    BY <1>1, <2>1, <2>2 DEF OrderFits, OverFits
  <2>3. CASE stream' = NoStream
    BY <2>1, <2>3 DEF OverFits, NoStream
  <2> QED
    BY <2>2, <2>3
<1> QED
  BY <1>2, <1>3 DEF OrderFits

LEMMA OpenKept ==
  ASSUME OpenFits, NEW g, Thins(g), made' = made, leaked' = leaked,
         session'.input = session.input, session'.answers => session.answers,
         feed'.held = feed.held, feed'.opening = feed.opening, feed'.arrived = feed.arrived,
         feed'.answered = feed.answered, feed'.early = feed.early, feed'.open = feed.open
  PROVE  OpenFits'
<1>1. (\A i \in DOMAIN frames : frames[i].kind # "replay")
        => \A i \in DOMAIN frames' : frames'[i].kind # "replay"
  BY DEF Thins, OfStream
<1> QED
  BY <1>1 DEF OpenFits

LEMMA EventsCounted ==
  ASSUME events \in 0..MaxEvents, Happens
  PROVE  events' = events + 1 /\ events' \in 0..MaxEvents /\ events \in Nat
BY FeedAssumption DEF Happens

\* Where nothing is sent or received, everything is where it was.
LEMMA NothingMoves ==
  ASSUME FlowFits, UNCHANGED frames, frames \in Seq(Frames)
  PROVE  \E g : Thins(g)
<1> DEFINE g == [i \in DOMAIN frames |-> i]
<1>1. Thins(g)
  BY DEF Thins
<1> QED
  BY <1>1

--------------------------------------------------------------------------------
(* The daemon and the connection. *)

LEMMA PrintsFits ==
  ASSUME FeedInv, Prints
  PROVE  FeedInv'
<1>1. /\ UNCHANGED <<daemon, frames, appVars, termVars, pty, leaked>> /\ events' = events + 1
      /\ events' \in 0..MaxEvents /\ daemon.up /\ stream.run = daemon.run
      /\ stream'.term = stream.term /\ stream'.run = stream.run
      /\ stream'.queue = Append(stream.queue, "live") /\ stream' \in Streams
      /\ stream.queue \in Seq({"live", "exited"})
  <2>1. stream \in Streams /\ events \in 0..MaxEvents
    BY DEF FeedInv, NetTypes
  <2>2. /\ UNCHANGED <<daemon, frames, appVars, termVars, pty, leaked>>
        /\ stream' = [stream EXCEPT !.queue = Append(stream.queue, "live")]
        /\ daemon.up /\ stream.run = daemon.run
    BY DEF Prints
  <2>3. events' = events + 1 /\ events' \in 0..MaxEvents
    BY <2>1, EventsCounted DEF Prints
  <2>4. stream.queue \in Seq({"live", "exited"}) /\ Append(stream.queue, "live") \in Seq({"live", "exited"})
    BY <2>1 DEF Streams
  <2>5. /\ stream'.term = stream.term /\ stream'.run = stream.run
        /\ stream'.queue = Append(stream.queue, "live") /\ stream' \in Streams
    BY <2>1, <2>2, <2>4 DEF Streams
  <2> QED
    BY <2>2, <2>3, <2>4, <2>5
<1>2. NetTypes' /\ AppTypes' /\ TermTypes'
  BY <1>1 DEF FeedInv, NetTypes, AppTypes, TermTypes, appVars, termVars
<1>3. Live /\ Live' /\ ~Over /\ stream.term # 0
  <2>1. Live /\ Live'
    BY <1>1 DEF Live
  <2>2. daemon.run # 0
    BY DEF FeedInv, NetTypes
  <2> QED
    BY <1>1, <2>1, <2>2 DEF FeedInv, FlowFits, OrderFits, OverFits
<1>4. PtyFits'
  BY <1>1, <1>3 DEF FeedInv, PtyFits, appVars
<1>5. PICK g : Thins(g)
  BY <1>1, NothingMoves DEF FeedInv, NetTypes
<1>6. GridFits'
  BY <1>1, GridKept DEF FeedInv, appVars, termVars
<1>7. OpenFits'
  BY <1>1, <1>5, OpenKept DEF FeedInv, appVars, termVars
<1>8. FlowFits'
  <2>1. /\ DOMAIN stream'.queue = 1..(Len(stream.queue) + 1) /\ DOMAIN stream.queue = 1..Len(stream.queue)
        /\ Len(stream.queue) \in Nat /\ Len(stream'.queue) = Len(stream.queue) + 1
        /\ \A q \in 1..Len(stream.queue) : stream'.queue[q] = stream.queue[q]
        /\ stream'.queue[Len(stream.queue) + 1] = "live"
    BY <1>1, OneMore
  <2>2. \A q \in DOMAIN stream'.queue : stream'.queue[q] # "exited"
    BY <1>3, <2>1 DEF FeedInv, FlowFits
  <2> QED
    BY <1>1, <1>3, <2>2 DEF FeedInv, FlowFits, appVars
<1>9. OrderFits'
  <2>1. Passed' = Passed /\ (Over' <=> Over)
    BY <1>1 DEF Passed, Over, termVars
  <2> QED
    BY <1>1, <1>3, <2>1 DEF FeedInv, OrderFits, HeldFits, PassedFits, OverFits, termVars
<1> QED
  BY <1>2, <1>4, <1>6, <1>7, <1>8, <1>9 DEF FeedInv

LEMMA ExitsFits ==
  ASSUME FeedInv, Exits
  PROVE  FeedInv'
<1>1. /\ UNCHANGED <<frames, appVars, termVars, pty, leaked>> /\ events' = events + 1
      /\ events' \in 0..MaxEvents /\ daemon'.run = daemon.run /\ daemon'.up = FALSE
      /\ daemon' \in [run : Nat \ {0}, up : BOOLEAN, due : BOOLEAN] /\ daemon.up
      /\ stream'.term = stream.term /\ stream'.run = stream.run
      /\ stream' \in Streams /\ stream.queue \in Seq({"live", "exited"})
      /\ stream'.queue = IF Live THEN Append(stream.queue, "exited") ELSE stream.queue
  <2>1. /\ stream \in Streams /\ events \in 0..MaxEvents
        /\ daemon \in [run : Nat \ {0}, up : BOOLEAN, due : BOOLEAN]
    BY DEF FeedInv, NetTypes
  <2>2. /\ UNCHANGED <<frames, appVars, termVars, pty, leaked>> /\ daemon.up
        /\ daemon' = [daemon EXCEPT !.up = FALSE, !.due = TRUE]
        /\ stream' = IF Live THEN [stream EXCEPT !.queue = Append(stream.queue, "exited")] ELSE stream
    BY DEF Exits, Live
  <2>3. events' = events + 1 /\ events' \in 0..MaxEvents
    BY <2>1, EventsCounted DEF Exits
  <2>4. stream.queue \in Seq({"live", "exited"}) /\ Append(stream.queue, "exited") \in Seq({"live", "exited"})
    BY <2>1 DEF Streams
  <2>5. /\ stream'.term = stream.term /\ stream'.run = stream.run /\ stream' \in Streams
        /\ stream'.queue = IF Live THEN Append(stream.queue, "exited") ELSE stream.queue
    BY <2>1, <2>2, <2>4 DEF Streams
  <2>6. /\ daemon'.run = daemon.run /\ daemon'.up = FALSE
        /\ daemon' \in [run : Nat \ {0}, up : BOOLEAN, due : BOOLEAN]
    BY <2>1, <2>2
  <2> QED
    BY <2>2, <2>3, <2>4, <2>5, <2>6
<1>2. NetTypes' /\ AppTypes' /\ TermTypes'
  BY <1>1 DEF FeedInv, NetTypes, AppTypes, TermTypes, appVars, termVars
<1>3. ~Live' /\ (Live => ~Over /\ stream.term # 0)
  <2>1. ~Live'
    BY <1>1 DEF Live
  <2>2. daemon.run # 0
    BY DEF FeedInv, NetTypes
  <2> QED
    BY <1>1, <2>1, <2>2 DEF FeedInv, FlowFits, OrderFits, OverFits, Live
<1>4. PtyFits'
  BY <1>1, <1>3 DEF FeedInv, PtyFits, appVars
<1>5. PICK g : Thins(g)
  BY <1>1, NothingMoves DEF FeedInv, NetTypes
<1>6. GridFits'
  BY <1>1, GridKept DEF FeedInv, appVars, termVars
<1>7. OpenFits'
  BY <1>1, <1>5, OpenKept DEF FeedInv, appVars, termVars
<1>8. FlowFits'
  <2>1. CASE Live
    <3>1. /\ DOMAIN stream'.queue = 1..(Len(stream.queue) + 1) /\ DOMAIN stream.queue = 1..Len(stream.queue)
          /\ Len(stream.queue) \in Nat /\ Len(stream'.queue) = Len(stream.queue) + 1
          /\ \A q \in 1..Len(stream.queue) : stream'.queue[q] = stream.queue[q]
      BY <1>1, <2>1, OneMore
    <3>2. \A q \in DOMAIN stream'.queue : stream'.queue[q] = "exited" => q = Len(stream'.queue)
      BY <2>1, <3>1 DEF FeedInv, FlowFits
    <3> QED
      BY <1>1, <1>3, <2>1, <3>2 DEF FeedInv, FlowFits, appVars
  <2>2. CASE ~Live
    BY <1>1, <1>3, <2>2 DEF FeedInv, FlowFits, appVars
  <2> QED
    BY <2>1, <2>2
<1>9. OrderFits'
  <2>1. Passed' = Passed /\ (Over' <=> Over)
    BY <1>1 DEF Passed, Over, termVars
  <2>2. HeldFits' /\ PassedFits'
    BY <1>1, <2>1 DEF FeedInv, OrderFits, HeldFits, PassedFits, termVars
  <2>3. OverFits'
    BY <1>1, <1>3, <2>1 DEF FeedInv, OrderFits, OverFits, appVars
  <2> QED
    BY <2>2, <2>3 DEF OrderFits
<1> QED
  BY <1>2, <1>4, <1>6, <1>7, <1>8, <1>9 DEF FeedInv

LEMMA RestartFits ==
  ASSUME FeedInv, Restart
  PROVE  FeedInv'
<1>1. /\ UNCHANGED <<stream, frames, appVars, termVars, leaked>> /\ events' = events + 1
      /\ events' \in 0..MaxEvents /\ pty' \in Grid
      /\ daemon' \in [run : Nat \ {0}, up : BOOLEAN, due : BOOLEAN]
      /\ daemon'.run = daemon.run + 1 /\ daemon'.run <= events' + 1
      /\ stream.run <= daemon.run /\ stream.run \in Nat /\ daemon.run \in Nat
  <2>1. /\ stream \in Streams /\ events \in 0..MaxEvents /\ stream.run <= daemon.run
        /\ daemon \in [run : Nat \ {0}, up : BOOLEAN, due : BOOLEAN] /\ daemon.run <= events + 1
    BY DEF FeedInv, NetTypes, PtyFits
  <2>2. /\ UNCHANGED <<stream, frames, appVars, termVars, leaked>> /\ pty' \in Grid
        /\ daemon' = [daemon EXCEPT !.run = daemon.run + 1, !.up = TRUE, !.due = TRUE]
    BY DEF Restart
  <2>3. events' = events + 1 /\ events' \in 0..MaxEvents /\ events \in Nat
    BY <2>1, EventsCounted DEF Restart
  <2>4. daemon.run \in Nat /\ daemon.run + 1 \in Nat \ {0} /\ daemon.run + 1 <= events + 1 + 1
    BY <2>1, <2>3
  <2>5. /\ daemon' \in [run : Nat \ {0}, up : BOOLEAN, due : BOOLEAN]
        /\ daemon'.run = daemon.run + 1
    BY <2>1, <2>2, <2>4
  <2> QED
    BY <2>1, <2>2, <2>3, <2>4, <2>5 DEF Streams
<1>2. NetTypes' /\ AppTypes' /\ TermTypes'
  BY <1>1 DEF FeedInv, NetTypes, AppTypes, TermTypes, appVars, termVars
<1>3. ~Live' /\ PtyFits'
  BY <1>1 DEF Live, PtyFits
<1>4. PICK g : Thins(g)
  BY <1>1, NothingMoves DEF FeedInv, NetTypes
<1>5. GridFits'
  BY <1>1, GridKept DEF FeedInv, appVars, termVars
<1>6. FlowFits' /\ OrderFits' /\ OpenFits'
  BY <1>1, <1>3, <1>4, FlowKept, OrderKept, OpenKept DEF FeedInv, AppTypes, appVars, termVars
<1> QED
  BY <1>2, <1>3, <1>5, <1>6 DEF FeedInv

\* What is sent next, when it is no frame of a stream...
LEMMA ListAdded ==
  ASSUME NetTypes, NEW f \in Frames, ~OfStream(f), frames' = Append(frames, f)
  PROVE  frames' \in Seq(Frames) /\ \E g : Thins(g)
<1> DEFINE g == [i \in DOMAIN frames' |-> i]
           L == Len(frames)
<1>1. /\ frames' \in Seq(Frames) /\ L \in Nat /\ DOMAIN frames = 1..L /\ DOMAIN frames' = 1..(L + 1)
      /\ \A i \in 1..L : frames'[i] = frames[i]
      /\ frames'[L + 1] = f
  BY OneMore DEF NetTypes
<1>2. \A i \in DOMAIN frames' : i \in DOMAIN frames \/ i = L + 1
  BY <1>1
<1>3. Thins(g)
  BY <1>1, <1>2 DEF Thins
<1> QED
  BY <1>1, <1>3

\* ... what is left when the first frame is taken...
LEMMA FirstTaken ==
  ASSUME NetTypes, frames # <<>>, frames' = Tail(frames)
  PROVE  frames' \in Seq(Frames) /\ \E g : Thins(g)
<1> DEFINE g == [i \in DOMAIN frames' |-> i + 1]
           L == Len(frames)
<1>1. /\ frames' \in Seq(Frames) /\ L \in Nat \ {0} /\ DOMAIN frames = 1..L
      /\ DOMAIN frames' = 1..(L - 1) /\ \A i \in 1..(L - 1) : frames'[i] = frames[i + 1]
  BY OneLess DEF NetTypes
<1>2. \A i \in 1..(L - 1) : i + 1 \in 1..L /\ i \in Nat
  BY <1>1
<1>3. \A i, j \in 1..(L - 1) : i < j => i + 1 < j + 1
  BY <1>1
<1>4. Thins(g)
  BY <1>1, <1>2, <1>3 DEF Thins
<1> QED
  BY <1>1, <1>4

\* ... and answered with a list...
LEMMA FirstAnswered ==
  ASSUME NetTypes, frames # <<>>, NEW f \in Frames, ~OfStream(f), frames' = Append(Tail(frames), f)
  PROVE  frames' \in Seq(Frames) /\ \E g : Thins(g)
<1> DEFINE g == [i \in DOMAIN frames' |-> i + 1]
           L == Len(frames)
<1>1. /\ Tail(frames) \in Seq(Frames) /\ L \in Nat \ {0} /\ DOMAIN frames = 1..L
      /\ Len(Tail(frames)) = L - 1 /\ \A i \in 1..(L - 1) : Tail(frames)[i] = frames[i + 1]
  BY OneLess DEF NetTypes
<1>2. /\ frames' \in Seq(Frames) /\ DOMAIN frames' = 1..(L - 1 + 1)
      /\ \A i \in 1..(L - 1) : frames'[i] = Tail(frames)[i]
      /\ frames'[L - 1 + 1] = f
  BY <1>1, OneMore
<1>3. L - 1 + 1 = L /\ \A i \in 1..L : i = L \/ i \in 1..(L - 1)
  <2>1. L \in Nat \ {0}
    BY <1>1
  <2> HIDE DEF L
  <2> QED
    BY <2>1
<1>4. \A i \in 1..(L - 1) : i + 1 \in 1..L
  BY <1>1
<1>5. \A i, j \in 1..L : i < j => i + 1 < j + 1
  BY <1>1
<1>6. Thins(g)
  BY <1>1, <1>2, <1>3, <1>4, <1>5 DEF Thins
<1> QED
  BY <1>2, <1>6

\* ... when a chunk is taken from behind others...
LEMMA OutputTaken ==
  ASSUME NetTypes, NEW k \in DOMAIN frames, frames' = Without(frames, k)
  PROVE  frames' \in Seq(Frames) /\ \E g : Thins(g)
<1> DEFINE g == [j \in DOMAIN frames' |-> IF j < k THEN j ELSE j + 1]
           L == Len(frames)
<1>1. /\ frames' \in Seq(Frames) /\ L \in Nat /\ DOMAIN frames = 1..L /\ DOMAIN frames' = 1..(L - 1)
      /\ \A j \in 1..(L - 1) : frames'[j] = IF j < k THEN frames[j] ELSE frames[j + 1]
  BY OneOut DEF NetTypes
<1>2. \A j \in 1..(L - 1) : j \in 1..L /\ j + 1 \in 1..L
  BY <1>1
<1>3. \A i, j \in 1..(L - 1) : i < j =>
        (IF i < k THEN i ELSE i + 1) < (IF j < k THEN j ELSE j + 1)
  BY <1>1
<1>4. Thins(g)
  BY <1>1, <1>2, <1>3 DEF Thins
<1> QED
  BY <1>1, <1>4

\* ... and when the rest is lost.
LEMMA RestLost ==
  ASSUME NetTypes, NEW n \in 0..Len(frames), NEW f \in Frames, ~OfStream(f),
         frames' = Append(SubSeq(frames, 1, n), f)
  PROVE  frames' \in Seq(Frames) /\ \E g : Thins(g)
<1> DEFINE g == [i \in DOMAIN frames' |-> i]
<1>1. /\ frames' \in Seq(Frames) /\ Len(frames) \in Nat /\ DOMAIN frames = 1..Len(frames)
      /\ DOMAIN frames' = 1..(n + 1)
      /\ \A i \in 1..n : frames'[i] = frames[i]
      /\ frames'[n + 1] = f
  BY CutAndOneMore DEF NetTypes
<1>2. \A i \in 1..(n + 1) : i = n + 1 \/ (i \in 1..n /\ i \in 1..Len(frames))
  BY <1>1
<1>3. Thins(g)
  BY <1>1, <1>2 DEF Thins
<1> QED
  BY <1>1, <1>3

LEMMA ForwardFits ==
  ASSUME FeedInv, Forward
  PROVE  FeedInv'
<1> DEFINE q == stream.queue
           f == Frame(Head(q), stream.term)
           L == Len(frames)
<1>1. /\ UNCHANGED <<daemon, appVars, termVars, pty, leaked, events>> /\ q # <<>>
      /\ frames' = Append(frames, f) /\ stream' = [stream EXCEPT !.queue = Tail(q)]
      /\ frames \in Seq(Frames) /\ stream \in Streams /\ q \in Seq({"live", "exited"})
  BY DEF FeedInv, NetTypes, Streams, Forward
<1>2. /\ Len(q) \in Nat \ {0} /\ DOMAIN q = 1..Len(q) /\ Head(q) = q[1] /\ Head(q) \in {"live", "exited"}
      /\ Tail(q) \in Seq({"live", "exited"}) /\ Len(Tail(q)) = Len(q) - 1 /\ DOMAIN Tail(q) = 1..(Len(q) - 1)
      /\ \A i \in 1..(Len(q) - 1) : Tail(q)[i] = q[i + 1]
  BY <1>1, OneLess
<1>3. /\ stream' \in Streams /\ stream'.term = stream.term /\ stream'.run = stream.run
      /\ stream'.queue = Tail(q) /\ stream.term \in Nat
  BY <1>1, <1>2 DEF Streams
<1>4. f \in Frames /\ f.kind = Head(q) /\ f.term = stream.term /\ OfStream(f) /\ f.kind # "replay"
  BY <1>2, <1>3 DEF Frame, Frames, OfStream
<1>5. /\ frames' \in Seq(Frames) /\ L \in Nat /\ DOMAIN frames = 1..L /\ DOMAIN frames' = 1..(L + 1)
      /\ \A i \in 1..L : frames'[i] = frames[i]
      /\ frames'[L + 1] = f
  BY <1>1, <1>4, OneMore
<1> HIDE DEF f, q, L
<1>6. NetTypes' /\ AppTypes' /\ TermTypes'
  BY <1>1, <1>3, <1>5 DEF FeedInv, NetTypes, AppTypes, TermTypes, appVars, termVars
<1>7. /\ stream.term # 0 /\ stream.term <= made /\ made \in Nat /\ stream.term \in 1..made
      /\ Live' <=> Live
  <2>1. stream.term # 0 /\ stream.term <= made /\ made \in Nat
    BY <1>1 DEF FeedInv, FlowFits, AppTypes, q
  <2> QED
    BY <1>1, <1>3, <2>1 DEF Live
<1>8. GridFits' /\ PtyFits'
  <2>1. GridFits'
    BY <1>1, GridKept DEF FeedInv, appVars, termVars
  <2>2. PtyFits'
    BY <1>1, <1>3, <1>7 DEF FeedInv, PtyFits, appVars
  <2> QED
    BY <2>1, <2>2
<1>9. \A i \in 1..L : OfStream(frames[i]) => /\ frames[i].term \in 1..made /\ frames[i].term <= stream.term
                                             /\ frames[i].kind = "exited" => frames[i].term # stream.term
  BY <1>1, <1>5, <1>7 DEF FeedInv, FlowFits, q
<1>10. FlowFits'
  <2>1. \A i \in DOMAIN Tail(q) : Tail(q)[i] = "exited" => i = Len(Tail(q)) /\ ~Live
    <3>1. \A i \in DOMAIN q : q[i] = "exited" => i = Len(q) /\ ~Live
      BY DEF FeedInv, FlowFits, q
    <3>2. \A i \in 1..(Len(q) - 1) : i + 1 \in 1..Len(q) /\ (i + 1 = Len(q) => i = Len(q) - 1)
      <4>1. Len(q) \in Nat
        BY <1>2
      <4> QED
        BY <4>1
    <3>3. \A i \in DOMAIN Tail(q) : Tail(q)[i] = q[i + 1] /\ i + 1 \in DOMAIN q /\ (i + 1 = Len(q) => i = Len(Tail(q)))
      BY <1>2, <3>2
    <3> QED
      BY <3>1, <3>3
  <2>2. f.kind = "exited" => Tail(q) = <<>> /\ ~Live
    <3>1. f.kind = "exited" => 1 = Len(q) /\ ~Live
      <4>1. 1 \in DOMAIN q
        BY <1>2
      <4> QED
        BY <1>2, <1>4, <4>1 DEF FeedInv, FlowFits, q
    <3>2. 1 = Len(q) => Len(Tail(q)) = 0
      <4>1. Len(Tail(q)) = Len(q) - 1
        BY <1>2
      <4> QED
        BY <4>1
    <3>3. Len(Tail(q)) = 0 => Tail(q) = <<>>
      BY <1>2, EmptySeq
    <3> QED
      BY <3>1, <3>2, <3>3
  <2>3. \A i \in 1..(L + 1) : i \in 1..L \/ i = L + 1
    BY <1>5
  <2>4. \A i \in DOMAIN frames' : OfStream(frames'[i]) =>
          /\ frames'[i].term \in 1..made'
          /\ stream'.term # 0 => frames'[i].term <= stream'.term
          /\ frames'[i].kind = "exited" /\ frames'[i].term = stream'.term => stream'.queue = <<>> /\ ~Live'
    BY <1>1, <1>3, <1>4, <1>5, <1>7, <1>9, <2>2, <2>3 DEF appVars
  <2>5. \A i, j \in DOMAIN frames' : i < j => InOrder(frames'[i], frames'[j])
    <3> SUFFICES ASSUME NEW i \in 1..(L + 1), NEW j \in 1..(L + 1), i < j
                 PROVE  InOrder(frames'[i], frames'[j])
      BY <1>5
    <3>1. i \in 1..L
      BY <1>5
    <3>2. CASE j \in 1..L
      BY <1>5, <3>1, <3>2 DEF FeedInv, FlowFits
    <3>3. CASE j = L + 1
      <4>1. frames'[i] = frames[i] /\ frames'[j] = f
        BY <1>5, <3>1, <3>3
      <4>2. OfStream(frames[i]) => /\ frames[i].term \in Nat /\ frames[i].term <= stream.term
                                   /\ frames[i].kind = "exited" => frames[i].term # stream.term
        BY <1>9, <3>1
      <4> QED
        BY <1>3, <1>4, <4>1, <4>2 DEF InOrder
    <3> QED
      BY <2>3, <3>2, <3>3
  <2>6. stream'.term <= made' /\ stream'.term # 0
    BY <1>1, <1>3, <1>7 DEF appVars
  <2> QED
    BY <1>3, <1>7, <2>1, <2>4, <2>5, <2>6 DEF FlowFits
<1>11. OrderFits'
  <2>1. Passed' = Passed /\ (Over' <=> Over)
    BY <1>1 DEF Passed, Over, termVars
  <2>2. ~Over
    BY <1>1, <1>7 DEF FeedInv, OrderFits, OverFits, q
  <2> QED
    BY <1>1, <2>1, <2>2 DEF FeedInv, OrderFits, HeldFits, PassedFits, OverFits, termVars
<1>12. OpenFits'
  <2>1. (\A i \in DOMAIN frames : frames[i].kind # "replay") => \A i \in DOMAIN frames' : frames'[i].kind # "replay"
    <3>1. \A i \in 1..(L + 1) : i \in 1..L \/ i = L + 1
      BY <1>5
    <3> QED
      BY <1>4, <1>5, <3>1
  <2> QED
    BY <1>1, <2>1 DEF FeedInv, OpenFits, appVars, termVars
<1> QED
  BY <1>6, <1>8, <1>10, <1>11, <1>12 DEF FeedInv

LEMMA ListIsNone == List \in Frames /\ ~OfStream(List)
BY DEF List, Frame, Frames, OfStream

\* Tell, and connected.
LEMMA TellFits ==
  ASSUME FeedInv, Tell
  PROVE  FeedInv'
<1>1. /\ UNCHANGED <<stream, appVars, termVars, pty, leaked, events>>
      /\ daemon' = [daemon EXCEPT !.due = FALSE] /\ frames' = Append(frames, List)
      /\ daemon \in [run : Nat \ {0}, up : BOOLEAN, due : BOOLEAN]
  BY DEF FeedInv, NetTypes, Tell
<1>2. /\ daemon' \in [run : Nat \ {0}, up : BOOLEAN, due : BOOLEAN]
      /\ daemon'.run = daemon.run /\ daemon'.up = daemon.up
  BY <1>1
<1>3. frames' \in Seq(Frames)
  BY <1>1, ListIsNone, ListAdded DEF FeedInv
<1>4. PICK g : Thins(g)
  BY <1>1, ListIsNone, ListAdded DEF FeedInv
<1>5. NetTypes' /\ AppTypes' /\ TermTypes'
  BY <1>1, <1>2, <1>3 DEF FeedInv, NetTypes, AppTypes, TermTypes, appVars, termVars
<1>6. Live' <=> Live
  BY <1>1, <1>2 DEF Live
<1>7. GridFits'
  BY <1>1, GridKept DEF FeedInv, appVars, termVars
<1>8. PtyFits'
  BY <1>1, <1>2, <1>6 DEF FeedInv, PtyFits, appVars
<1>9. FlowFits' /\ OrderFits' /\ OpenFits'
  BY <1>1, <1>4, <1>6, FlowKept, OrderKept, OpenKept DEF FeedInv, AppTypes, appVars, termVars
<1> QED
  BY <1>5, <1>7, <1>8, <1>9 DEF FeedInv

LEMMA ReconnectsFits ==
  ASSUME FeedInv, Reconnects, events' \in 0..MaxEvents, events <= events',
         window' \in [open : BOOLEAN, redial : BOOLEAN], window'.open = window.open
  PROVE  FeedInv'
<1>1. PICK n \in 0..Len(frames) : frames' = Append(SubSeq(frames, 1, n), Frame("up", 0))
  BY DEF Reconnects
<1>2. Frame("up", 0) \in Frames /\ ~OfStream(Frame("up", 0))
  BY DEF Frame, Frames, OfStream
<1>3. frames' \in Seq(Frames)
  BY <1>1, <1>2, RestLost DEF FeedInv
<1>4. PICK g : Thins(g)
  BY <1>1, <1>2, RestLost DEF FeedInv
<1>5. /\ UNCHANGED <<reports, known, attached, pane, made, termVars, pty, leaked>>
      /\ stream' = NoStream /\ daemon' = [daemon EXCEPT !.due = FALSE]
      /\ daemon \in [run : Nat \ {0}, up : BOOLEAN, due : BOOLEAN]
  BY DEF FeedInv, NetTypes, Reconnects
<1>6. /\ daemon' \in [run : Nat \ {0}, up : BOOLEAN, due : BOOLEAN]
      /\ daemon'.run = daemon.run /\ daemon'.up = daemon.up /\ daemon.run \in Nat \ {0}
      /\ stream' \in Streams /\ stream'.run = 0
  <2>1. NoStream \in Streams /\ NoStream.run = 0
    BY DEF NoStream, Streams
  <2> QED
    BY <1>5, <2>1
<1>7. daemon.run <= events' + 1
  BY <1>6 DEF FeedInv, NetTypes
<1>8. NetTypes' /\ AppTypes' /\ TermTypes'
  BY <1>3, <1>5, <1>6, <1>7 DEF FeedInv, NetTypes, AppTypes, TermTypes, termVars
<1>9. ~Live' /\ PtyFits'
  BY <1>6 DEF Live, PtyFits
<1>10. GridFits'
  BY <1>5, GridKept DEF FeedInv, termVars
<1>11. FlowFits' /\ OrderFits' /\ OpenFits'
  BY <1>4, <1>5, <1>9, FlowKept, OrderKept, OpenKept DEF FeedInv, AppTypes, termVars
<1> QED
  BY <1>8, <1>9, <1>10, <1>11 DEF FeedInv

LEMMA DropFits ==
  ASSUME FeedInv, Drop
  PROVE  FeedInv'
<1>1. events \in 0..MaxEvents /\ window \in [open : BOOLEAN, redial : BOOLEAN] /\ window' = window
  BY DEF FeedInv, NetTypes, AppTypes, Drop
<1>2. events' \in 0..MaxEvents /\ events <= events'
  BY <1>1, EventsCounted DEF Drop
<1> QED
  BY <1>1, <1>2, ReconnectsFits DEF Drop

LEMMA RedialFits ==
  ASSUME FeedInv, Redial
  PROVE  FeedInv'
<1>1. /\ events' = events /\ events \in 0..MaxEvents
      /\ window \in [open : BOOLEAN, redial : BOOLEAN] /\ window' = [window EXCEPT !.redial = FALSE]
  BY DEF FeedInv, NetTypes, AppTypes, Redial
<1>2. window' \in [open : BOOLEAN, redial : BOOLEAN] /\ window'.open = window.open
  BY <1>1
<1>3. events' \in 0..MaxEvents /\ events <= events'
  BY <1>1, FeedAssumption
<1> QED
  BY <1>2, <1>3, ReconnectsFits DEF Redial

--------------------------------------------------------------------------------
(* The main actor. *)

LEMMA OnUpFits ==
  ASSUME FeedInv, OnFrame, OnUp
  PROVE  FeedInv'
<1>1. /\ frames # <<>> /\ frames' = Append(Tail(frames), List) /\ attached' = FALSE
      /\ UNCHANGED <<daemon, stream, events, reports, known, window, pane, made, termVars, pty, leaked>>
  BY DEF OnFrame, OnUp, Sends, termVars
<1>2. frames' \in Seq(Frames)
  BY <1>1, ListIsNone, FirstAnswered DEF FeedInv
<1>3. PICK g : Thins(g)
  BY <1>1, ListIsNone, FirstAnswered DEF FeedInv
<1>4. NetTypes' /\ AppTypes' /\ TermTypes'
  BY <1>1, <1>2 DEF FeedInv, NetTypes, AppTypes, TermTypes, termVars
<1>5. Live' <=> Live
  BY <1>1 DEF Live
<1>6. GridFits'
  BY <1>1, GridKept DEF FeedInv, termVars
<1>7. PtyFits'
  BY <1>1, <1>5 DEF FeedInv, PtyFits
<1>8. FlowFits' /\ OrderFits' /\ OpenFits'
  BY <1>1, <1>3, <1>5, FlowKept, OrderKept, OpenKept DEF FeedInv, AppTypes, termVars
<1> QED
  BY <1>4, <1>6, <1>7, <1>8 DEF FeedInv

\* makeTerminal: a terminal that starts over has received nothing and told nothing.
LEMMA NewTerminalFits ==
  ASSUME FeedInv, MakeTerminal, leaked' = leaked
  PROVE  /\ made' = made + 1 /\ TermTypes' /\ GridFits' /\ OrderFits' /\ OpenFits'
<1>1. made' = made + 1 /\ feed' = NewFeed /\ session' = NewSession /\ surface' \in {NewSurface, None}
      /\ (~window'.open => surface' = None)
  BY DEF MakeTerminal
<1>2. /\ NewFeed \in Feeds /\ NewSession \in Sessions /\ NewSurface \in Surfaces
  BY DEF NewFeed, Feeds, NewSession, Sessions, NewSurface, Surfaces, Wide
<1>3. GridFits'
  <2>1. /\ feed'.held /\ feed'.laidOut = None /\ feed'.reported = None /\ ~feed'.sized
        /\ feed'.timer = "off" /\ feed'.reporting = None /\ ~session'.narrow
    BY <1>1 DEF NewFeed, NewSession
  <2>2. CASE surface' = None
    BY <1>1, <2>1, <2>2 DEF GridFits, Unsized
  <2>3. CASE surface' = NewSurface
    <3>1. /\ surface'.resizes = <<Default>> /\ surface'.resizing = None /\ surface'.laid = FALSE
      BY <2>3 DEF NewSurface
    <3>2. \A i \in DOMAIN surface'.resizes : i = 1
      BY <3>1
    <3>3. SurfaceFits' /\ SizedFits' /\ Unsized'
      BY <2>1, <3>1, <3>2, FeedAssumption DEF SurfaceFits, SizedFits, Unsized
    <3> QED
      BY <1>1, <1>2, <2>1, <2>3, <3>3 DEF GridFits
  <2> QED
    BY <1>1, <2>2, <2>3
<1>4. OrderFits'
  <2>1. /\ feed'.held /\ feed'.backlog = <<>> /\ feed'.exit = None /\ feed'.got = 0
        /\ session'.input = <<>> /\ session'.parsed = <<>>
    BY <1>1 DEF NewFeed, NewSession
  <2>2. ~Over'
    BY <2>1 DEF Over, Passed
  <2>3. HeldFits'
    BY <2>1, FeedAssumption DEF HeldFits, Newest
  <2> QED
    BY <2>1, <2>2, <2>3 DEF OrderFits, PassedFits, OverFits
<1>5. OpenFits'
  <2>1. /\ feed'.opening = "no" /\ feed'.held /\ ~feed'.answered /\ ~feed'.open /\ ~feed'.arrived
    BY <1>1 DEF NewFeed
  <2>2. leaked' = FALSE
    BY DEF FeedInv, OpenFits
  <2> QED
    BY <2>1, <2>2 DEF OpenFits
<1> QED
  BY <1>1, <1>2, <1>3, <1>4, <1>5 DEF TermTypes

LEMMA WindowClosedFits ==
  ASSUME FeedInv, WindowClosed
  PROVE  FeedInv'
<1>1. /\ MakeTerminal /\ UNCHANGED <<netVars, reports, known, attached, pane, pty, leaked>>
      /\ window' = [window EXCEPT !.open = FALSE] /\ window \in [open : BOOLEAN, redial : BOOLEAN]
      /\ events \in 0..MaxEvents
  BY DEF FeedInv, NetTypes, AppTypes, WindowClosed
<1>2. events' = events + 1 /\ events' \in 0..MaxEvents /\ events \in Nat
  BY <1>1, EventsCounted DEF WindowClosed
<1>3. made' = made + 1 /\ TermTypes' /\ GridFits' /\ OrderFits' /\ OpenFits'
  BY <1>1, NewTerminalFits
<1>4. made \in Nat /\ made' \in Nat /\ made < made'
  BY <1>3 DEF FeedInv, AppTypes
<1>5. window' \in [open : BOOLEAN, redial : BOOLEAN]
  BY <1>1
<1>6. daemon'.run <= events' + 1
  BY <1>1, <1>2 DEF FeedInv, NetTypes, netVars
<1>7. NetTypes' /\ AppTypes'
  BY <1>1, <1>2, <1>4, <1>5, <1>6 DEF FeedInv, NetTypes, AppTypes, netVars
<1>8. Live' <=> Live
  BY <1>1 DEF Live, netVars
<1>9. PtyFits'
  BY <1>1, <1>8 DEF FeedInv, PtyFits, netVars
<1>10. FlowFits'
  <2>1. stream.term \in Nat
    BY DEF FeedInv, NetTypes, Streams
  <2>2. stream'.term <= made'
    BY <1>1, <1>4, <2>1 DEF FeedInv, FlowFits, netVars
  <2>3. \A n \in 1..made : n \in 1..made'
    BY <1>4
  <2> QED
    BY <1>1, <1>8, <2>2, <2>3 DEF FeedInv, FlowFits, netVars
<1> QED
  BY <1>3, <1>7, <1>9, <1>10 DEF FeedInv

LEMMA OnListFits ==
  ASSUME FeedInv, OnFrame, OnList
  PROVE  FeedInv'
<1>1. /\ frames # <<>> /\ known' \in {"Running", "Stopped"}
      /\ UNCHANGED <<daemon, reports, window, pane, leaked, events>>
  BY DEF OnFrame, OnList
<1>2. CASE frames' = Tail(frames) /\ UNCHANGED <<stream, pty, attached, made, feed, session, surface>>
  <2>1. frames' \in Seq(Frames)
    BY <1>1, <1>2, FirstTaken DEF FeedInv
  <2>2. PICK g : Thins(g)
    BY <1>1, <1>2, FirstTaken DEF FeedInv
  <2>3. NetTypes' /\ AppTypes' /\ TermTypes'
    BY <1>1, <1>2, <2>1 DEF FeedInv, NetTypes, AppTypes, TermTypes
  <2>4. Live' <=> Live
    BY <1>1, <1>2 DEF Live
  <2>5. GridFits'
    BY <1>1, <1>2, GridKept DEF FeedInv
  <2>6. PtyFits'
    BY <1>1, <1>2, <2>4 DEF FeedInv, PtyFits
  <2>7. FlowFits' /\ OrderFits' /\ OpenFits'
    BY <1>1, <1>2, <2>2, <2>4, FlowKept, OrderKept, OpenKept DEF FeedInv, AppTypes
  <2> QED
    BY <2>3, <2>5, <2>6, <2>7 DEF FeedInv
<1>3. CASE /\ attached' = TRUE /\ MakeTerminal
           /\ Sends([kind |-> "attach", term |-> made + 1, grid |-> pane], Tail(frames))
  <2> DEFINE f == Frame("replay", made + 1)
             L == Len(frames)
  <2>1. /\ frames' = Append(Tail(frames), f) /\ pty' = IF daemon.up THEN pane ELSE pty
        /\ stream' = [term |-> made + 1, run |-> IF daemon.up THEN daemon.run ELSE 0, queue |-> <<>>]
    BY <1>3 DEF Sends
  <2>2. made' = made + 1 /\ TermTypes' /\ GridFits' /\ OrderFits' /\ OpenFits'
    BY <1>1, <1>3, NewTerminalFits
  <2>3. /\ made \in Nat /\ made' \in Nat \ {0} /\ made < made'
        /\ daemon.run \in Nat \ {0} /\ pane \in Grid /\ pty \in Grid
    BY <2>2 DEF FeedInv, NetTypes, AppTypes
  <2>4. /\ stream' \in Streams /\ stream'.term = made' /\ stream'.queue = <<>>
        /\ stream'.run = IF daemon.up THEN daemon.run ELSE 0
    BY <2>1, <2>2, <2>3 DEF Streams
  <2>5. f \in Frames /\ f.kind = "replay" /\ f.term = made'
    BY <2>2, <2>3 DEF Frame, Frames
  <2>6. /\ Tail(frames) \in Seq(Frames) /\ L \in Nat \ {0} /\ DOMAIN frames = 1..L
        /\ Len(Tail(frames)) = L - 1 /\ \A i \in 1..(L - 1) : Tail(frames)[i] = frames[i + 1]
    BY <1>1, OneLess DEF FeedInv, NetTypes
  <2> HIDE DEF f, L
  <2>7. /\ frames' \in Seq(Frames) /\ DOMAIN frames' = 1..(L - 1 + 1)
        /\ \A i \in 1..(L - 1) : frames'[i] = Tail(frames)[i]
        /\ frames'[L - 1 + 1] = f
    BY <2>1, <2>5, <2>6, OneMore
  <2>8. L - 1 + 1 = L /\ (\A i \in 1..L : i = L \/ i \in 1..(L - 1)) /\ \A i \in 1..(L - 1) : i + 1 \in 1..L
    <3>1. L \in Nat \ {0}
      BY <2>6
    <3> QED
      BY <3>1
  <2>9. \A i \in 1..(L - 1) : frames'[i] = frames[i + 1] /\ i + 1 \in DOMAIN frames
    BY <2>6, <2>7, <2>8
  <2>10. DOMAIN frames' = 1..L /\ frames'[L] = f
    BY <2>7, <2>8
  <2>11. NetTypes' /\ AppTypes'
    BY <1>1, <1>3, <2>1, <2>3, <2>4, <2>7 DEF FeedInv, NetTypes, AppTypes
  <2>12. PtyFits'
    <3>1. stream'.run <= daemon'.run
      BY <1>1, <2>3, <2>4
    <3> QED
      BY <1>1, <2>1, <2>3, <2>4, <3>1 DEF PtyFits, Live
  <2>13. FlowFits'
    <3>1. \A i \in 1..(L - 1) : OfStream(frames'[i]) => frames'[i].term \in Nat /\ 1 <= frames'[i].term /\ frames'[i].term < made'
      <4>1. \A i \in 1..(L - 1) : OfStream(frames[i + 1]) => frames[i + 1].term \in 1..made
        BY <2>9 DEF FeedInv, FlowFits
      <4> QED
        BY <2>3, <2>9, <4>1
    <3>2. \A i \in DOMAIN frames' : OfStream(frames'[i]) =>
            /\ frames'[i].term \in 1..made'
            /\ stream'.term # 0 => frames'[i].term <= stream'.term
            /\ frames'[i].kind = "exited" => frames'[i].term # stream'.term
      <4> TAKE i \in DOMAIN frames'
      <4>1. CASE i = L
        BY <2>3, <2>4, <2>5, <2>10, <4>1
      <4>2. CASE i \in 1..(L - 1)
        BY <2>3, <2>4, <3>1, <4>2
      <4> QED
        BY <2>8, <2>10, <4>1, <4>2
    <3>3. \A i, j \in DOMAIN frames' : i < j => InOrder(frames'[i], frames'[j])
      <4> SUFFICES ASSUME NEW i \in 1..L, NEW j \in 1..L, i < j
                   PROVE  InOrder(frames'[i], frames'[j])
        BY <2>10
      <4>1. i \in 1..(L - 1)
        BY <2>8
      <4>2. CASE j = L
        <5>1. OfStream(frames'[i]) => frames'[i].term < frames'[j].term /\ frames'[i].term <= frames'[j].term
          BY <2>3, <2>5, <2>10, <3>1, <4>1, <4>2
        <5> QED
          BY <5>1 DEF InOrder
      <4>3. CASE j \in 1..(L - 1)
        <5>1. i + 1 < j + 1
          OBVIOUS
        <5> QED
          BY <2>9, <4>1, <4>3, <5>1 DEF FeedInv, FlowFits
      <4> QED
        BY <2>8, <4>2, <4>3
    <3>4. DOMAIN stream'.queue = {} /\ stream'.term # 0 /\ stream'.term <= made'
      BY <2>3, <2>4
    <3> QED
      BY <3>2, <3>3, <3>4 DEF FlowFits
  <2> QED
    BY <2>2, <2>11, <2>12, <2>13 DEF FeedInv
<1> QED
  BY <1>2, <1>3 DEF OnList, SendsNone

\* Where neither the daemon, nor what it sends, nor the PTY is concerned, the streams are
\* as they were.
LEMMA StreamsKept ==
  ASSUME FeedInv, UNCHANGED <<netVars, made>>
  PROVE  /\ Live' <=> Live
         /\ FlowFits'
         /\ UNCHANGED <<pane, pty>> => PtyFits'
         /\ \E g : Thins(g)
<1>1. Live' <=> Live
  BY DEF Live, netVars
<1>2. UNCHANGED <<pane, pty>> => PtyFits'
  BY <1>1 DEF FeedInv, PtyFits, netVars
<1>3. \E g : Thins(g)
  BY NothingMoves DEF FeedInv, NetTypes, netVars
<1>4. FlowFits'
  BY <1>1, <1>3, FlowKept DEF FeedInv, AppTypes, netVars
<1> QED
  BY <1>1, <1>2, <1>3, <1>4

LEMMA OnGridFits ==
  ASSUME FeedInv, OnGrid
  PROVE  FeedInv'
<1>1. /\ UNCHANGED <<netVars, known, attached, window, made, termVars, leaked, events>>
      /\ Ready /\ reports # <<>> /\ reports' = Tail(reports) /\ pane' = Head(reports)
      /\ pty' = (IF daemon.up THEN Head(reports) ELSE pty)
      /\ reports \in Seq(Grid) /\ pty \in Grid
  BY DEF OnGrid, FeedInv, AppTypes
<1>2. /\ Len(reports) \in Nat \ {0} /\ Head(reports) = reports[1] /\ Head(reports) \in Grid
      /\ reports' \in Seq(Grid) /\ Len(reports') = Len(reports) - 1
      /\ \A i \in 1..(Len(reports) - 1) : reports'[i] = reports[i + 1]
  BY <1>1, OneLess
<1>3. NetTypes' /\ AppTypes' /\ TermTypes'
  BY <1>1, <1>2 DEF FeedInv, NetTypes, AppTypes, TermTypes, netVars, termVars
<1>4. PICK g : Thins(g)
  BY <1>1, StreamsKept
<1>5. (Live' <=> Live) /\ FlowFits'
  BY <1>1, StreamsKept
<1>6. PtyFits'
  BY <1>1, <1>5 DEF FeedInv, PtyFits, Live, netVars
<1>7. OrderFits' /\ OpenFits'
  BY <1>1, <1>4, <1>5, OrderKept, OpenKept DEF FeedInv, netVars, termVars
<1>8. Told' = Told
  <2>1. feed'.reporting = None /\ feed.reporting = None
    BY <1>1 DEF Ready, termVars
  <2>2. CASE Len(reports) = 1
    <3>1. reports' = <<>> /\ Last(reports) = pane'
      BY <1>1, <2>2, LastOfTail
    <3> QED
      BY <1>1, <2>1, <3>1 DEF Told
  <2>3. CASE Len(reports) # 1
    <3>1. reports' # <<>> /\ Last(reports') = Last(reports)
      BY <1>1, <2>3, LastOfTail
    <3> QED
      BY <1>1, <2>1, <3>1 DEF Told
  <2> QED
    BY <2>2, <2>3
<1>9. GridFits'
  <2>1. SurfaceFits' <=> SurfaceFits
    BY <1>1 DEF SurfaceFits, Asked, Shown, termVars
  <2>2. SizedFits' <=> SizedFits
    BY <1>1, <1>8 DEF SizedFits, termVars
  <2>3. Unsized' <=> Unsized
    BY <1>1 DEF Unsized, termVars
  <2> QED
    BY <1>1, <2>1, <2>2, <2>3 DEF FeedInv, GridFits, termVars
<1> QED
  BY <1>3, <1>5, <1>6, <1>7, <1>9 DEF FeedInv

LEMMA ReportFits ==
  ASSUME FeedInv, Report
  PROVE  FeedInv'
<1>1. /\ UNCHANGED <<netVars, known, attached, window, pane, made, session, surface, pty, leaked, events>>
      /\ ~Ready /\ reports' = Append(reports, feed.reporting)
      /\ feed' = [feed EXCEPT !.reporting = None]
      /\ feed \in Feeds /\ reports \in Seq(Grid)
  BY DEF Report, FeedInv, AppTypes, TermTypes
<1>2. feed.reporting \in Grid /\ feed.reporting # None
  BY <1>1 DEF Ready, Feeds
<1>3. reports' \in Seq(Grid) /\ reports' # <<>> /\ Last(reports') = feed.reporting
  BY <1>1, <1>2, OneMore DEF Last
<1>4. /\ feed' \in Feeds /\ feed'.reporting = None
      /\ feed'.backlog = feed.backlog /\ feed'.held = feed.held /\ feed'.exit = feed.exit
      /\ feed'.laidOut = feed.laidOut /\ feed'.reported = feed.reported /\ feed'.sized = feed.sized
      /\ feed'.arrived = feed.arrived /\ feed'.open = feed.open /\ feed'.timer = feed.timer
      /\ feed'.opening = feed.opening /\ feed'.crossed = feed.crossed
      /\ feed'.answered = feed.answered /\ feed'.early = feed.early /\ feed'.got = feed.got
  BY <1>1 DEF Feeds
<1>5. NetTypes' /\ AppTypes' /\ TermTypes'
  BY <1>1, <1>3, <1>4 DEF FeedInv, NetTypes, AppTypes, TermTypes, netVars
<1>6. PICK g : Thins(g)
  BY <1>1, StreamsKept
<1>7. (Live' <=> Live) /\ FlowFits' /\ PtyFits'
  BY <1>1, StreamsKept
<1>8. OrderFits' /\ OpenFits'
  BY <1>1, <1>4, <1>6, <1>7, OrderKept, OpenKept DEF FeedInv, netVars
<1>9. GridFits'
  <2>1. Told' = Told
    BY <1>2, <1>3, <1>4 DEF Told
  <2>2. SurfaceFits' <=> SurfaceFits
    BY <1>1, <1>4 DEF SurfaceFits, Asked, Shown
  <2>3. ~Unsized
    BY <1>2 DEF Unsized
  <2>4. SizedFits => SizedFits'
    BY <1>1, <1>2, <1>4, <2>1 DEF SizedFits
  <2> QED
    BY <1>1, <2>2, <2>3, <2>4 DEF FeedInv, GridFits
<1> QED
  BY <1>5, <1>7, <1>8, <1>9 DEF FeedInv

LEMMA WaitedFits ==
  ASSUME FeedInv, Waited
  PROVE  FeedInv'
<1>1. /\ UNCHANGED <<netVars, appVars, session, surface, pty, leaked, events>>
      /\ feed' = [feed EXCEPT !.opening = "parsed"] /\ feed.opening = "settled"
      /\ session.input = <<>> /\ feed \in Feeds
  BY DEF Waited, FeedInv, TermTypes
<1>2. /\ feed' \in Feeds /\ feed'.opening = "parsed"
      /\ feed'.backlog = feed.backlog /\ feed'.held = feed.held /\ feed'.exit = feed.exit
      /\ feed'.laidOut = feed.laidOut /\ feed'.reported = feed.reported /\ feed'.sized = feed.sized
      /\ feed'.arrived = feed.arrived /\ feed'.open = feed.open /\ feed'.timer = feed.timer
      /\ feed'.reporting = feed.reporting /\ feed'.crossed = feed.crossed
      /\ feed'.answered = feed.answered /\ feed'.early = feed.early /\ feed'.got = feed.got
  BY <1>1 DEF Feeds
<1>3. NetTypes' /\ AppTypes' /\ TermTypes'
  BY <1>1, <1>2 DEF FeedInv, NetTypes, AppTypes, TermTypes, netVars, appVars
<1>4. PICK g : Thins(g)
  BY <1>1, StreamsKept DEF appVars
<1>5. (Live' <=> Live) /\ FlowFits' /\ PtyFits'
  BY <1>1, StreamsKept DEF appVars
<1>6. GridFits'
  BY <1>1, <1>2, GridKept DEF FeedInv, appVars
<1>7. OrderFits'
  BY <1>1, <1>2, <1>4, <1>5, OrderKept DEF FeedInv, netVars, appVars
<1>8. OpenFits'
  BY <1>1, <1>2 DEF FeedInv, OpenFits, netVars, appVars
<1> QED
  BY <1>3, <1>5, <1>6, <1>7, <1>8 DEF FeedInv

LEMMA OpenWritebackFits ==
  ASSUME FeedInv, OpenWriteback
  PROVE  FeedInv'
<1>1. /\ UNCHANGED <<netVars, appVars, session, surface, pty, leaked, events>>
      /\ feed' = [feed EXCEPT !.open = TRUE] /\ feed.opening = "parsed"
      /\ ~session.answers /\ feed \in Feeds
  BY DEF OpenWriteback, FeedInv, TermTypes
<1>2. /\ feed' \in Feeds /\ feed'.opening = feed.opening
      /\ feed'.backlog = feed.backlog /\ feed'.held = feed.held /\ feed'.exit = feed.exit
      /\ feed'.laidOut = feed.laidOut /\ feed'.reported = feed.reported /\ feed'.sized = feed.sized
      /\ feed'.arrived = feed.arrived /\ feed'.open = TRUE /\ feed'.timer = feed.timer
      /\ feed'.reporting = feed.reporting /\ feed'.crossed = feed.crossed
      /\ feed'.answered = feed.answered /\ feed'.early = feed.early /\ feed'.got = feed.got
  BY <1>1 DEF Feeds
<1>3. NetTypes' /\ AppTypes' /\ TermTypes'
  BY <1>1, <1>2 DEF FeedInv, NetTypes, AppTypes, TermTypes, netVars, appVars
<1>4. PICK g : Thins(g)
  BY <1>1, StreamsKept DEF appVars
<1>5. (Live' <=> Live) /\ FlowFits' /\ PtyFits'
  BY <1>1, StreamsKept DEF appVars
<1>6. GridFits'
  BY <1>1, <1>2, GridKept DEF FeedInv, appVars
<1>7. OrderFits'
  BY <1>1, <1>2, <1>4, <1>5, OrderKept DEF FeedInv, netVars, appVars
<1>8. OpenFits'
  BY <1>1, <1>2 DEF FeedInv, OpenFits, netVars, appVars
<1> QED
  BY <1>3, <1>5, <1>6, <1>7, <1>8 DEF FeedInv

\* matchIfLaidOut: the feed is sized once, when the two grids are the same one.
LEMMA MatchedFields ==
  ASSUME NEW f \in Feeds, NEW busy \in BOOLEAN
  PROVE  LET h == Matched(f, busy)
             now == ~f.sized /\ f.reported # None /\ f.reported = f.laidOut IN
         /\ h \in Feeds
         /\ h.sized = (f.sized \/ now)
         /\ h.timer = IF now THEN (IF busy THEN "armed" ELSE "ripe") ELSE f.timer
         /\ h.backlog = f.backlog /\ h.held = f.held /\ h.exit = f.exit
         /\ h.laidOut = f.laidOut /\ h.reported = f.reported /\ h.reporting = f.reporting
         /\ h.arrived = f.arrived /\ h.open = f.open /\ h.opening = f.opening
         /\ h.crossed = f.crossed /\ h.answered = f.answered /\ h.early = f.early /\ h.got = f.got
<1> DEFINE now == ~f.sized /\ f.reported # None /\ f.reported = f.laidOut
<1>1. CASE now
  <2>1. Matched(f, busy) = [f EXCEPT !.sized = TRUE, !.timer = IF busy THEN "armed" ELSE "ripe"]
    BY <1>1 DEF Matched
  <2> QED
    BY <1>1, <2>1 DEF Feeds
<1>2. CASE ~now
  <2>1. Matched(f, busy) = f
    BY <1>2 DEF Matched
  <2> QED
    BY <1>2, <2>1 DEF Feeds
<1> QED
  BY <1>1, <1>2

\* What is not the feed's grid.
SameButGrid ==
  /\ feed'.backlog = feed.backlog /\ feed'.exit = feed.exit /\ feed'.held = feed.held
  /\ feed'.arrived = feed.arrived /\ feed'.open = feed.open /\ feed'.opening = feed.opening
  /\ feed'.answered = feed.answered /\ feed'.early = feed.early /\ feed'.got = feed.got

\* A step of the window, the view or ghostty's IO thread.
LEMMA SameButGridFits ==
  ASSUME FeedInv, SameButGrid, UNCHANGED <<netVars, made, pane, pty, session, leaked>>
  PROVE  FlowFits' /\ PtyFits' /\ OrderFits' /\ OpenFits'
<1>1. PICK g : Thins(g)
  BY StreamsKept
<1>2. (Live' <=> Live) /\ FlowFits' /\ PtyFits'
  BY StreamsKept
<1> QED
  BY <1>1, <1>2, OrderKept, OpenKept DEF FeedInv, SameButGrid, netVars

LEMMA LaidOutFits ==
  ASSUME FeedInv, LaidOut
  PROVE  FeedInv'
<1> DEFINE L == [feed EXCEPT !.laidOut = Head(surface.sizes)]
           busy == surface.resizing # None
           f == Matched(L, busy)
           now == ~feed.sized /\ feed.reported # None /\ feed.reported = Head(surface.sizes)
<1>1. /\ UNCHANGED <<netVars, appVars, session, pty, leaked, events>>
      /\ Ready /\ surface # None /\ surface.sizes # <<>>
      /\ surface' = [surface EXCEPT !.sizes = Tail(surface.sizes)]
      /\ feed' = [f EXCEPT !.reporting = IF f.sized /\ ~feed.sized THEN f.laidOut ELSE None]
      /\ feed \in Feeds /\ surface \in Surfaces
  BY DEF LaidOut, FeedInv, TermTypes
<1>2. surface.sizes \in Seq(Grid)
  BY <1>1 DEF Surfaces
<1>3. /\ Len(surface.sizes) \in Nat \ {0} /\ Head(surface.sizes) = surface.sizes[1]
      /\ Head(surface.sizes) \in Grid /\ Tail(surface.sizes) \in Seq(Grid)
      /\ Len(Tail(surface.sizes)) = Len(surface.sizes) - 1
      /\ \A i \in 1..(Len(surface.sizes) - 1) : Tail(surface.sizes)[i] = surface.sizes[i + 1]
  BY <1>1, <1>2, OneLess
<1>4. /\ L \in Feeds /\ L.laidOut = Head(surface.sizes) /\ L.sized = feed.sized
      /\ L.reported = feed.reported /\ L.timer = feed.timer /\ L.crossed = feed.crossed
      /\ L.backlog = feed.backlog /\ L.held = feed.held /\ L.exit = feed.exit
      /\ L.arrived = feed.arrived /\ L.open = feed.open /\ L.opening = feed.opening
      /\ L.answered = feed.answered /\ L.early = feed.early /\ L.got = feed.got
  BY <1>1, <1>3 DEF Feeds
<1>5. busy \in BOOLEAN
  OBVIOUS
<1> HIDE DEF L, busy
<1>6. /\ f \in Feeds /\ f.sized = (feed.sized \/ now)
      /\ f.timer = (IF now THEN (IF busy THEN "armed" ELSE "ripe") ELSE feed.timer)
      /\ f.laidOut = Head(surface.sizes) /\ f.reported = feed.reported /\ f.crossed = feed.crossed
      /\ f.backlog = feed.backlog /\ f.held = feed.held /\ f.exit = feed.exit
      /\ f.arrived = feed.arrived /\ f.open = feed.open /\ f.opening = feed.opening
      /\ f.answered = feed.answered /\ f.early = feed.early /\ f.got = feed.got
  BY <1>4, <1>5, MatchedFields
<1> HIDE DEF f
<1>7. /\ feed' \in Feeds /\ feed'.sized = (feed.sized \/ now)
      /\ feed'.timer = (IF now THEN (IF busy THEN "armed" ELSE "ripe") ELSE feed.timer)
      /\ feed'.laidOut = Head(surface.sizes) /\ feed'.reported = feed.reported
      /\ feed'.crossed = feed.crossed
      /\ feed'.reporting = IF now THEN feed.reported ELSE None
      /\ SameButGrid
  BY <1>1, <1>3, <1>6 DEF Feeds, SameButGrid
<1>8. /\ surface' \in Surfaces /\ surface'.sizes = Tail(surface.sizes)
      /\ surface'.grid = surface.grid /\ surface'.resizes = surface.resizes
      /\ surface'.resizing = surface.resizing /\ surface'.laid = surface.laid
  BY <1>1, <1>3 DEF Surfaces
<1>9. NetTypes' /\ AppTypes' /\ TermTypes'
  BY <1>1, <1>7, <1>8 DEF FeedInv, NetTypes, AppTypes, TermTypes, netVars, appVars
<1>10. FlowFits' /\ PtyFits' /\ OrderFits' /\ OpenFits'
  BY <1>1, <1>7, SameButGridFits DEF appVars
<1>11. SurfaceFits /\ SizedFits /\ ~session.narrow
  BY <1>1 DEF FeedInv, GridFits
<1>12. Shown' = Shown /\ Asked' = Asked
  <2>1. Asked' = Asked
    BY <1>7, <1>8 DEF Asked
  <2>2. CASE Len(surface.sizes) = 1
    <3>1. Tail(surface.sizes) = <<>> /\ Last(surface.sizes) = Head(surface.sizes)
      BY <1>1, <1>2, <2>2, LastOfTail
    <3> QED
      BY <1>1, <1>7, <1>8, <2>1, <3>1 DEF Shown
  <2>3. CASE Len(surface.sizes) # 1
    <3>1. Tail(surface.sizes) # <<>> /\ Last(Tail(surface.sizes)) = Last(surface.sizes)
      BY <1>1, <1>2, <2>3, LastOfTail
    <3> QED
      BY <1>1, <1>8, <2>1, <3>1 DEF Shown
  <2> QED
    BY <2>2, <2>3
<1>13. SurfaceFits'
  BY <1>7, <1>8, <1>11, <1>12 DEF SurfaceFits
<1>14. SizedFits'
  <2>1. CASE now
    <3>1. feed.timer = "off" /\ feed.held /\ feed.reporting = None
      BY <1>11, <2>1 DEF SizedFits
    <3>2. feed'.sized /\ feed'.reported \in Grid /\ feed'.timer # "off"
      BY <1>3, <1>7, <2>1
    <3>3. feed'.timer = "ripe" => surface'.grid \in Grid
      BY <1>3, <1>7, <1>8, <1>11, <2>1 DEF SurfaceFits, busy
    <3>4. feed'.timer = "armed" => surface'.resizing # None
      BY <1>7, <1>8, <2>1 DEF busy
    <3>5. Told' = feed'.reported
      BY <1>3, <1>7, <2>1, FeedAssumption DEF Told
    <3> QED
      BY <1>7, <3>1, <3>2, <3>3, <3>4, <3>5 DEF SizedFits, SameButGrid
  <2>2. CASE ~now
    <3>1. feed'.sized = feed.sized /\ feed'.timer = feed.timer /\ feed'.reporting = None /\ feed.reporting = None
      <4>1. feed.reporting = None
        BY <1>1 DEF Ready
      <4>2. feed.sized \in BOOLEAN
        BY <1>1 DEF Feeds
      <4> HIDE DEF now
      <4> QED
        BY <1>7, <2>2, <4>1, <4>2
    <3>2. Told' = Told
      BY <1>1, <3>1 DEF Told, appVars
    <3>3. feed'.reported # None /\ feed'.reported = feed'.laidOut => feed'.sized
      BY <1>7, <2>2
    <3> QED
      BY <1>7, <1>8, <1>11, <3>1, <3>2, <3>3 DEF SizedFits, SameButGrid
  <2> QED
    BY <2>1, <2>2
<1>15. GridFits'
  <2>1. window'.open = window.open /\ ~session'.narrow /\ window.open
    BY <1>1, <1>11 DEF appVars, FeedInv, GridFits
  <2> QED
    BY <1>8, <1>13, <1>14, <2>1 DEF GridFits
<1> QED
  BY <1>9, <1>10, <1>15 DEF FeedInv

--------------------------------------------------------------------------------
(* The window and ghostty. *)

LEMMA WindowAppearedFits ==
  ASSUME FeedInv, WindowAppeared
  PROVE  FeedInv'
<1>1. /\ UNCHANGED <<netVars, reports, known, attached, pane, made, feed, session, pty, leaked, events>>
      /\ surface' = NewSurface /\ window' = [window EXCEPT !.open = TRUE, !.redial = TRUE]
      /\ window \in [open : BOOLEAN, redial : BOOLEAN] /\ feed \in Feeds /\ ~window.open
  BY DEF WindowAppeared, FeedInv, AppTypes, TermTypes
<1>2. window' \in [open : BOOLEAN, redial : BOOLEAN] /\ window'.open
  BY <1>1
<1>3. surface' \in Surfaces
  BY <1>1 DEF NewSurface, Surfaces, Wide
<1>4. NetTypes' /\ AppTypes' /\ TermTypes'
  BY <1>1, <1>2, <1>3 DEF FeedInv, NetTypes, AppTypes, TermTypes, netVars
<1>5. FlowFits' /\ PtyFits' /\ OrderFits' /\ OpenFits'
  BY <1>1, SameButGridFits DEF SameButGrid
<1>6. Unsized /\ ~session.narrow
  BY <1>1 DEF FeedInv, GridFits
<1>7. surface'.resizes = <<Default>> /\ surface'.resizing = None /\ surface'.laid = FALSE
  BY <1>1 DEF NewSurface
<1>8. \A i \in DOMAIN surface'.resizes : i = 1
  BY <1>7
<1>9. SurfaceFits' /\ SizedFits'
  BY <1>1, <1>6, <1>7, <1>8 DEF SurfaceFits, SizedFits, Unsized
<1> QED
  BY <1>1, <1>2, <1>3, <1>4, <1>5, <1>6, <1>9 DEF FeedInv, GridFits

LEMMA LayOutFits ==
  ASSUME FeedInv, NEW again \in BOOLEAN, LayOut(again)
  PROVE  FeedInv'
<1>1. PICK g \in Grid : surface' = [surface EXCEPT !.laid = TRUE, !.resizes = Append(surface.resizes, g),
                                                   !.sizes = Append(surface.sizes, g)]
  BY DEF LayOut
<1>2. /\ UNCHANGED <<netVars, appVars, feed, session, pty, leaked>> /\ surface # None /\ surface \in Surfaces
      /\ SurfaceFits /\ SizedFits /\ events \in 0..MaxEvents
  BY DEF LayOut, FeedInv, NetTypes, TermTypes, GridFits
<1>3. events' \in 0..MaxEvents /\ events <= events'
  <2>1. CASE again
    BY <1>2, <2>1, EventsCounted DEF LayOut
  <2>2. CASE ~again
    BY <1>2, <2>2, FeedAssumption DEF LayOut
  <2> QED
    BY <2>1, <2>2
<1>4. surface.resizes \in Seq(Wide) /\ surface.sizes \in Seq(Grid) /\ g \in Wide
  BY <1>2 DEF Surfaces, Wide
<1>5. /\ Append(surface.resizes, g) \in Seq(Wide) /\ Append(surface.resizes, g) # <<>>
      /\ Last(Append(surface.resizes, g)) = g
      /\ DOMAIN Append(surface.resizes, g) = 1..(Len(surface.resizes) + 1)
      /\ DOMAIN surface.resizes = 1..Len(surface.resizes) /\ Len(surface.resizes) \in Nat
      /\ \A i \in 1..Len(surface.resizes) : Append(surface.resizes, g)[i] = surface.resizes[i]
      /\ Append(surface.resizes, g)[Len(surface.resizes) + 1] = g
  BY <1>4, OneMore DEF Last
<1>6. /\ Append(surface.sizes, g) \in Seq(Grid) /\ Append(surface.sizes, g) # <<>>
      /\ Last(Append(surface.sizes, g)) = g
  BY <1>4, OneMore DEF Last
<1>7. /\ surface' \in Surfaces /\ surface'.laid /\ surface'.grid = surface.grid
      /\ surface'.resizing = surface.resizing
      /\ surface'.resizes = Append(surface.resizes, g) /\ surface'.sizes = Append(surface.sizes, g)
  BY <1>1, <1>2, <1>5, <1>6 DEF Surfaces
<1>8. daemon'.run <= events' + 1
  <2>1. daemon.run \in Nat /\ daemon.run <= events + 1 /\ events \in Nat /\ events' \in Nat
    BY <1>2, <1>3, FeedAssumption DEF FeedInv, NetTypes
  <2> QED
    BY <1>2, <1>3, <2>1 DEF netVars
<1>9. NetTypes' /\ AppTypes' /\ TermTypes'
  BY <1>2, <1>3, <1>7, <1>8 DEF FeedInv, NetTypes, AppTypes, TermTypes, netVars, appVars
<1>10. FlowFits' /\ PtyFits' /\ OrderFits' /\ OpenFits'
  BY <1>2, SameButGridFits DEF SameButGrid, appVars
<1>11. SurfaceFits'
  <2>1. Asked' = g /\ Shown' = g
    BY <1>5, <1>6, <1>7 DEF Asked, Shown
  <2>2. \A i \in DOMAIN surface'.resizes : surface'.resizes[i] = Default => i = 1 /\ feed'.reported = None
    <3>1. g # Default
      BY FeedAssumption
    <3>2. \A i \in 1..(Len(surface.resizes) + 1) : i \in 1..Len(surface.resizes) \/ i = Len(surface.resizes) + 1
      BY <1>5
    <3> QED
      BY <1>2, <1>5, <1>7, <3>1, <3>2 DEF SurfaceFits
  <2> QED
    BY <1>2, <1>7, <2>1, <2>2 DEF SurfaceFits
<1>12. SizedFits'
  <2>1. Told' = Told
    BY <1>2 DEF Told, appVars
  <2> QED
    BY <1>2, <1>7, <2>1 DEF SizedFits
<1>13. window'.open = window.open /\ window.open /\ ~session'.narrow
  BY <1>2 DEF appVars, FeedInv, GridFits
<1> QED
  BY <1>7, <1>9, <1>10, <1>11, <1>12, <1>13 DEF FeedInv, GridFits

LEMMA ResizedFits ==
  ASSUME FeedInv, Resized
  PROVE  FeedInv'
<1> DEFINE g == Head(surface.resizes)
           L == [feed EXCEPT !.reported = g]
           f == Matched(L, TRUE)
           now == ~feed.sized /\ g = feed.laidOut
<1>1. /\ UNCHANGED <<netVars, known, attached, window, pane, made, session, pty, leaked, events>>
      /\ surface # None /\ surface.resizing = None /\ surface.resizes # <<>>
      /\ surface' = [surface EXCEPT !.resizes = Tail(surface.resizes), !.resizing = g]
      /\ feed' = [f EXCEPT !.crossed = f.crossed \/ (f.sized /\ ~Ready)]
      /\ reports' = (IF f.sized THEN Append(reports, g) ELSE reports)
      /\ feed \in Feeds /\ surface \in Surfaces /\ reports \in Seq(Grid)
      /\ SurfaceFits /\ SizedFits /\ ~session.narrow
  BY DEF Resized, FeedInv, AppTypes, TermTypes, GridFits
<1>2. surface.resizes \in Seq(Wide)
  BY <1>1 DEF Surfaces
<1>3. /\ Len(surface.resizes) \in Nat \ {0} /\ DOMAIN surface.resizes = 1..Len(surface.resizes)
      /\ g = surface.resizes[1] /\ g \in Wide /\ Tail(surface.resizes) \in Seq(Wide)
      /\ DOMAIN Tail(surface.resizes) = 1..(Len(surface.resizes) - 1)
      /\ \A i \in 1..(Len(surface.resizes) - 1) : Tail(surface.resizes)[i] = surface.resizes[i + 1]
  BY <1>1, <1>2, OneLess
<1>4. g # None
  BY <1>3, FeedAssumption DEF Wide
<1>5. /\ L \in Feeds /\ L.reported = g /\ L.sized = feed.sized /\ L.laidOut = feed.laidOut
      /\ L.timer = feed.timer /\ L.crossed = feed.crossed /\ L.reporting = feed.reporting
      /\ L.backlog = feed.backlog /\ L.held = feed.held /\ L.exit = feed.exit
      /\ L.arrived = feed.arrived /\ L.open = feed.open /\ L.opening = feed.opening
      /\ L.answered = feed.answered /\ L.early = feed.early /\ L.got = feed.got
  BY <1>1, <1>3 DEF Feeds
<1> HIDE DEF L, g
<1>6. /\ f \in Feeds /\ f.sized = (feed.sized \/ now) /\ f.timer = (IF now THEN "armed" ELSE feed.timer)
      /\ f.laidOut = feed.laidOut /\ f.reported = g /\ f.crossed = feed.crossed
      /\ f.reporting = feed.reporting
      /\ f.backlog = feed.backlog /\ f.held = feed.held /\ f.exit = feed.exit
      /\ f.arrived = feed.arrived /\ f.open = feed.open /\ f.opening = feed.opening
      /\ f.answered = feed.answered /\ f.early = feed.early /\ f.got = feed.got
  <2> DEFINE lnow == ~L.sized /\ L.reported # None /\ L.reported = L.laidOut
  <2>1. /\ f \in Feeds /\ f.sized = (L.sized \/ lnow)
        /\ f.timer = (IF lnow THEN (IF TRUE THEN "armed" ELSE "ripe") ELSE L.timer)
        /\ f.laidOut = L.laidOut /\ f.reported = L.reported /\ f.crossed = L.crossed
        /\ f.reporting = L.reporting
        /\ f.backlog = L.backlog /\ f.held = L.held /\ f.exit = L.exit
        /\ f.arrived = L.arrived /\ f.open = L.open /\ f.opening = L.opening
        /\ f.answered = L.answered /\ f.early = L.early /\ f.got = L.got
    <3>1. TRUE \in BOOLEAN /\ L \in Feeds
      BY <1>5
    <3> HIDE DEF f
    <3> QED
      BY <3>1, MatchedFields DEF f
  <2>2. lnow = now
    BY <1>4, <1>5
  <2> HIDE DEF f, lnow, now
  <2> QED
    BY <1>5, <2>1, <2>2
<1> HIDE DEF f
<1>7. /\ feed' \in Feeds /\ feed'.sized = (feed.sized \/ now)
      /\ feed'.timer = (IF now THEN "armed" ELSE feed.timer)
      /\ feed'.laidOut = feed.laidOut /\ feed'.reported = g /\ feed'.reporting = feed.reporting
      /\ feed'.crossed = (feed.crossed \/ (feed'.sized /\ ~Ready))
      /\ SameButGrid
  <2> DEFINE c == f.crossed \/ (f.sized /\ ~Ready)
  <2>1. feed' = [f EXCEPT !.crossed = c] /\ c \in BOOLEAN
    BY <1>1
  <2>2. c = (feed.crossed \/ (f.sized /\ ~Ready))
    BY <1>6
  <2> HIDE DEF c, now
  <2>3. /\ feed' \in Feeds /\ feed'.crossed = c /\ feed'.sized = f.sized /\ feed'.timer = f.timer
        /\ feed'.laidOut = f.laidOut /\ feed'.reported = f.reported /\ feed'.reporting = f.reporting
        /\ feed'.backlog = f.backlog /\ feed'.held = f.held /\ feed'.exit = f.exit
        /\ feed'.arrived = f.arrived /\ feed'.open = f.open /\ feed'.opening = f.opening
        /\ feed'.answered = f.answered /\ feed'.early = f.early /\ feed'.got = f.got
    BY <1>6, <2>1 DEF Feeds
  <2> QED
    BY <1>6, <2>2, <2>3 DEF SameButGrid
<1>8. /\ surface' \in Surfaces /\ surface'.sizes = surface.sizes /\ surface'.grid = surface.grid
      /\ surface'.resizes = Tail(surface.resizes) /\ surface'.resizing = g /\ surface'.laid = surface.laid
  BY <1>1, <1>3 DEF Surfaces
<1>9. feed'.sized => g \in Grid
  <2>1. CASE feed.sized
    <3>1. feed.reported # None
      BY <1>1, <2>1, FeedAssumption DEF SizedFits
    <3>2. g # Default
      BY <1>1, <1>3, <3>1 DEF SurfaceFits
    <3> QED
      BY <1>3, <3>2 DEF Wide
  <2>2. CASE now
    BY <1>1, <1>4, <2>2 DEF Feeds
  <2> QED
    BY <1>7, <2>1, <2>2
<1>10. /\ reports' \in Seq(Grid)
       /\ feed'.sized => reports' # <<>> /\ Last(reports') = g
       /\ ~feed'.sized => reports' = reports
  <2>1. f.sized = feed'.sized
    BY <1>6, <1>7
  <2> QED
    BY <1>1, <1>9, <2>1, OneMore DEF Last
<1>11. NetTypes' /\ AppTypes' /\ TermTypes'
  BY <1>1, <1>7, <1>8, <1>10 DEF FeedInv, NetTypes, AppTypes, TermTypes, netVars
<1>12. FlowFits' /\ PtyFits' /\ OrderFits' /\ OpenFits'
  BY <1>1, <1>7, SameButGridFits
<1>13. Shown' = Shown /\ Asked' = Asked
  <2>1. Shown' = Shown
    BY <1>7, <1>8 DEF Shown
  <2>2. CASE Len(surface.resizes) = 1
    <3>1. Tail(surface.resizes) = <<>> /\ Last(surface.resizes) = g
      BY <1>1, <1>2, <2>2, LastOfTail DEF g
    <3> QED
      BY <1>1, <1>7, <1>8, <2>1, <3>1 DEF Asked
  <2>3. CASE Len(surface.resizes) # 1
    <3>1. Tail(surface.resizes) # <<>> /\ Last(Tail(surface.resizes)) = Last(surface.resizes)
      BY <1>1, <1>2, <2>3, LastOfTail
    <3> QED
      BY <1>1, <1>8, <2>1, <3>1 DEF Asked
  <2> QED
    BY <2>2, <2>3
<1>14. SurfaceFits'
  <2>1. \A i \in 1..(Len(surface.resizes) - 1) : i + 1 \in 1..Len(surface.resizes) /\ i + 1 # 1
    <3>1. Len(surface.resizes) \in Nat
      BY <1>3
    <3> QED
      BY <3>1
  <2>2. \A i \in DOMAIN surface'.resizes : surface'.resizes[i] # Default
    BY <1>1, <1>3, <1>8, <2>1 DEF SurfaceFits
  <2> QED
    BY <1>1, <1>4, <1>7, <1>8, <1>13, <2>2 DEF SurfaceFits
<1>15. SizedFits'
  <2>1. feed'.sized <=> feed'.timer # "off"
    BY <1>1, <1>7 DEF SizedFits
  <2>2. feed'.timer = "ripe" => feed.timer = "ripe" /\ surface'.grid \in Grid
    BY <1>1, <1>7, <1>8 DEF SizedFits
  <2>3. ~feed'.held => feed'.timer = "ripe"
    <3>1. ~feed'.held => feed.timer = "ripe" /\ feed.sized
      BY <1>1, <1>7 DEF SizedFits, SameButGrid
    <3> QED
      BY <1>7, <3>1
  <2>4. ~feed'.sized => feed'.reporting = None
    BY <1>1, <1>7 DEF SizedFits
  <2>5. feed'.sized /\ ~feed'.crossed => Told' = feed'.reported
    BY <1>7, <1>10 DEF Told, Ready
  <2>6. feed'.reported = feed'.laidOut => feed'.sized
    BY <1>7
  <2> QED
    BY <1>4, <1>7, <1>8, <1>9, <2>1, <2>2, <2>3, <2>4, <2>5, <2>6 DEF SizedFits
<1>16. window'.open = window.open /\ window.open /\ ~session'.narrow
  BY <1>1 DEF FeedInv, GridFits
<1> QED
  BY <1>8, <1>11, <1>12, <1>14, <1>15, <1>16 DEF FeedInv, GridFits

LEMMA AppliesFits ==
  ASSUME FeedInv, Applies
  PROVE  FeedInv'
<1>1. /\ UNCHANGED <<netVars, appVars, session, pty, leaked, events>> /\ surface # None
      /\ surface.resizing # None
      /\ surface' = [surface EXCEPT !.grid = surface.resizing, !.resizing = None]
      /\ feed' = [feed EXCEPT !.timer = IF feed.timer = "armed" THEN "ripe" ELSE feed.timer]
      /\ feed \in Feeds /\ surface \in Surfaces /\ SurfaceFits /\ SizedFits /\ ~session.narrow
  BY DEF Applies, FeedInv, TermTypes, GridFits
<1>2. surface.resizing \in Wide /\ surface.resizing = feed.reported
  BY <1>1 DEF Surfaces, SurfaceFits
<1>3. /\ surface' \in Surfaces /\ surface'.grid = feed.reported /\ surface'.resizing = None
      /\ surface'.laid = surface.laid /\ surface'.resizes = surface.resizes /\ surface'.sizes = surface.sizes
  BY <1>1, <1>2 DEF Surfaces
<1>4. /\ feed' \in Feeds /\ feed'.timer = (IF feed.timer = "armed" THEN "ripe" ELSE feed.timer)
      /\ feed'.laidOut = feed.laidOut /\ feed'.reported = feed.reported /\ feed'.sized = feed.sized
      /\ feed'.reporting = feed.reporting /\ feed'.crossed = feed.crossed /\ SameButGrid
  BY <1>1 DEF Feeds, SameButGrid
<1>5. NetTypes' /\ AppTypes' /\ TermTypes'
  BY <1>1, <1>3, <1>4 DEF FeedInv, NetTypes, AppTypes, TermTypes, netVars, appVars
<1>6. FlowFits' /\ PtyFits' /\ OrderFits' /\ OpenFits'
  BY <1>1, <1>4, SameButGridFits DEF appVars
<1>7. SurfaceFits'
  BY <1>1, <1>2, <1>3, <1>4 DEF SurfaceFits, Asked, Shown
<1>8. SizedFits'
  <2>1. Told' = Told
    BY <1>1, <1>4 DEF Told, appVars
  <2>2. feed'.timer = "ripe" => surface'.grid \in Grid
    BY <1>1, <1>3, <1>4 DEF SizedFits
  <2> QED
    BY <1>1, <1>4, <2>1, <2>2 DEF SizedFits, SameButGrid
<1>9. window'.open = window.open /\ window.open /\ ~session'.narrow
  BY <1>1 DEF appVars, FeedInv, GridFits
<1> QED
  BY <1>3, <1>5, <1>6, <1>7, <1>8, <1>9 DEF FeedInv, GridFits

--------------------------------------------------------------------------------
(* The parser. *)

\* The parser takes the first of what waits: what has passed is the same.
LEMMA ParsedStaysPassed ==
  ASSUME NEW S, NEW p \in Seq(S), NEW s \in Seq(S), s # <<>>
  PROVE  Append(p, Head(s)) \o Tail(s) = p \o s
<1> DEFINE m == Len(p)
           n == Len(s)
           h == Append(p, Head(s))
           t == Tail(s)
<1>1. /\ n \in Nat \ {0} /\ Head(s) = s[1] /\ Head(s) \in S /\ t \in Seq(S) /\ Len(t) = n - 1
      /\ \A i \in 1..(n - 1) : t[i] = s[i + 1]
  BY OneLess
<1>2. /\ h \in Seq(S) /\ m \in Nat /\ Len(h) = m + 1 /\ h[m + 1] = s[1]
      /\ \A i \in 1..m : h[i] = p[i]
  BY <1>1, OneMore
<1> HIDE DEF h, t
<1>3. /\ h \o t \in Seq(S) /\ Len(h \o t) = Len(h) + Len(t)
      /\ \A i \in 1..(Len(h) + Len(t)) : (h \o t)[i] = IF i <= Len(h) THEN h[i] ELSE t[i - Len(h)]
  BY <1>1, <1>2, ConcatProperties
<1>4. /\ p \o s \in Seq(S) /\ Len(p \o s) = m + n
      /\ \A i \in 1..(m + n) : (p \o s)[i] = IF i <= m THEN p[i] ELSE s[i - m]
  BY ConcatProperties
<1> HIDE DEF m, n
<1>5. Len(h) + Len(t) = m + n
  BY <1>1, <1>2
<1>6. \A i \in 1..(m + n) : (h \o t)[i] = (p \o s)[i]
  <2> TAKE i \in 1..(m + n)
  <2>1. CASE i <= m
    BY <1>2, <1>3, <1>4, <1>5, <2>1
  <2>2. CASE i = m + 1
    <3>1. i <= Len(h) /\ ~(i <= m) /\ i - m = 1
      BY <1>2, <2>2
    <3> QED
      BY <1>2, <1>3, <1>4, <1>5, <2>2, <3>1
  <2>3. CASE i > m + 1
    <3>1. /\ ~(i <= Len(h)) /\ ~(i <= m) /\ i - Len(h) \in 1..(n - 1) /\ (i - Len(h)) + 1 = i - m
      BY <1>1, <1>2, <2>3
    <3> QED
      BY <1>1, <1>3, <1>4, <1>5, <3>1
  <2>4. i <= m \/ i = m + 1 \/ i > m + 1
    BY <1>1, <1>2
  <2> QED
    BY <2>1, <2>2, <2>3, <2>4
<1>7. Len(h \o t) = Len(p \o s)
  BY <1>3, <1>4, <1>5
<1> QED
  BY <1>3, <1>4, <1>6, <1>7, SeqEqual DEF h, t

LEMMA ParsesFits ==
  ASSUME FeedInv, Parses
  PROVE  FeedInv'
<1> DEFINE piece == Head(session.input)
<1>1. /\ UNCHANGED <<netVars, appVars, feed, surface, pty, leaked, events>>
      /\ surface # None /\ session.input # <<>>
      /\ session' = [input |-> Tail(session.input), parsed |-> Append(session.parsed, piece),
                     narrow |-> session.narrow \/ surface.grid = Default,
                     answers |-> session.answers \/ piece.kind = "replay"]
      /\ session.input \in Seq(Pieces) /\ session.parsed \in Seq(Pieces) /\ session \in Sessions
  BY DEF Parses, FeedInv, TermTypes, Sessions
<1>2. /\ piece \in Pieces /\ Tail(session.input) \in Seq(Pieces) /\ piece = session.input[1]
      /\ Len(session.input) \in Nat \ {0} /\ DOMAIN session.input = 1..Len(session.input)
      /\ DOMAIN Tail(session.input) = 1..(Len(session.input) - 1)
      /\ \A i \in 1..(Len(session.input) - 1) : Tail(session.input)[i] = session.input[i + 1]
  BY <1>1, OneLess
<1>3. Append(session.parsed, piece) \in Seq(Pieces)
  BY <1>1, <1>2, OneMore
<1> HIDE DEF piece
<1>4. /\ session' \in Sessions /\ session'.input = Tail(session.input)
      /\ session'.parsed = Append(session.parsed, piece)
      /\ session'.narrow = (session.narrow \/ surface.grid = Default)
      /\ session'.answers = (session.answers \/ piece.kind = "replay")
  BY <1>1, <1>2, <1>3 DEF Sessions
<1>5. NetTypes' /\ AppTypes' /\ TermTypes'
  BY <1>1, <1>4 DEF FeedInv, NetTypes, AppTypes, TermTypes, netVars, appVars
<1>6. (Live' <=> Live) /\ FlowFits' /\ PtyFits'
  BY <1>1, StreamsKept DEF appVars
<1>7. ~feed.held
  BY <1>1 DEF FeedInv, OrderFits, HeldFits
<1>8. ~session'.narrow
  <2>1. surface.grid \in Grid /\ ~session.narrow
    BY <1>1, <1>7 DEF FeedInv, GridFits, SizedFits
  <2> QED
    BY <1>4, <2>1, FeedAssumption
<1>9. GridFits'
  <2>1. session'.narrow = session.narrow
    BY <1>1, <1>4, <1>8 DEF Sessions
  <2> QED
    BY <1>1, <2>1, GridKept DEF FeedInv, appVars
<1>10. Passed' = Passed
  BY <1>1, <1>4, ParsedStaysPassed DEF Passed, piece
<1>11. OrderFits'
  <2>1. Over' <=> Over
    BY <1>1, <1>10 DEF Over
  <2> QED
    BY <1>1, <1>6, <1>7, <1>10, <2>1 DEF FeedInv, OrderFits, HeldFits, PassedFits, OverFits, netVars, appVars
<1>12. OpenFits'
  <2>1. \A i \in 1..(Len(session.input) - 1) : i + 1 \in 1..Len(session.input)
    <3>1. Len(session.input) \in Nat
      BY <1>2
    <3> QED
      BY <3>1
  <2>2. feed.opening = "parsed" /\ ~feed.early =>
          /\ \A i \in DOMAIN session.input : session.input[i].kind # "replay"
          /\ \A i \in DOMAIN session'.input : session'.input[i].kind # "replay"
          /\ piece.kind # "replay"
    <3>1. 1 \in DOMAIN session.input
      BY <1>2
    <3> QED
      BY <1>2, <1>4, <2>1, <3>1 DEF FeedInv, OpenFits
  <2>3. feed.open /\ ~feed.early => ~session'.answers
    BY <1>4, <2>2 DEF FeedInv, OpenFits
  <2> QED
    BY <1>1, <2>2, <2>3 DEF FeedInv, OpenFits, netVars, appVars
<1> QED
  BY <1>5, <1>6, <1>9, <1>11, <1>12 DEF FeedInv

LEMMA AnswersFits ==
  ASSUME FeedInv, Answers
  PROVE  FeedInv'
<1>1. /\ UNCHANGED <<netVars, appVars, feed, surface, pty, events>> /\ session.answers
      /\ session' = [session EXCEPT !.answers = FALSE]
      /\ leaked' = (leaked \/ (feed.open /\ ~feed.early)) /\ session \in Sessions
  BY DEF Answers, FeedInv, TermTypes
<1>2. /\ session' \in Sessions /\ session'.input = session.input /\ session'.parsed = session.parsed
      /\ session'.narrow = session.narrow /\ ~session'.answers
  BY <1>1 DEF Sessions
<1>3. leaked' = leaked /\ leaked = FALSE
  BY <1>1 DEF FeedInv, OpenFits
<1>4. NetTypes' /\ AppTypes' /\ TermTypes'
  BY <1>1, <1>2 DEF FeedInv, NetTypes, AppTypes, TermTypes, netVars, appVars
<1>5. PICK g : Thins(g)
  BY <1>1, StreamsKept DEF appVars
<1>6. (Live' <=> Live) /\ FlowFits' /\ PtyFits'
  BY <1>1, StreamsKept DEF appVars
<1>7. GridFits'
  BY <1>1, <1>2, GridKept DEF FeedInv, appVars
<1>8. OrderFits' /\ OpenFits'
  BY <1>1, <1>2, <1>3, <1>5, <1>6, OrderKept, OpenKept DEF FeedInv, netVars, appVars
<1> QED
  BY <1>4, <1>6, <1>7, <1>8 DEF FeedInv

--------------------------------------------------------------------------------
(* What the feed takes. *)

LEMMA ConcatOneMore ==
  ASSUME NEW S, NEW p \in Seq(S), NEW s \in Seq(S), NEW e \in S
  PROVE  p \o Append(s, e) = Append(p \o s, e) /\ p \o s \in Seq(S)
<1>1. Append(s, e) = s \o <<e>> /\ <<e>> \in Seq(S) /\ p \o s \in Seq(S)
  BY AppendIsConcat, ConcatProperties
<1>2. p \o (s \o <<e>>) = (p \o s) \o <<e>>
  BY <1>1, ConcatAssociative
<1>3. Append(p \o s, e) = (p \o s) \o <<e>>
  BY <1>1, AppendIsConcat
<1> QED
  BY <1>1, <1>2, <1>3

\* One chunk more, or something that is none, behind what ends with no exit.
LEMMA NumberedMore ==
  ASSUME NEW s \in Seq(Pieces), NEW got \in Nat, Numbered(s, got), NEW e \in Pieces,
         e.n \in {0, got + 1}
  PROVE  Numbered(Append(s, e), IF e.n = 0 THEN got ELSE got + 1)
<1> DEFINE t == Append(s, e)
           n == Len(s)
<1>1. /\ t \in Seq(Pieces) /\ n \in Nat /\ DOMAIN s = 1..n /\ DOMAIN t = 1..(n + 1)
      /\ \A i \in 1..n : t[i] = s[i]
      /\ t[n + 1] = e
  BY OneMore
<1>2. PICK first \in 1..(got + 1) : /\ {s[i].n : i \in Chunks(s)} = first..got
                                    /\ first = 1 \/ got - first + 1 >= Limit
  BY DEF Numbered
<1>3. \A i \in 1..(n + 1) : i \in 1..n \/ i = n + 1
  BY <1>1
<1> HIDE DEF t, n
<1>4. CASE e.n = 0
  <2>1. Chunks(t) = Chunks(s) /\ \A i \in Chunks(s) : t[i] = s[i]
    BY <1>1, <1>3, <1>4 DEF Chunks
  <2>2. {t[i].n : i \in Chunks(t)} = {s[i].n : i \in Chunks(s)}
    BY <2>1
  <2>3. \A i, j \in Chunks(t) : i < j => t[i].n < t[j].n
    BY <2>1 DEF Numbered
  <2> QED
    BY <1>2, <1>4, <2>2, <2>3 DEF Numbered, t
<1>5. CASE e.n # 0
  <2>1. e.n = got + 1 /\ e.n > 0
    BY <1>5
  <2>2. Chunks(t) = Chunks(s) \cup {n + 1} /\ \A i \in Chunks(s) : t[i] = s[i] /\ i \in 1..n
    BY <1>1, <1>3, <2>1 DEF Chunks
  <2>3. \A i \in Chunks(s) : s[i].n \in first..got
    BY <1>2
  <2>4. {t[i].n : i \in Chunks(t)} = first..(got + 1)
    <3>1. \A i \in Chunks(t) : t[i].n \in first..(got + 1)
      <4>1. got + 1 \in first..(got + 1) /\ \A k \in first..got : k \in first..(got + 1)
        OBVIOUS
      <4> QED
        BY <1>1, <2>1, <2>2, <2>3, <4>1
    <3>2. ASSUME NEW k \in first..(got + 1) PROVE \E i \in Chunks(t) : t[i].n = k
      <4>1. CASE k = got + 1
        BY <1>1, <2>1, <2>2, <4>1
      <4>2. CASE k # got + 1
        <5>1. k \in first..got
          BY <4>2
        <5>2. PICK i \in Chunks(s) : s[i].n = k
          BY <1>2, <5>1
        <5> QED
          BY <2>2, <5>2
      <4> QED
        BY <4>1, <4>2
    <3> QED
      BY <3>1, <3>2
  <2>5. \A i, j \in Chunks(t) : i < j => t[i].n < t[j].n
    <3> SUFFICES ASSUME NEW i \in Chunks(t), NEW j \in Chunks(t), i < j
                 PROVE  t[i].n < t[j].n
      OBVIOUS
    <3>1. i \in Chunks(s)
      BY <1>1, <2>2
    <3>2. CASE j \in Chunks(s)
      BY <2>2, <3>1, <3>2 DEF Numbered
    <3>3. CASE j = n + 1
      <4>1. s[i].n < got + 1
        BY <2>3, <3>1
      <4> QED
        BY <1>1, <2>1, <2>2, <3>1, <3>3, <4>1
    <3> QED
      BY <2>2, <3>2, <3>3
  <2>6. first \in 1..(got + 1 + 1) /\ (first = 1 \/ got + 1 - first + 1 >= Limit)
    BY <1>2, FeedAssumption
  <2>7. Numbered(t, got + 1)
    BY <2>4, <2>5, <2>6 DEF Numbered
  <2> QED
    BY <1>5, <2>7 DEF t
<1> QED
  BY <1>4, <1>5

LEMMA EndsMore ==
  ASSUME NEW s \in Seq(Pieces), NEW e \in Pieces, \A i \in DOMAIN s : s[i].kind # "exit"
  PROVE  EndsWithExit(Append(s, e))
<1>1. /\ DOMAIN s = 1..Len(s) /\ DOMAIN Append(s, e) = 1..(Len(s) + 1) /\ Len(s) \in Nat
      /\ Len(Append(s, e)) = Len(s) + 1
      /\ \A i \in 1..Len(s) : Append(s, e)[i] = s[i]
  BY OneMore
<1>2. \A i \in 1..(Len(s) + 1) : i \in 1..Len(s) \/ i = Len(s) + 1
  BY <1>1
<1> QED
  BY <1>1, <1>2 DEF EndsWithExit

LEMMA BacklogNumbered ==
  ASSUME NEW s \in Seq(Pieces), NEW got \in Nat, Newest(s, got)
  PROVE  Numbered(s, got)
<1> DEFINE n == Len(s)
           first == got - n + 1
<1>1. n \in Nat /\ DOMAIN s = 1..n /\ n <= got /\ Limit \in Nat
  BY LenProperties, FeedAssumption DEF Newest
<1>2. \A i \in 1..n : s[i].n = got - n + i
  BY <1>1 DEF Newest
<1>3. (n = got \/ n = Limit) /\ Len(s) = n
  BY DEF Newest
<1> HIDE DEF n
<1>4. first \in 1..(got + 1) /\ (first = 1 \/ got - first + 1 >= Limit)
  BY <1>1, <1>3
<1>5. Chunks(s) = 1..n
  BY <1>1, <1>2 DEF Chunks
<1>6. {s[i].n : i \in 1..n} = first..got
  <2>1. \A i \in 1..n : got - n + i \in first..got
    BY <1>1
  <2>2. \A k \in first..got : k - (got - n) \in 1..n /\ got - n + (k - (got - n)) = k
    BY <1>1
  <2> HIDE DEF first
  <2>3. \A k \in first..got : \E i \in 1..n : s[i].n = k
    BY <1>2, <2>2
  <2> QED
    BY <1>2, <2>1, <2>3
<1>7. \A i, j \in 1..n : i < j => s[i].n < s[j].n
  BY <1>1, <1>2
<1> HIDE DEF first
<1> QED
  BY <1>4, <1>5, <1>6, <1>7 DEF Numbered

LEMMA SettledFields ==
  ASSUME NEW f \in Feeds
  PROVE  LET s == Settled(f)
             now == f.arrived /\ ~f.held /\ f.opening = "no" IN
           /\ s \in Feeds
           /\ s.backlog = f.backlog /\ s.held = f.held /\ s.exit = f.exit /\ s.laidOut = f.laidOut
           /\ s.reported = f.reported /\ s.sized = f.sized /\ s.arrived = f.arrived
           /\ s.open = f.open /\ s.timer = f.timer /\ s.reporting = f.reporting
           /\ s.crossed = f.crossed /\ s.answered = f.answered /\ s.got = f.got
           /\ s.opening = IF now THEN "settled" ELSE f.opening
           /\ s.early = IF now THEN ~f.answered ELSE f.early
<1>1. CASE f.arrived /\ ~f.held /\ f.opening = "no"
  BY <1>1 DEF Settled, Feeds
<1>2. CASE ~(f.arrived /\ ~f.held /\ f.opening = "no")
  BY <1>2 DEF Settled
<1> QED
  BY <1>1, <1>2

\* Nothing is held from the release on: what was goes to the parser, its end after it.
LEMMA ReleaseFits ==
  ASSUME FeedInv, Release
  PROVE  FeedInv'
<1> DEFINE f == [feed EXCEPT !.held = FALSE, !.backlog = <<>>, !.exit = None]
           exits == IF feed.exit = None THEN <<>> ELSE <<feed.exit>>
           input == session.input \o feed.backlog \o exits
<1>1. /\ UNCHANGED <<netVars, appVars, surface, pty, leaked, events>>
      /\ feed.timer = "ripe" /\ feed.held /\ feed' = Settled(f)
      /\ session' = [session EXCEPT !.input = input]
      /\ feed \in Feeds /\ session \in Sessions /\ surface \in Surfaces /\ SurfaceFits /\ SizedFits
      /\ window.open /\ ~session.narrow
  BY DEF Release, FeedInv, TermTypes, GridFits, Unsized
<1>2. /\ f \in Feeds /\ f.held = FALSE /\ f.backlog = <<>> /\ f.exit = None
      /\ f.laidOut = feed.laidOut /\ f.reported = feed.reported /\ f.sized = feed.sized
      /\ f.arrived = feed.arrived /\ f.open = feed.open /\ f.timer = feed.timer
      /\ f.opening = feed.opening /\ f.reporting = feed.reporting /\ f.crossed = feed.crossed
      /\ f.answered = feed.answered /\ f.early = feed.early /\ f.got = feed.got
  <2>1. <<>> \in Seq(Pieces)
    BY EmptySeq
  <2> QED
    BY <1>1, <2>1 DEF Feeds
<1> HIDE DEF f
<1>3. /\ feed' \in Feeds /\ feed'.held = FALSE /\ feed'.backlog = <<>> /\ feed'.exit = None
      /\ feed'.laidOut = feed.laidOut /\ feed'.reported = feed.reported /\ feed'.sized = feed.sized
      /\ feed'.arrived = feed.arrived /\ feed'.open = feed.open /\ feed'.timer = feed.timer
      /\ feed'.reporting = feed.reporting /\ feed'.crossed = feed.crossed
      /\ feed'.answered = feed.answered /\ feed'.got = feed.got
      /\ feed'.opening = IF feed.arrived /\ feed.opening = "no" THEN "settled" ELSE feed.opening
      /\ feed'.early = IF feed.arrived /\ feed.opening = "no" THEN ~feed.answered ELSE feed.early
  BY <1>1, <1>2, SettledFields
<1>4. /\ session.input = <<>> /\ session.parsed = <<>>
      /\ feed.backlog \in Seq(Pieces) /\ feed.got \in Nat
      /\ Newest(feed.backlog, feed.got)
      /\ feed.exit # None => feed.exit \in Pieces /\ feed.exit.kind \in {"exit", "old exit"} /\ feed.exit.n = 0
  BY <1>1 DEF FeedInv, OrderFits, HeldFits, Feeds
<1>5. input = IF feed.exit = None THEN feed.backlog ELSE Append(feed.backlog, feed.exit)
  <2>1. session.input \o feed.backlog = feed.backlog
    BY <1>4, ConcatEmptySeq
  <2>2. feed.exit = None => feed.backlog \o exits = feed.backlog
    BY <1>4, ConcatEmptySeq
  <2>3. feed.exit # None => feed.backlog \o exits = Append(feed.backlog, feed.exit)
    BY <1>4, AppendIsConcat
  <2> QED
    BY <2>1, <2>2, <2>3
<1> HIDE DEF input, exits
<1>6. input \in Seq(Pieces) /\ <<>> \o input = input
  <2>1. feed.exit # None => Append(feed.backlog, feed.exit) \in Seq(Pieces)
    BY <1>4, OneMore
  <2>2. input \in Seq(Pieces)
    BY <1>4, <1>5, <2>1
  <2> QED
    BY <2>2, ConcatEmptySeq
<1>7. Numbered(feed.backlog, feed.got) /\ \A i \in DOMAIN feed.backlog : feed.backlog[i].kind # "exit"
  BY <1>4, BacklogNumbered DEF Newest
<1>8. /\ Numbered(input, feed.got) /\ EndsWithExit(input)
      /\ (\E i \in DOMAIN input : input[i].kind = "exit") => feed.exit # None /\ feed.exit.kind = "exit"
  <2>1. CASE feed.exit = None
    BY <1>5, <1>7, <2>1 DEF EndsWithExit
  <2>2. CASE feed.exit # None
    <3>1. Numbered(input, feed.got)
      BY <1>4, <1>5, <1>7, <2>2, NumberedMore
    <3>2. EndsWithExit(input)
      BY <1>4, <1>5, <1>7, <2>2, EndsMore
    <3>3. /\ DOMAIN input = 1..(Len(feed.backlog) + 1) /\ Len(feed.backlog) \in Nat
          /\ DOMAIN feed.backlog = 1..Len(feed.backlog)
          /\ \A i \in 1..Len(feed.backlog) : input[i] = feed.backlog[i]
          /\ input[Len(feed.backlog) + 1] = feed.exit
      <4>1. feed.exit \in Pieces /\ feed.backlog \in Seq(Pieces)
        BY <1>4, <2>2
      <4>2. input = Append(feed.backlog, feed.exit)
        BY <1>5, <2>2
      <4> QED
        BY <4>1, <4>2, OneMore
    <3>4. \A i \in 1..(Len(feed.backlog) + 1) : i \in 1..Len(feed.backlog) \/ i = Len(feed.backlog) + 1
      BY <3>3
    <3> QED
      BY <1>7, <2>2, <3>1, <3>2, <3>3, <3>4
  <2> QED
    BY <2>1, <2>2
<1>9. /\ session' \in Sessions /\ session'.input = input /\ session'.parsed = <<>>
      /\ session'.narrow = session.narrow /\ session'.answers = session.answers
      /\ Passed' = input
  BY <1>1, <1>4, <1>6 DEF Sessions, Passed
<1>10. NetTypes' /\ AppTypes' /\ TermTypes'
  BY <1>1, <1>3, <1>9 DEF FeedInv, NetTypes, AppTypes, TermTypes, netVars, appVars
<1>11. (Live' <=> Live) /\ FlowFits' /\ PtyFits'
  BY <1>1, StreamsKept DEF appVars
<1>12. GridFits'
  <2>1. Told' = Told /\ Asked' = Asked /\ Shown' = Shown
    BY <1>1, <1>3 DEF Told, Asked, Shown, appVars
  <2>2. SurfaceFits'
    BY <1>1, <1>3, <2>1 DEF SurfaceFits
  <2>3. SizedFits'
    BY <1>1, <1>3, <2>1 DEF SizedFits
  <2> QED
    BY <1>1, <1>9, <2>2, <2>3 DEF GridFits, appVars
<1>13. OrderFits'
  <2>1. Over' => Over
    BY <1>3, <1>8, <1>9 DEF Over
  <2>2. OverFits'
    BY <1>1, <1>11, <2>1 DEF FeedInv, OrderFits, OverFits, netVars, appVars
  <2>3. HeldFits' /\ PassedFits'
    BY <1>3, <1>8, <1>9 DEF HeldFits, PassedFits
  <2> QED
    BY <2>2, <2>3 DEF OrderFits
<1>14. OpenFits'
  <2>1. feed.opening = "no" /\ ~feed.open
    BY <1>1 DEF FeedInv, OpenFits
  <2> QED
    BY <1>1, <1>3, <2>1 DEF FeedInv, OpenFits, netVars, appVars
<1> QED
  BY <1>10, <1>11, <1>12, <1>13, <1>14 DEF FeedInv

\* Output reaches a feed whose session has not ended.
LEMMA DeliverFits ==
  ASSUME FeedInv, Deliver
  PROVE  FeedInv'
<1>1. PICK i \in DOMAIN frames :
        /\ IsOutput(frames[i]) /\ \A j \in 1..(i - 1) : ~IsOutput(frames[j])
        /\ IF made = 0 THEN UNCHANGED <<feed, session>> ELSE Receive(frames[i])
        /\ frames' = Without(frames, i)
  BY DEF Deliver, Without
<1> DEFINE chunk == frames[i]
           piece == Piece(chunk.kind, feed.got + 1)
           f == [feed EXCEPT
                  !.arrived = TRUE, !.got = feed.got + 1, !.answered = feed.answered \/ chunk.term = made,
                  !.backlog = IF feed.held THEN Capped(Append(feed.backlog, piece)) ELSE feed.backlog]
<1>2. /\ chunk.kind \in {"replay", "live"} /\ OfStream(chunk) /\ chunk.term \in 1..made /\ made # 0
      /\ made \in Nat /\ chunk.term \in Nat
  <2>1. chunk.kind \in {"replay", "live"} /\ OfStream(chunk)
    BY <1>1 DEF IsOutput, OfStream
  <2>2. chunk.term \in 1..made /\ made \in Nat
    BY <2>1 DEF FeedInv, FlowFits, AppTypes
  <2> QED
    BY <2>1, <2>2
<1>3. /\ UNCHANGED <<daemon, stream, appVars, surface, pty, leaked, events>>
      /\ feed' = Settled(f)
      /\ session' = IF feed.held THEN session ELSE [session EXCEPT !.input = Append(session.input, piece)]
      /\ feed \in Feeds /\ session \in Sessions
  <2>1. Receive(frames[i])
    BY <1>1, <1>2
  <2>2. UNCHANGED <<daemon, stream, appVars, surface, pty, leaked, events>>
    BY DEF Deliver
  <2> QED
    BY <2>1, <2>2 DEF Receive, FeedInv, TermTypes
<1>4. /\ piece \in Pieces /\ piece.kind = chunk.kind /\ piece.n = feed.got + 1 /\ feed.got \in Nat
      /\ feed.backlog \in Seq(Pieces) /\ session.input \in Seq(Pieces) /\ session.parsed \in Seq(Pieces)
  <2>1. /\ feed.got \in Nat /\ feed.backlog \in Seq(Pieces)
        /\ session.input \in Seq(Pieces) /\ session.parsed \in Seq(Pieces)
    BY <1>3 DEF Feeds, Sessions
  <2> HIDE DEF chunk
  <2>2. feed.got + 1 \in Nat
    BY <2>1
  <2>3. chunk.kind \in {"replay", "live", "exit", "old exit"}
    BY <1>2
  <2> QED
    BY <2>1, <2>2, <2>3 DEF Piece, Pieces
<1> HIDE DEF piece
<1>5. Append(feed.backlog, piece) \in Seq(Pieces) /\ Append(session.input, piece) \in Seq(Pieces)
  BY <1>4, OneMore
\* What is held is the last of what came.
<1>6. ASSUME feed.held
      PROVE  LET b == Capped(Append(feed.backlog, piece)) IN
               b \in Seq(Pieces) /\ Newest(b, feed.got + 1)
  <2> DEFINE a == Append(feed.backlog, piece)
             n == Len(feed.backlog)
  <2>1. /\ a \in Seq(Pieces) /\ a # <<>> /\ n \in Nat /\ Len(a) = n + 1
        /\ DOMAIN feed.backlog = 1..n /\ DOMAIN a = 1..(n + 1)
        /\ \A k \in 1..n : a[k] = feed.backlog[k]
        /\ a[n + 1] = piece
    BY <1>4, OneMore
  <2>2. /\ n = IF feed.got < Limit THEN feed.got ELSE Limit
        /\ \A k \in 1..n : feed.backlog[k].n = feed.got - n + k /\ feed.backlog[k].kind \in {"replay", "live"}
    BY <1>6, <2>1 DEF FeedInv, OrderFits, HeldFits, Newest
  <2>3. \A k \in 1..(n + 1) : k \in 1..n \/ k = n + 1
    BY <2>1
  <2>4. Limit \in Nat \ {0}
    BY FeedAssumption
  <2>5. Len(a) > Limit => /\ Tail(a) \in Seq(Pieces) /\ Len(Tail(a)) = n /\ DOMAIN Tail(a) = 1..n
                          /\ \A k \in 1..n : Tail(a)[k] = a[k + 1]
    <3>1. /\ Tail(a) \in Seq(Pieces) /\ Len(Tail(a)) = Len(a) - 1 /\ DOMAIN Tail(a) = 1..(Len(a) - 1)
          /\ \A k \in 1..(Len(a) - 1) : Tail(a)[k] = a[k + 1]
      BY <2>1, OneLess
    <3>2. Len(a) - 1 = n
      BY <2>1
    <3> QED
      BY <3>1, <3>2
  <2> HIDE DEF a, n
  <2>6. \A k \in 1..(n + 1) : a[k].n = feed.got - n + k /\ a[k].kind \in {"replay", "live"}
    <3>1. feed.got - n + (n + 1) = feed.got + 1
      BY <1>4, <2>1
    <3> QED
      BY <1>2, <1>4, <2>1, <2>2, <2>3, <3>1
  <2>7. CASE Len(a) > Limit
    <3>1. Capped(a) = Tail(a) /\ n = Limit /\ ~(feed.got + 1 < Limit)
      BY <1>4, <2>1, <2>2, <2>4, <2>7 DEF Capped
    <3>2. \A k \in 1..n : k + 1 \in 1..(n + 1) /\ feed.got - n + (k + 1) = (feed.got + 1) - n + k
      <4>1. \A m, o \in Nat : \A k \in 1..o :
              k + 1 \in 1..(o + 1) /\ m - o + (k + 1) = (m + 1) - o + k
        OBVIOUS
      <4> QED
        BY <1>4, <2>1, <4>1
    <3>3. \A k \in 1..n : Tail(a)[k].n = (feed.got + 1) - n + k /\ Tail(a)[k].kind \in {"replay", "live"}
      BY <2>5, <2>6, <2>7, <3>2
    <3>4. Newest(Tail(a), feed.got + 1)
      <4> DEFINE t == Tail(a)
      <4>1. Len(t) = IF feed.got + 1 < Limit THEN feed.got + 1 ELSE Limit
        BY <2>5, <2>7, <3>1
      <4>2. \A k \in DOMAIN t : t[k].n = (feed.got + 1) - Len(t) + k
        BY <2>5, <2>7, <3>3
      <4>3. \A k \in DOMAIN t : t[k].kind \in {"replay", "live"}
        BY <2>5, <2>7, <3>3
      <4> HIDE DEF t
      <4>4. Newest(t, feed.got + 1)
        BY <4>1, <4>2, <4>3, Zenon DEF Newest
      <4> QED
        BY <4>4 DEF t
    <3> QED
      BY <2>5, <2>7, <3>1, <3>4 DEF a
  <2>8. CASE ~(Len(a) > Limit)
    <3>1. /\ Capped(a) = a /\ n = feed.got
          /\ n + 1 = IF feed.got + 1 < Limit THEN feed.got + 1 ELSE Limit
      BY <1>4, <2>1, <2>2, <2>4, <2>8 DEF Capped
    <3>2. \A k \in 1..(n + 1) : feed.got - n + k = (feed.got + 1) - (n + 1) + k
      <4>1. \A m, o \in Nat : \A k \in 1..(o + 1) : m - o + k = (m + 1) - (o + 1) + k
        OBVIOUS
      <4> QED
        BY <1>4, <2>1, <4>1
    <3>3. \A k \in 1..(n + 1) : a[k].n = (feed.got + 1) - (n + 1) + k /\ a[k].kind \in {"replay", "live"}
      BY <2>6, <3>2
    <3>4. Newest(a, feed.got + 1)
      <4>1. Len(a) = IF feed.got + 1 < Limit THEN feed.got + 1 ELSE Limit
        BY <2>1, <3>1
      <4>2. \A k \in DOMAIN a : a[k].n = (feed.got + 1) - Len(a) + k
        BY <2>1, <3>3
      <4>3. \A k \in DOMAIN a : a[k].kind \in {"replay", "live"}
        BY <2>1, <3>3
      <4> QED
        BY <4>1, <4>2, <4>3, Zenon DEF Newest
    <3> QED
      BY <2>1, <3>1, <3>4 DEF a
  <2> QED
    BY <2>7, <2>8
<1>7. /\ f \in Feeds /\ f.held = feed.held /\ f.exit = feed.exit /\ f.arrived = TRUE
      /\ f.got = feed.got + 1 /\ f.answered = (feed.answered \/ chunk.term = made)
      /\ f.backlog = IF feed.held THEN Capped(Append(feed.backlog, piece)) ELSE feed.backlog
      /\ f.laidOut = feed.laidOut /\ f.reported = feed.reported /\ f.sized = feed.sized
      /\ f.open = feed.open /\ f.timer = feed.timer /\ f.opening = feed.opening
      /\ f.reporting = feed.reporting /\ f.crossed = feed.crossed /\ f.early = feed.early
  <2>1. feed.got + 1 \in Nat /\ (feed.answered \/ chunk.term = made) \in BOOLEAN
    BY <1>4
  <2>2. (IF feed.held THEN Capped(Append(feed.backlog, piece)) ELSE feed.backlog) \in Seq(Pieces)
    BY <1>4, <1>6
  <2> HIDE DEF chunk
  <2> QED
    BY <1>3, <2>1, <2>2 DEF Feeds
<1> HIDE DEF f
<1> DEFINE now == ~feed.held /\ feed.opening = "no"
<1>8. /\ feed' \in Feeds /\ feed'.held = feed.held /\ feed'.exit = feed.exit /\ feed'.arrived = TRUE
      /\ feed'.got = feed.got + 1 /\ feed'.answered = (feed.answered \/ chunk.term = made)
      /\ feed'.backlog = IF feed.held THEN Capped(Append(feed.backlog, piece)) ELSE feed.backlog
      /\ feed'.laidOut = feed.laidOut /\ feed'.reported = feed.reported /\ feed'.sized = feed.sized
      /\ feed'.open = feed.open /\ feed'.timer = feed.timer
      /\ feed'.reporting = feed.reporting /\ feed'.crossed = feed.crossed
      /\ feed'.opening = IF now THEN "settled" ELSE feed.opening
      /\ feed'.early = IF now THEN ~feed'.answered ELSE feed.early
  BY <1>3, <1>7, SettledFields
<1>9. /\ session' \in Sessions /\ session'.parsed = session.parsed
      /\ session'.input = IF feed.held THEN session.input ELSE Append(session.input, piece)
      /\ session'.narrow = session.narrow /\ session'.answers = session.answers
  BY <1>3, <1>5 DEF Sessions
<1>10. frames' \in Seq(Frames)
  BY <1>1, OutputTaken DEF FeedInv
<1>11. PICK g : Thins(g)
  BY <1>1, OutputTaken DEF FeedInv
<1>12. NetTypes' /\ AppTypes' /\ TermTypes'
  BY <1>3, <1>8, <1>9, <1>10 DEF FeedInv, NetTypes, AppTypes, TermTypes, appVars
<1>13. Live' <=> Live
  BY <1>3 DEF Live
<1>14. FlowFits' /\ PtyFits'
  <2>1. FlowFits'
    BY <1>2, <1>3, <1>11, <1>13, FlowKept DEF FeedInv, appVars
  <2>2. PtyFits'
    BY <1>3, <1>13 DEF FeedInv, PtyFits, appVars
  <2> QED
    BY <2>1, <2>2
<1>15. GridFits'
  BY <1>3, <1>8, <1>9, GridKept DEF FeedInv, appVars
<1>16. ~Over
  BY <1>2 DEF FeedInv, OrderFits, OverFits
<1>17. OrderFits'
  <2>1. CASE feed.held
    <3>1. Passed' = Passed
      BY <1>9, <2>1 DEF Passed
    <3>2. ~Over'
      BY <1>8, <1>16, <3>1 DEF Over
    <3>3. HeldFits'
      <4>1. Newest(feed'.backlog, feed'.got)
        <5> DEFINE b == Capped(Append(feed.backlog, piece))
        <5>1. feed'.backlog = b /\ feed'.got = feed.got + 1
          BY <1>8, <2>1
        <5>2. Newest(b, feed.got + 1)
          BY <1>6, <2>1
        <5> HIDE DEF b
        <5> QED
          BY <5>1, <5>2
      <4> QED
        BY <1>8, <1>9, <2>1, <4>1 DEF FeedInv, OrderFits, HeldFits
    <3> QED
      BY <1>8, <2>1, <3>2, <3>3 DEF OrderFits, PassedFits, OverFits
  <2>2. CASE ~feed.held
    <3>1. Passed' = Append(Passed, piece) /\ Passed \in Seq(Pieces)
      <4>1. Passed' = session.parsed \o Append(session.input, piece)
        BY <1>9, <2>2 DEF Passed
      <4>2. /\ session.parsed \o Append(session.input, piece) = Append(session.parsed \o session.input, piece)
            /\ session.parsed \o session.input \in Seq(Pieces)
        BY <1>4, ConcatOneMore
      <4> QED
        BY <4>1, <4>2 DEF Passed
    <3>2. \A k \in DOMAIN Passed : Passed[k].kind # "exit"
      BY <1>16 DEF Over
    <3>3. EndsWithExit(Passed')
      BY <1>4, <3>1, <3>2, EndsMore
    <3>4. Numbered(Passed', feed'.got)
      <4>1. Numbered(Passed, feed.got)
        BY <2>2 DEF FeedInv, OrderFits, PassedFits
      <4>2. piece.n # 0 /\ piece.n \in {0, feed.got + 1}
        BY <1>4
      <4>3. Numbered(Append(Passed, piece), feed.got + 1)
        BY <1>4, <3>1, <4>1, <4>2, NumberedMore
      <4> QED
        BY <1>8, <3>1, <4>3
    <3>5. \A k \in DOMAIN Passed' : Passed'[k].kind # "exit"
      <4>1. /\ Len(Passed) \in Nat /\ DOMAIN Passed = 1..Len(Passed)
            /\ DOMAIN Passed' = 1..(Len(Passed) + 1)
            /\ \A k \in 1..Len(Passed) : Passed'[k] = Passed[k]
            /\ Passed'[Len(Passed) + 1] = piece
        BY <1>4, <3>1, OneMore
      <4>2. \A k \in 1..(Len(Passed) + 1) : k \in 1..Len(Passed) \/ k = Len(Passed) + 1
        BY <4>1
      <4> QED
        BY <1>2, <1>4, <3>2, <4>1, <4>2
    <3>6. ~Over'
      BY <1>8, <1>16, <3>5 DEF Over
    <3>7. HeldFits'
      BY <1>8, <2>2 DEF FeedInv, OrderFits, HeldFits
    <3> QED
      BY <3>3, <3>4, <3>6, <3>7 DEF OrderFits, PassedFits, OverFits
  <2> QED
    BY <2>1, <2>2
\* Behind the answer to its own Attach no replay comes.
<1>18. feed'.answered => \A k \in DOMAIN frames' : frames'[k].kind # "replay"
  <2>1. CASE feed.answered
    BY <1>11, <2>1 DEF FeedInv, OpenFits, Thins, OfStream
  <2>2. CASE chunk.term = made
    <3>1. ASSUME NEW k \in DOMAIN frames, k # i, frames[k].kind = "replay" PROVE FALSE
      <4>1. i \in Nat /\ k \in Nat /\ OfStream(frames[k]) /\ frames[k].term \in 1..made
        <5>1. OfStream(frames[k])
          BY <3>1 DEF OfStream
        <5>2. DOMAIN frames = 1..Len(frames)
          BY LenProperties DEF FeedInv, NetTypes
        <5> QED
          BY <5>1, <5>2 DEF FeedInv, FlowFits
      <4>2. CASE k < i
        <5>1. k \in 1..(i - 1)
          <6>1. DOMAIN frames = 1..Len(frames)
            BY LenProperties DEF FeedInv, NetTypes
          <6> QED
            BY <4>1, <4>2, <6>1
        <5> QED
          BY <1>1, <3>1, <5>1 DEF IsOutput
      <4>3. CASE i < k
        <5>1. InOrder(frames[i], frames[k])
          BY <4>3 DEF FeedInv, FlowFits
        <5>2. frames[i].term < frames[k].term
          BY <1>2, <3>1, <4>1, <5>1 DEF InOrder
        <5> QED
          BY <1>2, <2>2, <4>1, <5>2
      <4> QED
        BY <3>1, <4>1, <4>2, <4>3
    <3>2. /\ Len(frames) \in Nat /\ DOMAIN frames = 1..Len(frames) /\ DOMAIN frames' = 1..(Len(frames) - 1)
          /\ \A j \in 1..(Len(frames) - 1) : frames'[j] = IF j < i THEN frames[j] ELSE frames[j + 1]
      BY <1>1, OneOut DEF FeedInv, NetTypes
    <3>3. \A j \in 1..(Len(frames) - 1) : /\ j \in 1..Len(frames) /\ j + 1 \in 1..Len(frames)
                                          /\ j < i => j # i
                                          /\ ~(j < i) => j + 1 # i
      BY <3>2
    <3> QED
      BY <3>1, <3>2, <3>3
  <2> QED
    BY <1>8, <2>1, <2>2
<1>19. OpenFits'
  <2>1. feed.opening # "no" <=> feed.arrived /\ ~feed.held
    BY DEF FeedInv, OpenFits
  <2>2. feed'.opening # "no" <=> feed'.arrived /\ ~feed'.held
    BY <1>8, <2>1
  <2>3. feed'.answered => feed'.arrived /\ made' # 0 /\ \A k \in DOMAIN frames' : frames'[k].kind # "replay"
    BY <1>2, <1>3, <1>8, <1>18 DEF appVars
  <2>4. feed'.opening # "no" /\ ~feed'.early => feed'.answered
    BY <1>8 DEF FeedInv, OpenFits, Feeds
  <2>5. feed'.opening = "parsed" /\ ~feed'.early =>
          \A k \in DOMAIN session'.input : session'.input[k].kind # "replay"
    <3> SUFFICES ASSUME feed'.opening = "parsed", ~feed'.early
                 PROVE  \A k \in DOMAIN session'.input : session'.input[k].kind # "replay"
      OBVIOUS
    <3>1. feed.opening = "parsed" /\ ~feed.early
      BY <1>8
    <3>2. /\ feed.answered /\ ~feed.held
          /\ \A k \in DOMAIN session.input : session.input[k].kind # "replay"
          /\ chunk.kind # "replay"
      BY <2>1, <3>1 DEF FeedInv, OpenFits
    <3>3. /\ Len(session.input) \in Nat /\ DOMAIN session.input = 1..Len(session.input)
          /\ DOMAIN session'.input = 1..(Len(session.input) + 1)
          /\ \A k \in 1..Len(session.input) : session'.input[k] = session.input[k]
          /\ session'.input[Len(session.input) + 1] = piece
      BY <1>4, <1>9, <3>2, OneMore
    <3>4. \A k \in 1..(Len(session.input) + 1) : k \in 1..Len(session.input) \/ k = Len(session.input) + 1
      BY <3>3
    <3> QED
      BY <1>4, <3>2, <3>3, <3>4
  <2>6. feed'.open => feed'.opening = "parsed" /\ (~feed'.early => ~session'.answers)
    BY <1>8, <1>9 DEF FeedInv, OpenFits
  <2>7. leaked' = FALSE
    BY <1>3 DEF FeedInv, OpenFits
  <2> QED
    BY <2>2, <2>3, <2>4, <2>5, <2>6, <2>7 DEF OpenFits
<1> QED
  BY <1>12, <1>14, <1>15, <1>17, <1>19 DEF FeedInv

\* The end of a run comes when all of its output has.
LEMMA OnExitedFits ==
  ASSUME FeedInv, OnFrame, OnExited
  PROVE  FeedInv'
<1> DEFINE term == Head(frames).term
           piece == Piece(IF term = made THEN "exit" ELSE "old exit", 0)
           f == [feed EXCEPT !.arrived = TRUE, !.exit = IF feed.held THEN piece ELSE feed.exit]
<1>1. /\ frames # <<>> /\ frames' = Tail(frames) /\ Head(frames).kind = "exited"
      /\ UNCHANGED <<daemon, stream, reports, known, attached, window, pane, made, surface, pty, leaked, events>>
      /\ feed \in Feeds /\ session \in Sessions /\ frames \in Seq(Frames) /\ made \in Nat
  BY DEF OnFrame, OnExited, SendsNone, FeedInv, TermTypes, NetTypes, AppTypes
<1>2. /\ Head(frames) = frames[1] /\ 1 \in DOMAIN frames /\ Len(frames) \in Nat \ {0}
      /\ DOMAIN frames = 1..Len(frames) /\ DOMAIN frames' = 1..(Len(frames) - 1)
      /\ \A i \in 1..(Len(frames) - 1) : frames'[i] = frames[i + 1]
  BY <1>1, OneLess
<1>3. OfStream(frames[1]) /\ frames[1].kind = "exited" /\ term = frames[1].term
  BY <1>1, <1>2 DEF OfStream
<1>4. term \in 1..made /\ made # 0 /\ term \in Nat
  <2>1. term \in 1..made
    BY <1>2, <1>3 DEF FeedInv, FlowFits
  <2> QED
    BY <1>1, <2>1
<1> HIDE DEF term
<1>5. /\ feed' = Settled(f)
      /\ session' = IF feed.held THEN session ELSE [session EXCEPT !.input = Append(session.input, piece)]
  BY <1>4 DEF OnExited, Finish, term
<1>6. /\ piece \in Pieces /\ piece.kind = (IF term = made THEN "exit" ELSE "old exit") /\ piece.n = 0
      /\ piece # None => TRUE
  BY DEF Piece, Pieces
<1> HIDE DEF piece
<1>7. /\ f \in Feeds /\ f.held = feed.held /\ f.exit = (IF feed.held THEN piece ELSE feed.exit)
      /\ f.arrived = TRUE /\ f.got = feed.got /\ f.answered = feed.answered /\ f.backlog = feed.backlog
      /\ f.laidOut = feed.laidOut /\ f.reported = feed.reported /\ f.sized = feed.sized
      /\ f.open = feed.open /\ f.timer = feed.timer /\ f.opening = feed.opening
      /\ f.reporting = feed.reporting /\ f.crossed = feed.crossed /\ f.early = feed.early
  BY <1>1, <1>6 DEF Feeds
<1> HIDE DEF f
<1> DEFINE now == ~feed.held /\ feed.opening = "no"
<1>8. /\ feed' \in Feeds /\ feed'.held = feed.held /\ feed'.arrived = TRUE
      /\ feed'.exit = (IF feed.held THEN piece ELSE feed.exit)
      /\ feed'.got = feed.got /\ feed'.answered = feed.answered /\ feed'.backlog = feed.backlog
      /\ feed'.laidOut = feed.laidOut /\ feed'.reported = feed.reported /\ feed'.sized = feed.sized
      /\ feed'.open = feed.open /\ feed'.timer = feed.timer
      /\ feed'.reporting = feed.reporting /\ feed'.crossed = feed.crossed
      /\ feed'.opening = IF now THEN "settled" ELSE feed.opening
      /\ feed'.early = IF now THEN ~feed'.answered ELSE feed.early
  BY <1>5, <1>7, SettledFields
<1>9. /\ session.input \in Seq(Pieces) /\ session.parsed \in Seq(Pieces)
      /\ Append(session.input, piece) \in Seq(Pieces)
  BY <1>1, <1>6, OneMore DEF Sessions
<1>10. /\ session' \in Sessions /\ session'.parsed = session.parsed
       /\ session'.input = IF feed.held THEN session.input ELSE Append(session.input, piece)
       /\ session'.narrow = session.narrow /\ session'.answers = session.answers
  BY <1>1, <1>5, <1>9 DEF Sessions
<1>11. frames' \in Seq(Frames)
  BY <1>1, FirstTaken DEF FeedInv
<1>12. PICK g : Thins(g)
  BY <1>1, FirstTaken DEF FeedInv
<1>13. NetTypes' /\ AppTypes' /\ TermTypes'
  BY <1>1, <1>8, <1>10, <1>11 DEF FeedInv, NetTypes, AppTypes, TermTypes
<1>14. Live' <=> Live
  BY <1>1 DEF Live
<1>15. FlowFits' /\ PtyFits'
  <2>1. FlowFits'
    BY <1>1, <1>12, <1>14, FlowKept DEF FeedInv
  <2>2. PtyFits'
    BY <1>1, <1>14 DEF FeedInv, PtyFits
  <2> QED
    BY <2>1, <2>2
<1>16. GridFits'
  BY <1>1, <1>8, <1>10, GridKept DEF FeedInv
<1>17. ~Over
  BY <1>2, <1>3 DEF FeedInv, OrderFits, OverFits
<1>18. HeldFits' /\ PassedFits'
  <2>1. CASE feed.held
    <3>1. HeldFits'
      BY <1>6, <1>8, <1>10, <2>1 DEF FeedInv, OrderFits, HeldFits
    <3> QED
      BY <1>8, <2>1, <3>1 DEF PassedFits
  <2>2. CASE ~feed.held
    <3>1. Passed' = Append(Passed, piece) /\ Passed \in Seq(Pieces)
      <4>1. Passed' = session.parsed \o Append(session.input, piece)
        BY <1>10, <2>2 DEF Passed
      <4>2. /\ session.parsed \o Append(session.input, piece) = Append(session.parsed \o session.input, piece)
            /\ session.parsed \o session.input \in Seq(Pieces)
        BY <1>6, <1>9, ConcatOneMore
      <4> QED
        BY <4>1, <4>2 DEF Passed
    <3>2. \A k \in DOMAIN Passed : Passed[k].kind # "exit"
      BY <1>17 DEF Over
    <3>3. EndsWithExit(Passed')
      BY <1>6, <3>1, <3>2, EndsMore
    <3>4. Numbered(Passed', feed'.got)
      <4>1. Numbered(Passed, feed.got) /\ feed.got \in Nat
        BY <1>1, <2>2 DEF FeedInv, OrderFits, PassedFits, Feeds
      <4>2. Numbered(Append(Passed, piece), feed.got)
        BY <1>6, <3>1, <4>1, NumberedMore
      <4> QED
        BY <1>8, <3>1, <4>2
    <3>5. HeldFits'
      BY <1>8, <2>2 DEF FeedInv, OrderFits, HeldFits
    <3> QED
      BY <3>3, <3>4, <3>5 DEF PassedFits
  <2> QED
    BY <2>1, <2>2
<1>19. Over' => term = made
  <2> SUFFICES ASSUME Over', term # made PROVE FALSE
    OBVIOUS
  <2>1. piece.kind # "exit"
    BY <1>6
  <2>2. ~(feed'.exit # None /\ feed'.exit.kind = "exit")
    BY <1>8, <1>17, <2>1 DEF Over
  <2>3. \A k \in DOMAIN Passed' : Passed'[k].kind # "exit"
    <3>1. \A k \in DOMAIN Passed : Passed[k].kind # "exit"
      BY <1>17 DEF Over
    <3>2. CASE feed.held
      BY <1>10, <3>1, <3>2 DEF Passed
    <3>3. CASE ~feed.held
      <4>1. session.parsed \o Append(session.input, piece) = Append(Passed, piece) /\ Passed \in Seq(Pieces)
        BY <1>6, <1>9, ConcatOneMore DEF Passed
      <4>2. Passed' = Append(Passed, piece)
        BY <1>10, <3>3, <4>1 DEF Passed
      <4>3. /\ Len(Passed) \in Nat /\ DOMAIN Passed = 1..Len(Passed)
            /\ DOMAIN Passed' = 1..(Len(Passed) + 1)
            /\ \A k \in 1..Len(Passed) : Passed'[k] = Passed[k]
            /\ Passed'[Len(Passed) + 1] = piece
        <5>1. piece \in Pieces
          BY <1>6
        <5> QED
          BY <4>1, <4>2, <5>1, OneMore
      <4>4. \A k \in 1..(Len(Passed) + 1) : k \in 1..Len(Passed) \/ k = Len(Passed) + 1
        BY <4>3
      <4> QED
        BY <2>1, <3>1, <4>3, <4>4
    <3> QED
      BY <3>2, <3>3
  <2> QED
    BY <2>2, <2>3 DEF Over
<1>20. OverFits'
  <2> SUFFICES ASSUME term = made PROVE OverFits'
    BY <1>19 DEF OverFits
  <2>1. ASSUME NEW k \in DOMAIN frames' PROVE ~OfStream(frames'[k])
    <3>1. k + 1 \in DOMAIN frames /\ 1 < k + 1 /\ frames'[k] = frames[k + 1]
      BY <1>2
    <3>2. OfStream(frames[k + 1]) => frames[k + 1].term \in 1..made /\ InOrder(frames[1], frames[k + 1])
      BY <1>2, <3>1 DEF FeedInv, FlowFits
    <3>3. OfStream(frames[k + 1]) => frames[k + 1].term \in 1..made /\ made < frames[k + 1].term
      BY <1>3, <3>2 DEF InOrder
    <3> QED
      BY <1>1, <3>1, <3>3
  <2>2. stream.term \in {0, made}
    <3>1. stream.term <= made /\ stream.term \in Nat /\ (stream.term # 0 => made <= stream.term)
      BY <1>2, <1>3 DEF FeedInv, FlowFits, NetTypes, Streams
    <3> QED
      BY <1>1, <3>1
  <2>3. stream.term = made => stream.queue = <<>> /\ ~Live
    BY <1>2, <1>3 DEF FeedInv, FlowFits
  <2> QED
    BY <1>1, <1>4, <1>14, <2>1, <2>2, <2>3 DEF OverFits
<1>21. OpenFits'
  <2>1. feed'.opening # "no" <=> feed'.arrived /\ ~feed'.held
    BY <1>8 DEF FeedInv, OpenFits
  <2>2. feed'.answered => feed'.arrived /\ made' # 0 /\ \A k \in DOMAIN frames' : frames'[k].kind # "replay"
    BY <1>1, <1>4, <1>8, <1>12 DEF FeedInv, OpenFits, Thins, OfStream
  <2>3. feed'.opening # "no" /\ ~feed'.early => feed'.answered
    BY <1>1, <1>8 DEF FeedInv, OpenFits, Feeds
  <2>4. feed'.opening = "parsed" /\ ~feed'.early =>
          \A k \in DOMAIN session'.input : session'.input[k].kind # "replay"
    <3> SUFFICES ASSUME feed'.opening = "parsed", ~feed'.early
                 PROVE  \A k \in DOMAIN session'.input : session'.input[k].kind # "replay"
      OBVIOUS
    <3>1. feed.opening = "parsed" /\ ~feed.early
      BY <1>8
    <3>2. ~feed.held /\ \A k \in DOMAIN session.input : session.input[k].kind # "replay"
      BY <3>1 DEF FeedInv, OpenFits
    <3>3. /\ Len(session.input) \in Nat /\ DOMAIN session.input = 1..Len(session.input)
          /\ DOMAIN session'.input = 1..(Len(session.input) + 1)
          /\ \A k \in 1..Len(session.input) : session'.input[k] = session.input[k]
          /\ session'.input[Len(session.input) + 1] = piece
      <4>1. session'.input = Append(session.input, piece) /\ piece \in Pieces
        BY <1>6, <1>10, <3>2
      <4> QED
        BY <1>9, <4>1, OneMore
    <3>4. \A k \in 1..(Len(session.input) + 1) : k \in 1..Len(session.input) \/ k = Len(session.input) + 1
      BY <3>3
    <3> QED
      BY <1>6, <3>2, <3>3, <3>4
  <2>5. feed'.open => feed'.opening = "parsed" /\ (~feed'.early => ~session'.answers)
    BY <1>8, <1>10 DEF FeedInv, OpenFits
  <2>6. leaked' = FALSE
    BY <1>1 DEF FeedInv, OpenFits
  <2> QED
    BY <2>1, <2>2, <2>3, <2>4, <2>5, <2>6 DEF OpenFits
<1> QED
  BY <1>13, <1>15, <1>16, <1>18, <1>20, <1>21 DEF FeedInv, OrderFits

--------------------------------------------------------------------------------
LEMMA InitFits == Init => FeedInv
<1> SUFFICES ASSUME Init PROVE FeedInv
  OBVIOUS
<1>1. /\ daemon = [run |-> 1, up |-> TRUE, due |-> TRUE] /\ stream = NoStream /\ frames = <<>>
      /\ reports = <<>> /\ known = None /\ attached = FALSE
      /\ window = [open |-> TRUE, redial |-> FALSE]
      /\ pane = Saved /\ made = 0 /\ feed = NewFeed /\ session = NewSession /\ surface = None
      /\ pty = Saved /\ leaked = FALSE /\ events = 0
  BY DEF Init
<1>2. /\ Saved \in Grid /\ events \in 0..MaxEvents /\ 1 \in Nat \ {0}
  BY <1>1, FeedAssumption
<1>3. /\ stream \in Streams /\ stream.term = 0 /\ stream.run = 0 /\ stream.queue = <<>>
  BY <1>1, EmptySeq DEF NoStream, Streams
<1>4. /\ feed \in Feeds /\ feed.backlog = <<>> /\ feed.held = TRUE /\ feed.exit = None
      /\ feed.laidOut = None /\ feed.reported = None /\ feed.sized = FALSE /\ feed.arrived = FALSE
      /\ feed.open = FALSE /\ feed.timer = "off" /\ feed.opening = "no" /\ feed.reporting = None
      /\ feed.answered = FALSE /\ feed.early = FALSE /\ feed.got = 0
  BY <1>1, EmptySeq DEF NewFeed, Feeds
<1>5. /\ session \in Sessions /\ session.input = <<>> /\ session.parsed = <<>>
      /\ session.narrow = FALSE /\ session.answers = FALSE
  BY <1>1, EmptySeq DEF NewSession, Sessions
<1>6. NetTypes
  BY <1>1, <1>2, <1>3, EmptySeq DEF NetTypes
<1>7. AppTypes
  BY <1>1, <1>2, EmptySeq DEF AppTypes
<1>8. TermTypes
  BY <1>1, <1>4, <1>5 DEF TermTypes
<1>9. GridFits
  BY <1>1, <1>4, <1>5 DEF GridFits, Unsized
<1>10. PtyFits
  BY <1>1, <1>3 DEF PtyFits, Live
<1>11. FlowFits
  BY <1>1, <1>3 DEF FlowFits
<1>12. OrderFits
  <2>1. Passed = <<>>
    BY <1>5, ConcatEmptySeq, EmptySeq DEF Passed
  <2>2. ~Over
    BY <1>4, <2>1 DEF Over
  <2>3. Len(<<>>) = 0 /\ DOMAIN <<>> = {}
    OBVIOUS
  <2>4. HeldFits
    BY <1>4, <1>5, <2>3, FeedAssumption DEF HeldFits, Newest
  <2> QED
    BY <1>4, <2>2, <2>4 DEF OrderFits, PassedFits, OverFits
<1>13. OpenFits
  BY <1>1, <1>4, <1>5 DEF OpenFits
<1> QED
  BY <1>6, <1>7, <1>8, <1>9, <1>10, <1>11, <1>12, <1>13 DEF FeedInv

LEMMA MainFits ==
  ASSUME FeedInv, Main
  PROVE  FeedInv'
<1>1. CASE OnFrame
  <2>1. OnUp \/ OnList \/ OnExited
    BY <1>1 DEF OnFrame
  <2> QED
    BY <1>1, <2>1, OnUpFits, OnListFits, OnExitedFits
<1>2. CASE OnGrid
  BY <1>2, OnGridFits
<1>3. CASE LaidOut
  BY <1>3, LaidOutFits
<1>4. CASE Report
  BY <1>4, ReportFits
<1>5. CASE Waited
  BY <1>5, WaitedFits
<1>6. CASE OpenWriteback
  BY <1>6, OpenWritebackFits
<1> QED
  BY <1>1, <1>2, <1>3, <1>4, <1>5, <1>6 DEF Main

LEMMA StutterFits ==
  ASSUME FeedInv, UNCHANGED feedVars
  PROVE  FeedInv'
<1>1. /\ UNCHANGED <<netVars, appVars, session, surface, feed, pty, leaked, events>>
      /\ UNCHANGED <<netVars, made, pane, pty, session, leaked>>
  BY DEF feedVars, termVars, appVars
<1>2. SameButGrid
  BY <1>1 DEF SameButGrid
<1>3. NetTypes' /\ AppTypes' /\ TermTypes'
  BY <1>1 DEF FeedInv, NetTypes, AppTypes, TermTypes, netVars, appVars
<1>4. GridFits'
  BY <1>1, GridKept DEF FeedInv, appVars
<1>5. FlowFits' /\ PtyFits' /\ OrderFits' /\ OpenFits'
  BY <1>1, <1>2, SameButGridFits
<1> QED
  BY <1>3, <1>4, <1>5 DEF FeedInv

\* The inductive invariant of a terminal of the macOS client.
THEOREM FeedInductive == Spec => []FeedInv
<1>1. ASSUME FeedInv, [Next]_feedVars PROVE FeedInv'
  <2>1. CASE Prints
    BY <1>1, <2>1, PrintsFits
  <2>2. CASE Exits
    BY <1>1, <2>2, ExitsFits
  <2>3. CASE Restart
    BY <1>1, <2>3, RestartFits
  <2>4. CASE Daemon
    BY <1>1, <2>4, ForwardFits, TellFits DEF Daemon
  <2>5. CASE Deliver
    BY <1>1, <2>5, DeliverFits
  <2>6. CASE Drop
    BY <1>1, <2>6, DropFits
  <2>7. CASE Redial
    BY <1>1, <2>7, RedialFits
  <2>8. CASE Main
    BY <1>1, <2>8, MainFits
  <2>9. CASE WindowClosed
    BY <1>1, <2>9, WindowClosedFits
  <2>10. CASE WindowAppeared
    BY <1>1, <2>10, WindowAppearedFits
  <2>11. CASE LayOut(FALSE) \/ LayOut(TRUE)
    BY <1>1, <2>11, LayOutFits
  <2>12. CASE Release
    BY <1>1, <2>12, ReleaseFits
  <2>13. CASE Io
    BY <1>1, <2>13, ResizedFits, AppliesFits DEF Io
  <2>14. CASE Parser
    BY <1>1, <2>14, ParsesFits, AnswersFits DEF Parser
  <2>15. CASE UNCHANGED feedVars
    BY <1>1, <2>15, StutterFits
  <2> QED
    BY <1>1, <2>1, <2>2, <2>3, <2>4, <2>5, <2>6, <2>7, <2>8, <2>9, <2>10, <2>11, <2>12, <2>13,
       <2>14, <2>15 DEF Next
<1> QED
  BY <1>1, InitFits, PTL DEF Spec

\* The types, with the bounds that the events set.
THEOREM FeedTyped == Spec => []FeedTypeOK
<1>1. FeedInv => FeedTypeOK
  <2> SUFFICES ASSUME FeedInv PROVE FeedTypeOK
    OBVIOUS
  <2>1. daemon \in [run : 1..(MaxEvents + 1), up : BOOLEAN, due : BOOLEAN]
    <3>1. /\ daemon \in [run : Nat \ {0}, up : BOOLEAN, due : BOOLEAN] /\ daemon.run <= events + 1
          /\ events \in 0..MaxEvents /\ MaxEvents \in Nat
      BY FeedAssumption DEF FeedInv, NetTypes
    <3>2. daemon.run \in 1..(MaxEvents + 1)
      BY <3>1
    <3> QED
      BY <3>1, <3>2
  <2>2. stream.term \in 0..made
    <3>1. stream.term \in Nat /\ made \in Nat /\ stream.term <= made
      BY DEF FeedInv, NetTypes, AppTypes, FlowFits, Streams
    <3> QED
      BY <3>1
  <2>3. /\ feed.laidOut \in Grid \cup {None} /\ feed.reported \in Grid \cup {Default, None}
        /\ feed.timer \in {"off", "armed", "ripe"} /\ feed.opening \in {"no", "settled", "parsed"}
    BY DEF FeedInv, TermTypes, Feeds, Wide
  <2> QED
    BY <2>1, <2>2, <2>3 DEF FeedInv, NetTypes, AppTypes, OpenFits, FeedTypeOK
<1> QED
  BY <1>1, FeedInductive, PTL

\* A terminal parses what its feed received, in order, but for the oldest of what was held
\* beyond the limit; the end of its run comes last (AttachFeed's receive, release, finish).
THEOREM FeedStaysInOrder == Spec => []FeedKeepsOrder
<1>1. FeedInv => FeedKeepsOrder
  <2> SUFFICES ASSUME FeedInv PROVE FeedKeepsOrder
    OBVIOUS
  <2> DEFINE all == session.parsed \o session.input \o feed.backlog
  <2>1. /\ feed.backlog \in Seq(Pieces) /\ session.parsed \in Seq(Pieces)
        /\ session.input \in Seq(Pieces) /\ feed.got \in Nat
    BY DEF FeedInv, TermTypes, Feeds, Sessions
  <2>2. Numbered(all, feed.got) /\ EndsWithExit(all)
    <3>1. CASE feed.held
      <4>1. session.parsed = <<>> /\ session.input = <<>> /\ Newest(feed.backlog, feed.got)
        BY <3>1 DEF FeedInv, OrderFits, HeldFits
      <4>2. all = feed.backlog
        <5>1. <<>> \o <<>> = <<>> /\ <<>> \o feed.backlog = feed.backlog
          BY <2>1, ConcatEmptySeq, EmptySeq
        <5> QED
          BY <4>1, <5>1
      <4>3. EndsWithExit(feed.backlog)
        BY <4>1 DEF Newest, EndsWithExit
      <4> QED
        BY <2>1, <4>1, <4>2, <4>3, BacklogNumbered
    <3>2. CASE ~feed.held
      <4>1. feed.backlog = <<>> /\ Numbered(Passed, feed.got) /\ EndsWithExit(Passed)
        BY <3>2 DEF FeedInv, OrderFits, HeldFits, PassedFits
      <4>2. all = Passed
        <5>1. Passed \in Seq(Pieces)
          BY <2>1, ConcatProperties DEF Passed
        <5>2. Passed \o <<>> = Passed
          BY <5>1, ConcatEmptySeq
        <5> QED
          BY <4>1, <5>2 DEF Passed
      <4> QED
        BY <4>1, <4>2
    <3> QED
      BY <3>1, <3>2
  <2> QED
    BY <2>2 DEF FeedKeepsOrder, Numbered, EndsWithExit, Chunks
<1> QED
  BY <1>1, FeedInductive, PTL

\* Nothing is parsed at the default grid, and the PTY is never told it (matchIfLaidOut).
THEOREM DefaultGridStaysUnseen == Spec => []DefaultGridUnseen
<1>1. FeedInv => DefaultGridUnseen
  BY FeedAssumption DEF FeedInv, GridFits, AppTypes, DefaultGridUnseen
<1> QED
  BY <1>1, FeedInductive, PTL

\* No answer to history reaches the PTY through a feed that settled on its own replay
\* (allowsWriteback, replayParsed).
THEOREM HistoryStaysUnanswered == Spec => []HistoryUnanswered
<1>1. FeedInv => HistoryUnanswered
  BY DEF FeedInv, OpenFits, HistoryUnanswered
<1> QED
  BY <1>1, FeedInductive, PTL

\* When all is quiet the feed has matched its grid, and told it.
LEMMA QuietIsSized ==
  ASSUME FeedInv, Quiet
  PROVE  feed.sized /\ (~feed.crossed => pane = surface.grid)
<1>1. /\ surface # None /\ SurfaceFits /\ SizedFits
      /\ surface.laid /\ surface.resizes = <<>> /\ surface.resizing = None /\ surface.sizes = <<>>
      /\ reports = <<>> /\ feed.reporting = None
  BY DEF FeedInv, GridFits, Quiet, Ready
<1>2. feed.reported = feed.laidOut /\ feed.laidOut \in Grid /\ feed.reported # None
  BY <1>1, FeedAssumption DEF SurfaceFits, Asked, Shown
<1>3. feed.sized /\ feed.reported = surface.grid
  BY <1>1, <1>2 DEF SurfaceFits, SizedFits
<1>4. ~feed.crossed => pane = feed.reported
  BY <1>1, <1>3 DEF SizedFits, Told
<1> QED
  BY <1>1, <1>3, <1>4

\* When all is quiet the PTY of a run that is being streamed has the grid of the surface
\* (laidOut, resized, report and AppModel's Resize).
THEOREM PtyKeepsTheGrid == Spec => []PtyHasTheGrid
<1>1. FeedInv => PtyHasTheGrid
  <2> SUFFICES ASSUME FeedInv, Quiet, daemon.up, stream.run = daemon.run, ~feed.crossed
               PROVE  pty = surface.grid
    BY DEF PtyHasTheGrid
  <2>1. pane = surface.grid
    BY QuietIsSized
  <2> QED
    BY <2>1 DEF FeedInv, PtyFits, Live
<1> QED
  BY <1>1, FeedInductive, PTL

\* A terminal whose Attach was answered takes what is typed when nothing is left to happen
\* (sized, release, settle, replayParsed).
THEOREM ReplayGetsShown == Spec => []ReplayIsShown
<1>1. FeedInv => ReplayIsShown
  <2> SUFFICES ASSUME FeedInv, Idle, feed.answered PROVE feed.open
    BY DEF ReplayIsShown
  <2>1. feed.sized
    BY QuietIsSized DEF Idle
  <2>2. feed.timer # "off"
    BY <2>1 DEF FeedInv, GridFits, Unsized, SizedFits
  <2>3. ~feed.held
    BY <2>2 DEF Idle
  <2>4. feed.opening # "no"
    BY <2>3 DEF FeedInv, OpenFits
  <2> QED
    BY <2>4 DEF Idle
<1> QED
  BY <1>1, FeedInductive, PTL
================================================================================
