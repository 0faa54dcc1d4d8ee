------------------------- MODULE ActivityTrackerProofs -------------------------
(***************************************************************************)
(* What the daemon shows of an agent, for any screens it may paint, any    *)
(* command line that runs an agent and any lengths of the grace and hold.  *)
(***************************************************************************)
EXTENDS ActivityTracker, SequenceTheorems, FiniteSetTheorems, WellFoundedInduction, TLAPS

\* The least and the greatest of some places of a sequence.
LEMMA LeastPlace ==
  ASSUME NEW S \in SUBSET Nat, S # {}
  PROVE  Min(S) \in S /\ \A i \in S : Min(S) <= i
<1>1. IsWellFoundedOn(OpToRel(<, Nat), Nat)
  BY NatLessThanWellFounded
<1>2. PICK x \in S : \A y \in S : ~(<<y, x>> \in OpToRel(<, Nat))
  BY <1>1, WFMin
<1>3. \A y \in S : ~(y < x)
  BY <1>2 DEF OpToRel
<1>4. \A y \in S : x <= y
  BY <1>3
<1>5. \E m \in S : \A y \in S : m <= y
  BY <1>4
<1> QED
  BY <1>5 DEF Min

LEMMA GreatestUpTo ==
  ASSUME NEW n \in Nat, NEW S \in SUBSET (0..n), S # {}
  PROVE  Max(S) \in S /\ \A i \in S : i <= Max(S)
<1> DEFINE T == {m \in 0..n : n - m \in S}
<1>1. T \in SUBSET Nat /\ T # {}
  <2>1. PICK i \in S : TRUE
    OBVIOUS
  <2>2. n - i \in 0..n /\ n - (n - i) = i
    BY <2>1
  <2>3. n - i \in T
    BY <2>1, <2>2
  <2>4. T \in SUBSET Nat
    OBVIOUS
  <2> HIDE DEF T
  <2> QED
    BY <2>3, <2>4
<1>2. Min(T) \in T /\ \A m \in T : Min(T) <= m
  BY <1>1, LeastPlace
<1>3. \A i \in S : n - i \in T
  OBVIOUS
<1>4. \A i \in S : Min(T) <= n - i
  BY <1>2, <1>3
<1> HIDE DEF T
<1>5. Min(T) \in 0..n /\ n - Min(T) \in S
  BY <1>2 DEF T
<1>6. \A i \in S : i <= n - Min(T)
  BY <1>4, <1>5
<1>7. \E m \in S : \A i \in S : m >= i
  BY <1>5, <1>6
<1> QED
  BY <1>7 DEF Max

LEMMA GreatestPlace ==
  ASSUME NEW n \in Nat, NEW S \in SUBSET (1..n), S # {}
  PROVE  Max(S) \in S /\ \A i \in S : i <= Max(S)
<1>1. S \in SUBSET (0..n)
  OBVIOUS
<1> QED
  BY <1>1, GreatestUpTo

--------------------------------------------------------------------------------
\* A view of a screen is a sequence of lines.
Rows == Seq(SUBSET STRING)

LEMMA SnapshotIsRows ==
  ASSUME NEW rows \in Rows
  PROVE  Snapshot(rows) \in Rows
<1> DEFINE filled == {i \in DOMAIN rows : rows[i] # {}}
<1>1. CASE filled = {}
  BY <1>1 DEF Snapshot, Rows
<1>2. CASE filled # {}
  <2>1. Len(rows) \in Nat /\ filled \in SUBSET (1..Len(rows))
    BY LenProperties DEF Rows
  <2>2. Max(filled) \in 1..Len(rows)
    BY <1>2, <2>1, GreatestPlace
  <2> HIDE DEF filled
  <2>3. \A k \in 1..Len(rows) : SubSeq(rows, 1, k) \in Rows
    BY <2>1 DEF Rows
  <2> QED
    BY <1>2, <2>2, <2>3 DEF Snapshot, filled
<1> QED
  BY <1>1, <1>2

\* A region a view can be cut into.
IsRegion(v, r) == IsSlice(v, r) /\ r.to \in Nat

LEMMA RegionIsSlice ==
  ASSUME NEW v, v.lines \in Rows
  PROVE  /\ \A n \in Nat : IsRegion(v, Bottom(v, n)) /\ IsRegion(v, Top(v, n))
         /\ \A tell : IsRegion(v, AfterLast(v, tell))
         /\ IsRegion(v, PromptBoxBody(v))
         /\ IsRegion(v, LastLineAbovePromptBox(v))
         /\ IsRegion(v, BeforeCodexPrompt(v))
<1> DEFINE n == Len(v.lines)
<1>1. n \in Nat /\ DOMAIN v.lines = 1..n /\ End(v) = n + 1
  BY LenProperties DEF Rows, End
<1> HIDE DEF n
<1>2. \A a \in 1..(n + 1), b \in 1..(n + 1) : a <= b => IsRegion(v, Slice(a, b))
  BY <1>1 DEF IsRegion, IsSlice, Slice
<1>3. \A S \in SUBSET (1..n) : S # {} => Min(S) \in S /\ Max(S) \in S
  <2>1. \A S \in SUBSET (1..n) : S \in SUBSET Nat
    BY <1>1
  <2> QED
    BY <1>1, <2>1, LeastPlace, GreatestPlace
<1>4. Filled(v) \in SUBSET (1..n) /\ \A tell : Telling(v, tell) \in SUBSET (1..n)
  BY <1>1 DEF Filled, Telling
<1>5. IsRegion(v, Nothing)
  <2>1. 1 \in 1..(n + 1) /\ 1 <= 1
    BY <1>1
  <2>2. IsRegion(v, Slice(1, 1))
    BY <1>2, <2>1
  <2> QED
    BY <2>2 DEF Nothing
<1>6. ASSUME NEW m \in Nat PROVE IsRegion(v, Bottom(v, m)) /\ IsRegion(v, Top(v, m))
  <2> DEFINE starts == {i \in Filled(v) : Cardinality({j \in Filled(v) : j >= i}) <= m}
             ends == {i \in Filled(v) : Cardinality({j \in Filled(v) : j <= i}) <= m}
  <2>1. starts \in SUBSET (1..n) /\ ends \in SUBSET (1..n)
    BY <1>4
  <2> HIDE DEF starts, ends
  <2>2. starts # {} => IsRegion(v, Slice(Min(starts), End(v)))
    <3> HAVE starts # {}
    <3>1. Min(starts) \in 1..n
      BY <1>3, <2>1
    <3> QED
      BY <1>1, <1>2, <3>1
  <2>3. ends # {} => IsRegion(v, Slice(1, Max(ends) + 1))
    <3> HAVE ends # {}
    <3>1. Max(ends) \in 1..n
      BY <1>3, <2>1
    <3> QED
      BY <1>1, <1>2, <3>1
  <2> QED
    BY <1>5, <2>2, <2>3 DEF starts, ends, Bottom, Top
<1>7. ASSUME NEW tell PROVE IsRegion(v, AfterLast(v, tell))
  <2>1. CASE Telling(v, tell) = {}
    BY <1>1, <1>2, <2>1 DEF AfterLast
  <2>2. CASE Telling(v, tell) # {}
    <3>1. Max(Telling(v, tell)) \in 1..n
      BY <1>3, <1>4, <2>2
    <3> QED
      BY <1>1, <1>2, <2>2, <3>1 DEF AfterLast
  <2> QED
    BY <2>1, <2>2
<1>8. IsRegion(v, PromptBoxBody(v))
  <2>1. CASE PromptBoxTop(v) = {}
    BY <1>5, <2>1 DEF PromptBoxBody
  <2>2. CASE PromptBoxTop(v) # {}
    <3> DEFINE top == Max(PromptBoxTop(v))
               below == {i \in Telling(v, "rule") : i > top}
    <3>1. PromptBoxTop(v) \in SUBSET (1..n)
      BY <1>4 DEF PromptBoxTop
    <3>2. top \in 1..n
      BY <1>3, <2>2, <3>1
    <3>3. below \in SUBSET (1..n) /\ \A i \in below : i >= top + 1
      BY <1>4, <3>2
    <3> HIDE DEF top, below
    <3>4. below # {} => Min(below) \in (top + 1)..n
      <4> HAVE below # {}
      <4>1. Min(below) \in below
        BY <1>3, <3>3
      <4>2. Min(below) \in 1..n /\ Min(below) >= top + 1
        BY <3>3, <4>1
      <4> QED
        BY <1>1, <3>2, <4>2
    <3>5. IsRegion(v, Slice(top + 1, IF below = {} THEN End(v) ELSE Min(below)))
      BY <1>1, <1>2, <3>2, <3>4
    <3> QED
      BY <2>2, <3>5 DEF PromptBoxBody, top, below
  <2> QED
    BY <2>1, <2>2
<1>9. IsRegion(v, LastLineAbovePromptBox(v))
  <2> DEFINE above == {i \in Filled(v) : \A t \in PromptBoxTop(v) : i < t}
  <2>1. above \in SUBSET (1..n)
    BY <1>4
  <2> HIDE DEF above
  <2>2. above # {} => Max(above) \in 1..n
    BY <1>3, <2>1
  <2>3. above # {} => IsRegion(v, Slice(Max(above), Max(above) + 1))
    BY <1>1, <1>2, <2>2
  <2> QED
    BY <1>5, <2>3 DEF LastLineAbovePromptBox, above
<1>10. IsRegion(v, BeforeCodexPrompt(v))
  <2>1. CodexPrompt(v) \in SUBSET (1..n)
    BY <1>4 DEF CodexPrompt
  <2>2. CodexPrompt(v) # {} => Max(CodexPrompt(v)) \in 1..n
    BY <1>3, <2>1
  <2> QED
    BY <1>1, <1>2, <2>2 DEF BeforeCodexPrompt
<1> QED
  BY <1>6, <1>7, <1>8, <1>9, <1>10

\* Whatever is on the screen, and whatever the windows are, every region the rules look at
\* can be sliced out of it.
THEOREM ScreensCanBeSliced == RegionsAreSlices
<1> SUFFICES ASSUME NEW s \in Screens
             PROVE  LET v == View(s.rows, s.title) IN
                      /\ \A n \in {Near, Mid, Far, Page} :
                           IsSlice(v, Bottom(v, n)) /\ IsSlice(v, Top(v, n))
                      /\ IsSlice(v, AfterLastRule(v)) /\ IsSlice(v, AfterLastCodexPrompt(v))
                      /\ IsSlice(v, PromptBoxBody(v)) /\ IsSlice(v, LastLineAbovePromptBox(v))
                      /\ IsSlice(v, BeforeCodexPrompt(v))
  BY DEF RegionsAreSlices
<1> DEFINE v == View(s.rows, s.title)
<1>1. v.lines \in Rows
  BY ScreenAssumption, SnapshotIsRows DEF View, Rows
<1> HIDE DEF v
<1>2. \A n \in {Near, Mid, Far, Page} : n \in Nat
  BY WindowAssumption
<1> QED
  BY <1>1, <1>2, RegionIsSlice DEF IsRegion, AfterLastRule, AfterLastCodexPrompt, v

--------------------------------------------------------------------------------
\* A line of the conversation on top of a screen moves all that was there down by one.
OnTop(v, w, line) ==
  /\ v.lines \in Rows /\ w.lines \in Rows /\ line \in SUBSET STRING
  /\ Len(w.lines) = Len(v.lines) + 1 /\ w.lines[1] = line
  /\ \A i \in 1..Len(v.lines) : w.lines[i + 1] = v.lines[i]
  /\ w.title = v.title

Down(S) == {i + 1 : i \in S}
Lower(r) == Slice(r.from + 1, r.to + 1)

LEMMA DownCounts ==
  ASSUME NEW n \in Nat, NEW S \in SUBSET (1..n)
  PROVE  /\ IsFiniteSet(S) /\ IsFiniteSet(Down(S)) /\ Cardinality(S) \in Nat
         /\ Cardinality(Down(S)) = Cardinality(S)
         /\ 1 \notin Down(S) /\ (Down(S) = {} <=> S = {})
<1>1. IsFiniteSet(S) /\ Cardinality(S) \in Nat
  <2>1. IsFiniteSet(1..n)
    BY FS_Interval
  <2>2. IsFiniteSet(S)
    BY <2>1, FS_Subset
  <2> QED
    BY <2>2, FS_CardinalityType
<1> DEFINE f == [i \in S |-> i + 1]
<1>2. f \in Bijection(S, Down(S))
  BY DEF Bijection, Injection, Surjection, IsInjective, Down
<1>3. IsFiniteSet(Down(S)) /\ Cardinality(Down(S)) = Cardinality(S)
  BY <1>1, <1>2, FS_Bijection DEF ExistsBijection
<1>4. \A i \in S : i \in Nat /\ i # 0
  OBVIOUS
<1>5. 1 \notin Down(S)
  BY <1>4 DEF Down
<1>6. Down(S) = {} <=> S = {}
  BY DEF Down
<1> QED
  BY <1>1, <1>3, <1>5, <1>6

LEMMA DownKeepsEnds ==
  ASSUME NEW n \in Nat, NEW S \in SUBSET (1..n), S # {}
  PROVE  Min(Down(S)) = Min(S) + 1 /\ Max(Down(S)) = Max(S) + 1
<1>1. Min(S) \in S /\ (\A i \in S : Min(S) <= i) /\ Max(S) \in S /\ (\A i \in S : i <= Max(S))
  <2>1. S \in SUBSET Nat
    OBVIOUS
  <2> QED
    BY <2>1, LeastPlace, GreatestPlace
<1>2. Down(S) \in SUBSET (1..(n + 1)) /\ Down(S) # {} /\ Down(S) \in SUBSET Nat /\ n + 1 \in Nat
  <2>1. \A i \in S : i + 1 \in 1..(n + 1) /\ i + 1 \in Nat
    OBVIOUS
  <2>2. PICK i \in S : TRUE
    OBVIOUS
  <2>3. i + 1 \in Down(S)
    BY DEF Down
  <2>4. \A j \in Down(S) : j \in 1..(n + 1) /\ j \in Nat
    BY <2>1 DEF Down
  <2> QED
    BY <2>3, <2>4
<1>3. /\ Min(Down(S)) \in Down(S) /\ \A i \in Down(S) : Min(Down(S)) <= i
      /\ Max(Down(S)) \in Down(S) /\ \A i \in Down(S) : i <= Max(Down(S))
  BY <1>2, LeastPlace, GreatestPlace
<1>4. Min(S) + 1 \in Down(S) /\ Max(S) + 1 \in Down(S)
  BY <1>1 DEF Down
<1>5. PICK a \in S, b \in S : Min(Down(S)) = a + 1 /\ Max(Down(S)) = b + 1
  BY <1>3 DEF Down
<1>6. Min(S) \in Nat /\ Max(S) \in Nat /\ a \in Nat /\ b \in Nat
  <2>1. \A i \in S : i \in Nat
    OBVIOUS
  <2> QED
    BY <1>1, <1>5, <2>1
<1> QED
  BY <1>1, <1>3, <1>4, <1>5, <1>6

\* What is told where: as before, one line further down, or by the new line.
LEMMA PlacesMoveDown ==
  ASSUME NEW v, NEW w, NEW line, OnTop(v, w, line)
  PROVE  /\ Len(v.lines) \in Nat
         /\ DOMAIN v.lines = 1..Len(v.lines) /\ DOMAIN w.lines = 1..(Len(v.lines) + 1)
         /\ \A tell : /\ Telling(v, tell) \in SUBSET (1..Len(v.lines))
                      /\ Telling(w, tell) = Down(Telling(v, tell)) \cup {i \in {1} : tell \in line}
         /\ Filled(v) \in SUBSET (1..Len(v.lines))
         /\ Filled(w) = Down(Filled(v)) \cup {i \in {1} : line # {}}
         /\ End(v) = Len(v.lines) + 1 /\ End(w) = End(v) + 1
<1> DEFINE n == Len(v.lines)
<1>1. n \in Nat /\ DOMAIN v.lines = 1..n /\ DOMAIN w.lines = 1..(n + 1)
  BY LenProperties DEF OnTop, Rows
<1>2. w.lines[1] = line /\ \A i \in 1..n : w.lines[i + 1] = v.lines[i]
  BY DEF OnTop
<1> HIDE DEF n
<1>3. \A j \in 1..(n + 1) : j = 1 \/ (j - 1 \in 1..n /\ j = (j - 1) + 1)
  BY <1>1
<1>4. 1 \in 1..(n + 1) /\ \A i \in 1..n : i + 1 \in 1..(n + 1)
  BY <1>1
<1>5. ASSUME NEW tell
      PROVE  Telling(w, tell) = Down(Telling(v, tell)) \cup {i \in {1} : tell \in line}
  <2>1. \A j \in 1..(n + 1) : tell \in w.lines[j] =>
          j \in Down({i \in 1..n : tell \in v.lines[i]}) \cup {i \in {1} : tell \in line}
    BY <1>2, <1>3 DEF Down
  <2>2. \A j \in Down({i \in 1..n : tell \in v.lines[i]}) \cup {i \in {1} : tell \in line} :
          j \in 1..(n + 1) /\ tell \in w.lines[j]
    BY <1>2, <1>4 DEF Down
  <2> QED
    BY <1>1, <2>1, <2>2 DEF Telling
<1>6. Filled(w) = Down(Filled(v)) \cup {i \in {1} : line # {}}
  <2>1. \A j \in 1..(n + 1) : w.lines[j] # {} =>
          j \in Down({i \in 1..n : v.lines[i] # {}}) \cup {i \in {1} : line # {}}
    BY <1>2, <1>3 DEF Down
  <2>2. \A j \in Down({i \in 1..n : v.lines[i] # {}}) \cup {i \in {1} : line # {}} :
          j \in 1..(n + 1) /\ w.lines[j] # {}
    BY <1>2, <1>4 DEF Down
  <2> QED
    BY <1>1, <2>1, <2>2 DEF Filled, IsBlank
<1>7. Filled(v) \in SUBSET (1..n) /\ \A tell : Telling(v, tell) \in SUBSET (1..n)
  BY <1>1 DEF Filled, Telling
<1>8. End(v) = n + 1 /\ End(w) = End(v) + 1
  BY DEF OnTop, End, n
<1> QED
  BY <1>1, <1>5, <1>6, <1>7, <1>8 DEF n

\* A region that has moved down has what it had.
LEMMA RegionMovesDown ==
  ASSUME NEW v, NEW w, NEW line, OnTop(v, w, line), NEW r, IsRegion(v, r)
  PROVE  /\ \A i \in Within(r) : i \in 1..Len(v.lines) /\ i + 1 \in Within(Lower(r))
         /\ \A j \in Within(Lower(r)) : j - 1 \in Within(r) /\ w.lines[j] = v.lines[j - 1]
         /\ \A i \in Within(r) : w.lines[i + 1] = v.lines[i]
         /\ \A tell : Has(w, Lower(r), tell) <=> Has(v, r, tell)
<1>1. Len(v.lines) \in Nat
  BY PlacesMoveDown
<1>2. r.from \in 1..r.to /\ r.to <= Len(v.lines) + 1 /\ r.from \in Nat /\ r.to \in Int
  BY <1>1 DEF IsRegion, IsSlice, End
<1>3. Lower(r).from = r.from + 1 /\ Lower(r).to = r.to + 1
  BY DEF Lower, Slice
<1>4. \A i \in Within(r) : i \in 1..Len(v.lines) /\ i + 1 \in Within(Lower(r))
  BY <1>1, <1>2, <1>3 DEF Within
<1>5. \A j \in Within(Lower(r)) : j - 1 \in Within(r) /\ j = (j - 1) + 1
  BY <1>1, <1>2, <1>3 DEF Within
<1>6. \A i \in Within(r) : w.lines[i + 1] = v.lines[i]
  BY <1>4 DEF OnTop
<1>7. \A j \in Within(Lower(r)) : w.lines[j] = v.lines[j - 1]
  BY <1>5, <1>6
<1> QED
  BY <1>4, <1>5, <1>6, <1>7 DEF Has

\* The whole screen has what it had, but for what the new line tells.
LEMMA ScreenKeepsTells ==
  ASSUME NEW v, NEW w, NEW line, OnTop(v, w, line), NEW tell, tell \notin line
  PROVE  Has(w, All(w), tell) <=> Has(v, All(v), tell)
<1>a. {i \in {1} : tell \in line} = {}
  OBVIOUS
<1>b. Len(w.lines) = Len(v.lines) + 1
  BY DEF OnTop
<1>1. /\ Len(v.lines) \in Nat /\ Len(w.lines) = Len(v.lines) + 1
      /\ Telling(w, tell) = Down(Telling(v, tell)) /\ Telling(v, tell) \in SUBSET (1..Len(v.lines))
      /\ DOMAIN v.lines = 1..Len(v.lines) /\ DOMAIN w.lines = 1..(Len(v.lines) + 1)
  <2>1. /\ Len(v.lines) \in Nat
        /\ DOMAIN v.lines = 1..Len(v.lines) /\ DOMAIN w.lines = 1..(Len(v.lines) + 1)
    BY PlacesMoveDown
  <2>2. /\ Telling(v, tell) \in SUBSET (1..Len(v.lines))
        /\ Telling(w, tell) = Down(Telling(v, tell)) \cup {i \in {1} : tell \in line}
    BY PlacesMoveDown
  <2> QED
    BY <1>a, <1>b, <2>1, <2>2
<1>2. Within(All(v)) = 1..Len(v.lines) /\ Within(All(w)) = 1..(Len(v.lines) + 1)
  BY <1>1 DEF Within, All, Slice, End
<1>3. (Has(v, All(v), tell) <=> Telling(v, tell) # {}) /\ (Has(w, All(w), tell) <=> Telling(w, tell) # {})
  BY <1>1, <1>2 DEF Has, Telling
<1> QED
  BY <1>1, <1>3 DEF Down

\* The last lines of a screen that are enough stay the last lines.
LEMMA BottomMovesDown ==
  ASSUME NEW v, NEW w, NEW line, OnTop(v, w, line), NEW m \in Nat \ {0},
         Cardinality(Filled(v)) >= m
  PROVE  Bottom(w, m) = Lower(Bottom(v, m))
<1> DEFINE n == Len(v.lines)
           F == Filled(v)
           G == Filled(w)
           FromOn(i) == {j \in F : j >= i}
           GFromOn(i) == {j \in G : j >= i}
           starts == {i \in F : Cardinality(FromOn(i)) <= m}
           wstarts == {i \in G : Cardinality(GFromOn(i)) <= m}
<1>1. /\ n \in Nat /\ F \in SUBSET (1..n)
      /\ G = Down(F) \cup {i \in {1} : line # {}}
      /\ End(w) = End(v) + 1
  BY PlacesMoveDown
<1>2. /\ IsFiniteSet(F) /\ IsFiniteSet(Down(F)) /\ Cardinality(Down(F)) = Cardinality(F)
      /\ Cardinality(F) \in Nat /\ 1 \notin Down(F)
  BY <1>1, DownCounts
<1>3. F # {}
  BY <1>2, FS_EmptySet
<1> HIDE DEF n, F, G
<1>4. \A i \in F : i \in Nat /\ i >= 1
  BY <1>1
<1>5. ASSUME NEW i \in F
      PROVE  Cardinality(GFromOn(i + 1)) = Cardinality(FromOn(i))
  <2>1. GFromOn(i + 1) = Down(FromOn(i))
    BY <1>1, <1>4 DEF Down
  <2>2. FromOn(i) \in SUBSET (1..n)
    BY <1>1
  <2> QED
    BY <1>1, <2>1, <2>2, DownCounts
<1>6. 1 \in G => Cardinality(GFromOn(1)) = Cardinality(F) + 1
  <2> HAVE 1 \in G
  <2>1. GFromOn(1) = Down(F) \cup {1}
    BY <1>1, <1>2, <1>4 DEF Down
  <2>2. Cardinality(Down(F) \cup {1}) = Cardinality(Down(F)) + 1
    BY <1>2, FS_AddElement
  <2> QED
    BY <1>2, <2>1, <2>2
<1>7. 1 \notin wstarts
  BY <1>2, <1>6 DEF F
<1>8. wstarts = Down(starts)
  <2>1. \A j \in wstarts : j \in Down(starts)
    <3> TAKE j \in wstarts
    <3>1. PICK i \in F : j = i + 1
      BY <1>1, <1>7 DEF Down
    <3>2. Cardinality(FromOn(i)) <= m
      BY <1>5, <3>1
    <3> QED
      BY <3>1, <3>2 DEF Down
  <2>2. \A i \in starts : i + 1 \in wstarts
    <3> TAKE i \in starts
    <3>1. i \in F /\ i + 1 \in G
      BY <1>1 DEF Down
    <3>2. Cardinality(GFromOn(i + 1)) <= m
      BY <1>5, <3>1
    <3> QED
      BY <3>1, <3>2
  <2> QED
    BY <2>1, <2>2 DEF Down
<1>9. starts # {}
  <2>1. Max(F) \in F /\ \A i \in F : i <= Max(F)
    BY <1>1, <1>3, GreatestPlace
  <2>2. FromOn(Max(F)) = {Max(F)}
    BY <1>4, <2>1
  <2>3. Cardinality(FromOn(Max(F))) = 1
    BY <2>2, FS_Singleton
  <2>4. Max(F) \in starts
    BY <2>1, <2>3
  <2> QED
    BY <2>4
<1>10. starts \in SUBSET (1..n)
  BY <1>1
<1>11. /\ Bottom(v, m) = IF starts = {} THEN Nothing ELSE Slice(Min(starts), End(v))
       /\ Bottom(w, m) = IF wstarts = {} THEN Nothing ELSE Slice(Min(wstarts), End(w))
  BY DEF Bottom, F, G
<1> HIDE DEF starts, wstarts
<1>12. wstarts # {} /\ Min(wstarts) = Min(starts) + 1
  BY <1>1, <1>8, <1>9, <1>10, DownCounts, DownKeepsEnds
<1> QED
  BY <1>1, <1>9, <1>11, <1>12 DEF Lower, Slice

\* The last of some lines stays the last.
LEMMA LastMovesDown ==
  ASSUME NEW n \in Nat, NEW S \in SUBSET (1..n), S # {}, NEW X \in SUBSET {1}
  PROVE  Max(Down(S) \cup X) = Max(S) + 1 /\ Max(S) \in 1..n
<1> DEFINE T == Down(S) \cup X
<1>1. Max(S) \in S /\ (\A i \in S : i <= Max(S)) /\ Max(S) \in 1..n
  BY GreatestPlace
<1>2. T \in SUBSET (1..(n + 1)) /\ Max(S) + 1 \in T /\ n + 1 \in Nat
  <2>1. \A i \in S : i + 1 \in 1..(n + 1)
    OBVIOUS
  <2>2. Down(S) \in SUBSET (1..(n + 1)) /\ Max(S) + 1 \in Down(S)
    BY <1>1, <2>1 DEF Down
  <2>3. n + 1 \in Nat /\ X \in SUBSET (1..(n + 1))
    OBVIOUS
  <2> QED
    BY <2>2, <2>3
<1>3. \A j \in T : j <= Max(S) + 1
  <2> TAKE j \in T
  <2>1. CASE j = 1
    BY <1>1, <2>1
  <2>2. CASE j # 1
    <3>1. PICK i \in S : j = i + 1
      BY <2>2 DEF Down
    <3>2. i <= Max(S) /\ i \in 1..n
      BY <1>1
    <3> QED
      BY <1>1, <3>1, <3>2
  <2> QED
    BY <2>1, <2>2
<1> HIDE DEF T
<1>4. Max(T) \in T /\ \A j \in T : j <= Max(T)
  BY <1>2, GreatestPlace
<1>5. Max(T) = Max(S) + 1
  <2>1. Max(S) \in Nat /\ Max(T) \in Nat
    <3>1. Max(S) \in 1..n /\ Max(T) \in 1..(n + 1)
      BY <1>1, <1>2, <1>4
    <3> QED
      BY <3>1
  <2> QED
    BY <1>2, <1>3, <1>4, <2>1
<1> QED
  BY <1>1, <1>5 DEF T

LEMMA AfterLastMovesDown ==
  ASSUME NEW v, NEW w, NEW line, OnTop(v, w, line), NEW tell, Telling(v, tell) # {}
  PROVE  AfterLast(w, tell) = Lower(AfterLast(v, tell))
<1> DEFINE S == Telling(v, tell)
           X == {i \in {1} : tell \in line}
           n == Len(v.lines)
<1>1. n \in Nat /\ S \in SUBSET (1..n) /\ End(w) = End(v) + 1
      /\ Telling(w, tell) = Down(S) \cup X
  BY PlacesMoveDown
<1>2. X \in SUBSET {1}
  OBVIOUS
<1> HIDE DEF S, X, n
<1>3. Max(Telling(w, tell)) = Max(S) + 1 /\ S # {}
  BY <1>1, <1>2, LastMovesDown DEF S
<1>4. Telling(w, tell) # {}
  BY <1>1, <1>3, DownCounts
<1> QED
  BY <1>1, <1>3, <1>4 DEF AfterLast, Lower, Slice, S

LEMMA OneLine ==
  ASSUME NEW S, NEW e \in S
  PROVE  <<e>> \in Seq(S) /\ Len(<<e>>) = 1 /\ <<e>>[1] = e
OBVIOUS

\* What is on the screen is cut off below the last line that is not blank, here and there.
LEMMA SnapshotMovesDown ==
  ASSUME NEW rows \in Rows, NEW line \in SUBSET STRING, NEW title, Snapshot(rows) # <<>>
  PROVE  OnTop(View(rows, title), View(<<line>> \o rows, title), line)
<1> DEFINE longer == <<line>> \o rows
           u == [lines |-> rows, title |-> title]
           t == [lines |-> longer, title |-> title]
           n == Len(rows)
           F == {i \in DOMAIN rows : rows[i] # {}}
           G == {i \in DOMAIN longer : longer[i] # {}}
           X == {i \in {1} : line # {}}
<1>1. n \in Nat /\ longer \in Rows /\ Len(longer) = n + 1 /\ longer[1] = line
      /\ \A i \in 1..n : longer[i + 1] = rows[i]
  <2>4. <<line>> \in Seq(SUBSET STRING) /\ Len(<<line>>) = 1 /\ <<line>>[1] = line
    BY OneLine
  <2>1. <<line>> \in Rows /\ Len(<<line>>) = 1 /\ <<line>>[1] = line /\ n \in Nat
    BY <2>4, LenProperties DEF Rows
  <2>2. longer \in Rows /\ Len(longer) = n + 1
        /\ \A i \in 1..(n + 1) : longer[i] = IF i <= 1 THEN <<line>>[i] ELSE rows[i - 1]
    <3>1. rows \in Seq(SUBSET STRING)
      BY DEF Rows
    <3>2. /\ longer \in Seq(SUBSET STRING) /\ Len(longer) = 1 + n
          /\ \A i \in 1..(1 + n) : longer[i] = IF i <= 1 THEN <<line>>[i] ELSE rows[i - 1]
      BY <2>4, <3>1, ConcatProperties
    <3>3. 1 + n = n + 1
      BY <2>1
    <3> QED
      BY <3>2, <3>3 DEF Rows
  <2>3. \A i \in 1..n : i + 1 \in 1..(n + 1) /\ ~(i + 1 <= 1) /\ (i + 1) - 1 = i
    BY <2>1
  <2> QED
    BY <2>1, <2>2, <2>3
<1>2. OnTop(u, t, line)
  BY <1>1 DEF OnTop
<1>3. /\ Filled(u) \in SUBSET (1..n)
      /\ Filled(t) = Down(Filled(u)) \cup X
  BY <1>2, PlacesMoveDown
<1>4. Filled(u) = F /\ Filled(t) = G
  BY DEF Filled, IsBlank
<1>5. X \in SUBSET {1}
  OBVIOUS
<1> HIDE DEF longer, n, F, G, X
<1>6. F # {}
  BY DEF Snapshot, F
<1>7. Max(G) = Max(F) + 1 /\ Max(F) \in 1..n
  BY <1>1, <1>3, <1>4, <1>5, <1>6, LastMovesDown
<1>8. G # {}
  <2>1. F \in SUBSET (1..n)
    BY <1>3, <1>4
  <2>2. Down(F) # {}
    BY <1>1, <1>6, <2>1, DownCounts
  <2> QED
    BY <1>3, <1>4, <2>2
<1>9. Snapshot(rows) = SubSeq(rows, 1, Max(F)) /\ Snapshot(longer) = SubSeq(longer, 1, Max(F) + 1)
  BY <1>6, <1>7, <1>8 DEF Snapshot, F, G
<1>10. Snapshot(rows) \in Rows /\ Snapshot(longer) \in Rows
  BY <1>1, SnapshotIsRows
<1>11. \A m \in 1..n : /\ Len(SubSeq(rows, 1, m)) = m
                       /\ \A i \in 1..m : SubSeq(rows, 1, m)[i] = rows[i]
  BY <1>1 DEF Rows, n
<1>12. \A m \in 1..(n + 1) : /\ Len(SubSeq(longer, 1, m)) = m
                             /\ \A i \in 1..m : SubSeq(longer, 1, m)[i] = longer[i]
  BY <1>1 DEF Rows
<1>13. Max(F) + 1 \in 1..(n + 1) /\ 1 \in 1..(Max(F) + 1)
       /\ \A i \in 1..Max(F) : i \in 1..n /\ i + 1 \in 1..(Max(F) + 1)
  BY <1>1, <1>7
<1>14. /\ Len(Snapshot(rows)) = Max(F) /\ Len(Snapshot(longer)) = Max(F) + 1
       /\ Snapshot(longer)[1] = line
       /\ \A i \in 1..Max(F) : Snapshot(longer)[i + 1] = Snapshot(rows)[i]
  BY <1>1, <1>7, <1>9, <1>11, <1>12, <1>13
<1> QED
  BY <1>10, <1>14 DEF OnTop, View, longer

\* A prompt box stays where it is, whatever the new line is.
LEMMA PromptBoxMovesDown ==
  ASSUME NEW v, NEW w, NEW line, OnTop(v, w, line), PromptBoxTop(v) # {}
  PROVE  PromptBoxTop(w) = Down(PromptBoxTop(v))
<1> DEFINE S == Telling(v, "rule")
           T == Telling(w, "rule")
           n == Len(v.lines)
           After(i) == {j \in S : j > i}
           TAfter(i) == {j \in T : j > i}
<1>1. n \in Nat /\ S \in SUBSET (1..n) /\ T = Down(S) \cup {i \in {1} : "rule" \in line}
  BY PlacesMoveDown
<1>2. /\ PromptBoxTop(v) = {i \in S : Cardinality(After(i)) = 1}
      /\ PromptBoxTop(w) = {i \in T : Cardinality(TAfter(i)) = 1}
  BY DEF PromptBoxTop
<1> HIDE DEF S, T, n
<1>3. \A i \in S : i \in Nat /\ i >= 1
  BY <1>1
<1>4. ASSUME NEW i \in S
      PROVE  Cardinality(TAfter(i + 1)) = Cardinality(After(i))
  <2>1. TAfter(i + 1) = Down(After(i))
    BY <1>1, <1>3 DEF Down
  <2>2. After(i) \in SUBSET (1..n)
    BY <1>1
  <2> QED
    BY <1>1, <2>1, <2>2, DownCounts
<1>5. 1 \notin PromptBoxTop(w)
  <2>1. PICK i \in S : Cardinality(After(i)) = 1
    BY <1>2
  <2>2. After(i) \in SUBSET (1..n) /\ i \notin After(i)
    <3>1. ~(i > i)
      BY <1>3
    <3> QED
      BY <1>1, <3>1
  <2>8. IsFiniteSet(After(i))
    BY <1>1, <2>2, DownCounts
  <2>9. Cardinality(After(i) \cup {i}) = Cardinality(After(i)) + 1
    BY <2>2, <2>8, FS_AddElement
  <2>3. Cardinality(After(i) \cup {i}) = 2
    BY <2>1, <2>9
  <2>4. After(i) \cup {i} \in SUBSET S
    OBVIOUS
  <2>5. IsFiniteSet(S) /\ Cardinality(S) \in Nat /\ Cardinality(Down(S)) = Cardinality(S)
    BY <1>1, DownCounts
  <2>6. Cardinality(S) >= 2
    BY <2>3, <2>4, <2>5, FS_Subset
  <2>7. TAfter(1) = Down(S)
    BY <1>1, <1>3 DEF Down
  <2> QED
    BY <1>2, <2>5, <2>6, <2>7
<1>6. \A j \in PromptBoxTop(w) : j \in Down(PromptBoxTop(v))
  <2> TAKE j \in PromptBoxTop(w)
  <2>1. PICK i \in S : j = i + 1
    BY <1>1, <1>2, <1>5 DEF Down
  <2>2. i \in PromptBoxTop(v)
    BY <1>2, <1>4, <2>1
  <2> QED
    BY <2>1, <2>2 DEF Down
<1>7. \A i \in PromptBoxTop(v) : i + 1 \in PromptBoxTop(w)
  <2> TAKE i \in PromptBoxTop(v)
  <2>1. i \in S /\ i + 1 \in T
    BY <1>1, <1>2 DEF Down
  <2>2. Cardinality(TAfter(i + 1)) = 1
    BY <1>2, <1>4, <2>1
  <2> QED
    BY <1>2, <2>1, <2>2
<1> QED
  BY <1>6, <1>7 DEF Down

LEMMA PromptBoxBodyMovesDown ==
  ASSUME NEW v, NEW w, NEW line, OnTop(v, w, line), PromptBoxTop(v) # {}
  PROVE  PromptBoxBody(w) = Lower(PromptBoxBody(v))
<1> DEFINE n == Len(v.lines)
           P == PromptBoxTop(v)
           S == Telling(v, "rule")
           T == Telling(w, "rule")
           below == {i \in S : i > Max(P)}
           wbelow == {i \in T : i > Max(P) + 1}
<1>1. /\ n \in Nat /\ S \in SUBSET (1..n) /\ T = Down(S) \cup {i \in {1} : "rule" \in line}
      /\ End(w) = End(v) + 1
  BY PlacesMoveDown
<1>2. PromptBoxTop(w) = Down(P)
  BY PromptBoxMovesDown
<1>3. P \in SUBSET S /\ P # {}
  BY DEF PromptBoxTop
<1> HIDE DEF n, P, S, T
<1>4. P \in SUBSET (1..n) /\ Max(P) \in P /\ Max(Down(P)) = Max(P) + 1 /\ Down(P) # {}
  BY <1>1, <1>3, GreatestPlace, DownKeepsEnds, DownCounts
<1>5. Max(P) \in Nat /\ Max(P) >= 1 /\ \A i \in S : i \in Nat /\ i >= 1
  <2>1. Max(P) \in 1..n /\ \A i \in S : i \in 1..n
    BY <1>1, <1>4
  <2> QED
    BY <1>1, <2>1
<1>6. wbelow = Down(below)
  BY <1>1, <1>5 DEF Down
<1>7. below \in SUBSET (1..n)
  BY <1>1
<1>8. /\ PromptBoxBody(v) = Slice(Max(P) + 1, IF below = {} THEN End(v) ELSE Min(below))
      /\ PromptBoxBody(w) = Slice(Max(P) + 2, IF wbelow = {} THEN End(w) ELSE Min(wbelow))
  <2>1. Max(P) + 1 + 1 = Max(P) + 2
    BY <1>5
  <2> QED
    BY <1>2, <1>3, <1>4, <2>1 DEF PromptBoxBody, P, S, T
<1> HIDE DEF below, wbelow
<1>9. /\ wbelow = {} <=> below = {}
      /\ below # {} => Min(wbelow) = Min(below) + 1
  BY <1>1, <1>6, <1>7, DownCounts, DownKeepsEnds
<1>10. Max(P) + 1 + 1 = Max(P) + 2
  BY <1>5
<1> QED
  BY <1>1, <1>8, <1>9, <1>10 DEF Lower, Slice

LEMMA LastLineAboveMovesDown ==
  ASSUME NEW v, NEW w, NEW line, OnTop(v, w, line), PromptBoxTop(v) # {},
         LastLineAbovePromptBox(v) # Nothing
  PROVE  LastLineAbovePromptBox(w) = Lower(LastLineAbovePromptBox(v))
<1> DEFINE n == Len(v.lines)
           P == PromptBoxTop(v)
           F == Filled(v)
           G == Filled(w)
           above == {i \in F : \A t \in P : i < t}
           wabove == {i \in G : \A t \in Down(P) : i < t}
<1>1. n \in Nat /\ F \in SUBSET (1..n) /\ G = Down(F) \cup {i \in {1} : line # {}}
  BY PlacesMoveDown
<1>2. PromptBoxTop(w) = Down(P)
  BY PromptBoxMovesDown
<1>3. P \in SUBSET (1..n)
  BY PlacesMoveDown DEF PromptBoxTop
<1>4. /\ LastLineAbovePromptBox(v) = IF above = {} THEN Nothing ELSE Slice(Max(above), Max(above) + 1)
      /\ LastLineAbovePromptBox(w) = IF wabove = {} THEN Nothing ELSE Slice(Max(wabove), Max(wabove) + 1)
  BY <1>2 DEF LastLineAbovePromptBox
<1> HIDE DEF n, F, G, P
<1>5. above # {} /\ above \in SUBSET (1..n)
  BY <1>1, <1>4
<1>6. Max(above) \in above /\ (\A i \in above : i <= Max(above)) /\ Max(above) \in 1..n
  BY <1>1, <1>5, GreatestPlace
<1>7. \A i \in F, t \in P : i < t <=> i + 1 < t + 1
  BY <1>1, <1>3
<1>8. \A i \in F : i + 1 \in wabove <=> i \in above
  BY <1>1, <1>7 DEF Down
<1>9. \A j \in wabove : j = 1 \/ \E i \in above : j = i + 1
  BY <1>1, <1>8 DEF Down
<1>10. wabove \in SUBSET (1..(n + 1)) /\ Max(above) + 1 \in wabove /\ n + 1 \in Nat
  <2>1. \A i \in F : i + 1 \in 1..(n + 1)
    BY <1>1
  <2>2. G \in SUBSET (1..(n + 1))
    BY <1>1, <2>1 DEF Down
  <2>3. Max(above) + 1 \in wabove
    BY <1>6, <1>8
  <2>4. wabove \in SUBSET G
    OBVIOUS
  <2> HIDE DEF wabove
  <2> QED
    BY <1>1, <2>2, <2>3, <2>4
<1> HIDE DEF above, wabove
<1>11. Max(wabove) \in wabove /\ \A j \in wabove : j <= Max(wabove)
  BY <1>10, GreatestPlace
<1>12. \A j \in wabove : j <= Max(above) + 1
  BY <1>5, <1>6, <1>9
<1>13. Max(wabove) = Max(above) + 1
  <2>1. Max(wabove) \in Nat /\ Max(above) \in Nat
    <3>1. Max(wabove) \in 1..(n + 1) /\ Max(above) \in 1..n
      BY <1>6, <1>10, <1>11
    <3> QED
      BY <1>1, <3>1
  <2> QED
    BY <1>10, <1>11, <1>12, <2>1
<1>14. wabove # {}
  BY <1>10
<1> QED
  BY <1>4, <1>5, <1>13, <1>14 DEF Lower, Slice

\* The last Codex prompt stays the last.
LEMMA CodexPromptMovesDown ==
  ASSUME NEW v, NEW w, NEW line, OnTop(v, w, line), CodexPrompt(v) # {}
  PROVE  /\ CodexPrompt(w) = Down(CodexPrompt(v))
         /\ Max(CodexPrompt(w)) = Max(CodexPrompt(v)) + 1 /\ Max(CodexPrompt(v)) \in 1..Len(v.lines)
         /\ Telling(v, "codex prompt") # {}
<1> DEFINE n == Len(v.lines)
           S == Telling(v, "codex prompt")
           T == Telling(w, "codex prompt")
           Ends(u, j) == "codex prompt" \notin u.lines[j] /\ ~StartsBlock(u.lines[j])
<1>1. /\ n \in Nat /\ S \in SUBSET (1..n) /\ T = Down(S) \cup {i \in {1} : "codex prompt" \in line}
      /\ DOMAIN v.lines = 1..n /\ DOMAIN w.lines = 1..(n + 1)
  <2>1. n \in Nat /\ DOMAIN v.lines = 1..n /\ DOMAIN w.lines = 1..(n + 1)
    BY PlacesMoveDown
  <2>3. \A tell : /\ Telling(v, tell) \in SUBSET (1..n)
                  /\ Telling(w, tell) = Down(Telling(v, tell)) \cup {i \in {1} : tell \in line}
    BY PlacesMoveDown
  <2>2. S \in SUBSET (1..n) /\ T = Down(S) \cup {i \in {1} : "codex prompt" \in line}
    BY <2>3
  <2> QED
    BY <2>1, <2>2
<1>2. /\ CodexPrompt(v) = {i \in S : \A j \in 1..n : j > i => Ends(v, j)}
      /\ CodexPrompt(w) = {i \in T : \A j \in 1..(n + 1) : j > i => Ends(w, j)}
  BY <1>1 DEF CodexPrompt
<1>a. n \in Nat
  BY <1>1
<1>3. \A j \in 1..n : Ends(w, j + 1) <=> Ends(v, j)
  BY DEF OnTop
<1>4. PICK i0 \in S : i0 \in CodexPrompt(v)
  BY <1>2
<1>5. ~Ends(w, i0 + 1) /\ i0 + 1 \in 1..(n + 1) /\ i0 + 1 > 1
  <2>1. i0 \in 1..n /\ "codex prompt" \in v.lines[i0]
    BY <1>1, <1>4 DEF Telling
  <2>2. ~Ends(w, i0 + 1)
    BY <1>3, <2>1
  <2>3. i0 + 1 \in 1..(n + 1) /\ i0 + 1 > 1
    <3> HIDE DEF n, S, T, Ends
    <3>1. i0 \in 1..n
      BY <2>1
    <3> QED
      BY <1>a, <3>1
  <2> QED
    BY <2>2, <2>3
<1> HIDE DEF n, S, T, Ends
<1>6. 1 \notin CodexPrompt(w)
  BY <1>2, <1>5
<1>7. \A i \in S : (\A j \in 1..(n + 1) : j > i + 1 => Ends(w, j)) <=> (\A j \in 1..n : j > i => Ends(v, j))
  <2> TAKE i \in S
  <2>3. i \in 1..n
    BY <1>1
  <2>1. \A j \in 1..n : j + 1 \in 1..(n + 1) /\ (j > i <=> j + 1 > i + 1)
    BY <1>a, <2>3
  <2>2. \A j \in 1..(n + 1) : j > i + 1 => j - 1 \in 1..n /\ j - 1 > i /\ j = (j - 1) + 1
    BY <1>a, <2>3
  <2> QED
    BY <1>3, <2>1, <2>2
<1>8. \A j \in CodexPrompt(w) : j \in Down(CodexPrompt(v))
  <2> TAKE j \in CodexPrompt(w)
  <2>1. PICK i \in S : j = i + 1
    BY <1>1, <1>2, <1>6 DEF Down
  <2> QED
    BY <1>2, <1>7, <2>1 DEF Down
<1>9. \A i \in CodexPrompt(v) : i + 1 \in CodexPrompt(w)
  <2> TAKE i \in CodexPrompt(v)
  <2>1. i \in S /\ i + 1 \in T
    BY <1>1, <1>2 DEF Down
  <2> QED
    BY <1>2, <1>7, <2>1
<1>10. CodexPrompt(w) = Down(CodexPrompt(v))
  BY <1>8, <1>9 DEF Down
<1>11. CodexPrompt(v) \in SUBSET (1..n)
  BY <1>1, <1>2
<1> QED
  BY <1>1, <1>4, <1>10, <1>11, DownKeepsEnds, GreatestPlace DEF n, S

--------------------------------------------------------------------------------
\* What detect can say of a screen.
Verdicts == {Overlay, Working, Blocked, Prompt, Says("Blocked", FALSE), Says("Idle", FALSE)}

LEMMA RulesAreVerdicts ==
  ASSUME NEW v, NEW agent \in {"Claude", "Codex", "OpenCode"}
  PROVE  LET rules == Rules(agent, v) IN
           /\ DOMAIN rules \in SUBSET Nat
           /\ \A i \in DOMAIN rules : rules[i][2] \in Verdicts
<1>1. /\ DOMAIN Claude(v) = 1..15
      /\ \A i \in 1..15 : Claude(v)[i][2] \in Verdicts
  BY DEF Claude, Verdicts
<1>2. /\ DOMAIN Codex(v) = 1..9
      /\ \A i \in 1..9 : Codex(v)[i][2] \in Verdicts
  BY DEF Codex, Verdicts
<1>3. /\ DOMAIN OpenCode(v) = 1..3
      /\ \A i \in 1..3 : OpenCode(v)[i][2] \in Verdicts
  BY DEF OpenCode, Verdicts
<1> QED
  BY <1>1, <1>2, <1>3 DEF Rules

LEMMA DetectIsVerdict ==
  ASSUME NEW rows, NEW title, NEW agent \in {"Claude", "Codex", "OpenCode"}
  PROVE  Detect(agent, rows, title) \in Verdicts
<1> DEFINE rules == Rules(agent, View(rows, title))
           hits == {i \in DOMAIN rules : rules[i][1]}
<1>1. DOMAIN rules \in SUBSET Nat /\ \A i \in DOMAIN rules : rules[i][2] \in Verdicts
  BY RulesAreVerdicts
<1> HIDE DEF rules
<1>2. CASE hits = {}
  BY <1>2 DEF Detect, Verdict, Verdicts, rules
<1>3. CASE hits # {}
  <2>1. hits \in SUBSET Nat
    BY <1>1
  <2>2. Min(hits) \in hits
    BY <1>3, <2>1, LeastPlace
  <2> QED
    BY <1>1, <1>3, <2>2 DEF Detect, Verdict, rules
<1> QED
  BY <1>2, <1>3

LEMMA PaintedIsVerdict == Painted \subseteq Verdicts
<1> SUFFICES ASSUME NEW p \in Painted PROVE p \in Verdicts
  OBVIOUS
<1>1. AgentOf(Argv) \subseteq {"Claude", "Codex", "OpenCode"}
  BY DEF AgentOf, AgentsOf
<1>2. PICK agent \in AgentOf(Argv), s \in Screens : p = Detect(agent, s.rows, s.title)
  BY DEF Painted
<1> QED
  BY <1>1, <1>2, DetectIsVerdict

LEMMA ScreenSays ==
  ASSUME NEW screen \in Painted \cup {Blank}, screen # Overlay
  PROVE  StateOf(screen) \in Activity
BY PaintedIsVerdict DEF Verdicts, StateOf, Activity, Overlay, Working, Blocked, Prompt, Says, Blank

--------------------------------------------------------------------------------
\* The first rule that hits decides, so the ones after it do not matter.
LEMMA SameVerdict ==
  ASSUME NEW p, NEW q, NEW n \in Nat, DOMAIN p = 1..n, DOMAIN q = 1..n,
         \A i \in 1..n : p[i][2] = q[i][2],
         \/ \A i \in 1..n : p[i][1] <=> q[i][1]
         \/ \E m \in 1..n : p[m][1] /\ \A i \in 1..m : p[i][1] <=> q[i][1]
  PROVE  Verdict(p) = Verdict(q)
<1> DEFINE P == {i \in DOMAIN p : p[i][1]}
           Q == {i \in DOMAIN q : q[i][1]}
<1>1. CASE P = Q
  <2>1. P = {} \/ Min(P) \in P
    <3>1. P \in SUBSET Nat
      OBVIOUS
    <3> QED
      BY <3>1, LeastPlace
  <2>2. /\ Verdict(p) = IF P = {} THEN Says("Idle", FALSE) ELSE p[Min(P)][2]
        /\ Verdict(q) = IF P = {} THEN Says("Idle", FALSE) ELSE q[Min(P)][2]
    BY <1>1 DEF Verdict
  <2>3. \A i \in P : p[i][2] = q[i][2]
    OBVIOUS
  <2>4. CASE P = {}
    BY <2>2, <2>4
  <2>5. CASE P # {}
    <3>1. Min(P) \in P
      BY <2>1, <2>5
    <3>2. p[Min(P)][2] = q[Min(P)][2]
      BY <2>3, <3>1
    <3> QED
      BY <2>2, <2>5, <3>2
  <2> QED
    BY <2>4, <2>5
<1>2. ASSUME NEW m \in 1..n, p[m][1], \A i \in 1..m : p[i][1] <=> q[i][1]
      PROVE  Verdict(p) = Verdict(q)
  <2>1. P \in SUBSET (1..n) /\ Q \in SUBSET (1..n) /\ m \in P /\ m \in Q
    BY <1>2
  <2>2. \A i \in 1..n : i <= m => (i \in P <=> i \in Q)
    BY <1>2
  <2>3. Verdict(p) = p[Min(P)][2] /\ Verdict(q) = q[Min(Q)][2]
    BY <2>1 DEF Verdict
  <2> HIDE DEF P, Q
  <2>4. P \in SUBSET Nat /\ Q \in SUBSET Nat
    BY <2>1
  <2>5. /\ Min(P) \in P /\ \A i \in P : Min(P) <= i
        /\ Min(Q) \in Q /\ \A i \in Q : Min(Q) <= i
    BY <2>1, <2>4, LeastPlace
  <2>6. Min(P) \in 1..n /\ Min(Q) \in 1..n
    BY <2>1, <2>5
  <2>7. Min(P) \in Q /\ Min(Q) \in P
    BY <2>1, <2>2, <2>5, <2>6
  <2>8. Min(P) = Min(Q)
    BY <2>5, <2>6, <2>7
  <2> QED
    BY <2>3, <2>6, <2>8
<1>3. (\A i \in 1..n : p[i][1] <=> q[i][1]) => P = Q
  OBVIOUS
<1> QED
  BY <1>1, <1>2, <1>3

\* Under a live prompt of Claude, the rules up to that of the prompt box see no difference.
LEMMA ClaudeIgnoresHistory ==
  ASSUME NEW v, NEW w, NEW line, OnTop(v, w, line), LivePrompt("Claude", v),
         line \cap WholeScreen("Claude") = {}
  PROVE  Verdict(Claude(w)) = Verdict(Claude(v))
<1>1. /\ ClaudePromptBox(v) /\ LastLineAbovePromptBox(v) # Nothing
      /\ Cardinality(Filled(v)) >= Max({Near, Mid, Far})
  BY DEF LivePrompt
<1>2. \A m \in {Near, Mid, Far} : m \in Nat \ {0} /\ Cardinality(Filled(v)) >= m
  <2>1. {Near, Mid, Far} \in SUBSET (Nat \ {0})
    BY WindowAssumption
  <2>2. \E k \in Nat : {Near, Mid, Far} \in SUBSET (1..k)
    <3>1. Near + Mid + Far \in Nat /\ {Near, Mid, Far} \in SUBSET (1..(Near + Mid + Far))
      BY <2>1
    <3> QED
      BY <3>1
  <2>3. Max({Near, Mid, Far}) \in {Near, Mid, Far} /\ \A m \in {Near, Mid, Far} : m <= Max({Near, Mid, Far})
    BY <2>2, GreatestPlace
  <2>4. Cardinality(Filled(v)) \in Nat
    BY PlacesMoveDown, DownCounts
  <2> QED
    BY <1>1, <2>1, <2>3, <2>4
<1>3. ASSUME NEW m \in {Near, Mid, Far}
      PROVE  /\ Bottom(w, m) = Lower(Bottom(v, m)) /\ IsRegion(v, Bottom(v, m))
             /\ \A tell : Has(w, Bottom(w, m), tell) <=> Has(v, Bottom(v, m), tell)
  <2>1. Bottom(w, m) = Lower(Bottom(v, m))
    BY <1>2, BottomMovesDown
  <2>2. IsRegion(v, Bottom(v, m))
    BY <1>2, RegionIsSlice DEF OnTop
  <2> QED
    BY <2>1, <2>2, RegionMovesDown
<1>4. PromptBoxTop(v) # {}
  <2> SUFFICES ASSUME PromptBoxTop(v) = {} PROVE FALSE
    OBVIOUS
  <2>1. PromptBoxBody(v) = Slice(1, 1)
    BY DEF PromptBoxBody, Nothing
  <2>2. Within(PromptBoxBody(v)) = {}
    BY <2>1 DEF Within, Slice
  <2> QED
    BY <1>1, <2>2 DEF ClaudePromptBox, Has
<1>5. \A tell : Has(w, PromptBoxBody(w), tell) <=> Has(v, PromptBoxBody(v), tell)
  <2>1. IsRegion(v, PromptBoxBody(v))
    BY RegionIsSlice DEF OnTop
  <2> QED
    BY <1>4, <2>1, PromptBoxBodyMovesDown, RegionMovesDown
<1>6. \A tell : Has(w, LastLineAbovePromptBox(w), tell) <=> Has(v, LastLineAbovePromptBox(v), tell)
  <2>1. IsRegion(v, LastLineAbovePromptBox(v))
    BY RegionIsSlice DEF OnTop
  <2> QED
    BY <1>1, <1>4, <2>1, LastLineAboveMovesDown, RegionMovesDown
<1>7. \A tell : Has(w, AfterLastRule(w), tell) <=> Has(v, AfterLastRule(v), tell)
  <2>1. Telling(v, "rule") # {}
    BY <1>4 DEF PromptBoxTop
  <2>2. IsRegion(v, AfterLast(v, "rule"))
    BY RegionIsSlice DEF OnTop
  <2>3. AfterLast(w, "rule") = Lower(AfterLast(v, "rule"))
    BY <2>1, AfterLastMovesDown
  <2> QED
    BY <2>2, <2>3, RegionMovesDown DEF AfterLastRule
<1>8. \A tell \in WholeScreen("Claude") : Has(w, All(w), tell) <=> Has(v, All(v), tell)
  BY ScreenKeepsTells
<1>9. w.title = v.title
  BY DEF OnTop
<1>10. ClaudeTranscriptViewer(w) <=> ClaudeTranscriptViewer(v)
  BY <1>3 DEF ClaudeTranscriptViewer, HasAll, HasAny
<1>11. ClaudeBlockedForm(w) <=> ClaudeBlockedForm(v)
  BY <1>7 DEF ClaudeBlockedForm, HasAny
<1>12. ClaudeWorkflowPrompt(w) <=> ClaudeWorkflowPrompt(v)
  BY <1>8 DEF ClaudeWorkflowPrompt, HasAll, WholeScreen
<1>13. ClaudeMcpElicitation(w) <=> ClaudeMcpElicitation(v)
  BY <1>8 DEF ClaudeMcpElicitation, HasAll, WholeScreen
<1>14. ClaudeBtwOverlay(w) <=> ClaudeBtwOverlay(v)
  BY <1>3 DEF ClaudeBtwOverlay, HasAll
<1>15. ClaudeLiveTurn(w) <=> ClaudeLiveTurn(v)
  BY <1>3 DEF ClaudeLiveTurn
<1>16. ClaudeBackgroundAgents(w) <=> ClaudeBackgroundAgents(v)
  BY <1>6 DEF ClaudeBackgroundAgents
<1>17. ClaudeBackgroundMcp(w) <=> ClaudeBackgroundMcp(v)
  <2> DEFINE r == Bottom(v, Far)
             s == Bottom(w, Far)
  <2>1. /\ \A i \in Within(r) : i \in 1..Len(v.lines) /\ i + 1 \in Within(s) /\ w.lines[i + 1] = v.lines[i]
        /\ \A j \in Within(s) : j - 1 \in Within(r) /\ w.lines[j] = v.lines[j - 1]
    BY <1>3, RegionMovesDown
  <2>2. HasAny(w, s, ClaudeAsking) <=> HasAny(v, r, ClaudeAsking)
    BY <1>3 DEF HasAny
  <2>3. Len(v.lines) \in Nat /\ r.from \in Nat /\ r.to \in Nat /\ s.from = r.from + 1 /\ s.to = r.to + 1
    <3>1. IsRegion(v, r) /\ s = Lower(r) /\ Len(v.lines) \in Nat
      BY <1>3, PlacesMoveDown
    <3> QED
      BY <3>1 DEF IsRegion, IsSlice, Lower, Slice
  <2> DEFINE Indented(u, q, j) == j \in Within(q) /\ "indented" \in u.lines[j]
  <2>4. \A j \in Nat : Indented(w, s, j + 1) <=> Indented(v, r, j)
    BY <2>1, <2>3 DEF Within
  <2>5. ASSUME NEW i \in Within(r)
        PROVE  w.lines[WrappedTo(w, i + 1, s)] = v.lines[WrappedTo(v, i, r)]
    <3> DEFINE tails == {n \in 0..Wrapped : \A j \in (i + 1)..(i + n) : Indented(v, r, j)}
               wtails == {n \in 0..Wrapped : \A j \in (i + 1 + 1)..(i + 1 + n) : Indented(w, s, j)}
    <3>1. i \in Nat
      BY <2>1, <2>3
    <3> HIDE DEF Indented, r, s
    <3>2. ASSUME NEW n \in 0..Wrapped
          PROVE  (\A j \in (i + 1 + 1)..(i + 1 + n) : Indented(w, s, j))
                   <=> (\A j \in (i + 1)..(i + n) : Indented(v, r, j))
      <4>1. \A j \in (i + 1)..(i + n) : j + 1 \in (i + 1 + 1)..(i + 1 + n) /\ j \in Nat
        BY <3>1, <3>2
      <4>2. \A j \in (i + 1 + 1)..(i + 1 + n) : j - 1 \in (i + 1)..(i + n) /\ j - 1 \in Nat /\ j = (j - 1) + 1
        BY <3>1, <3>2
      <4> QED
        BY <2>4, <4>1, <4>2
    <3>3. wtails = tails
      BY <3>2
    <3>4. 0 \in tails /\ tails \in SUBSET (0..Wrapped) /\ Wrapped \in Nat
      BY <3>1, WindowAssumption
    <3>5. WrappedTo(v, i, r) = i + Max(tails) /\ WrappedTo(w, i + 1, s) = i + 1 + Max(wtails)
      BY DEF WrappedTo, Indented
    <3> HIDE DEF tails, wtails
    <3>6. Max(tails) \in tails /\ Max(tails) \in Nat
      <4>1. Max(tails) \in tails
        BY <3>4, GreatestUpTo
      <4>2. \A t \in tails : t \in Nat
        BY <3>4
      <4> QED
        BY <4>1, <4>2
    <3>7. i + Max(tails) \in Within(r)
      <4>1. CASE Max(tails) = 0
        BY <3>1, <4>1
      <4>2. CASE Max(tails) # 0
        <5>1. i + Max(tails) \in (i + 1)..(i + Max(tails))
          BY <3>1, <3>6, <4>2
        <5> QED
          BY <3>6, <5>1 DEF tails, Indented
      <4> QED
        BY <4>1, <4>2
    <3>8. i + 1 + Max(tails) = (i + Max(tails)) + 1
      BY <3>1, <3>6
    <3> QED
      BY <2>1, <3>3, <3>5, <3>7, <3>8
  <2>6. ASSUME NEW j \in Within(s)
        PROVE  \E i \in Within(r) : j = i + 1
    BY <2>1, <2>3 DEF Within
  <2>7. (\E i \in Within(r) : /\ "activity" \in v.lines[i]
                            /\ "tasks still running" \in v.lines[WrappedTo(v, i, r)])
         <=> (\E j \in Within(s) : /\ "activity" \in w.lines[j]
                                 /\ "tasks still running" \in w.lines[WrappedTo(w, j, s)])
    BY <2>1, <2>5, <2>6
  <2> QED
    BY <2>2, <2>7 DEF ClaudeBackgroundMcp
<1>18. ClaudePromptBox(w) <=> ClaudePromptBox(v)
  BY <1>5 DEF ClaudePromptBox, HasAny
<1>19. \A i \in 1..10 : Claude(v)[i][1] <=> Claude(w)[i][1]
  BY <1>9, <1>10, <1>11, <1>12, <1>13, <1>14, <1>15, <1>16, <1>17, <1>18 DEF Claude
<1>20. Claude(v)[10][1]
  BY <1>1 DEF Claude
<1>21. /\ DOMAIN Claude(v) = 1..15 /\ DOMAIN Claude(w) = 1..15
       /\ \A i \in 1..15 : Claude(v)[i][2] = Claude(w)[i][2]
  BY DEF Claude
<1>22. \E m \in 1..15 : Claude(v)[m][1] /\ \A i \in 1..m : Claude(v)[i][1] <=> Claude(w)[i][1]
  BY <1>19, <1>20
<1> QED
  BY <1>21, <1>22, SameVerdict

--------------------------------------------------------------------------------
\* Of the last lines of a screen, those that tell something are among the last that are not
\* blank.
LEMMA BottomTells ==
  ASSUME NEW u, u.lines \in Rows, NEW m \in Nat, NEW tell
  PROVE  /\ Has(u, Bottom(u, m), tell) <=>
              \E i \in Filled(u) : Cardinality({j \in Filled(u) : j >= i}) <= m /\ tell \in u.lines[i]
         /\ Has(u, Bottom(u, m), tell) => Bottom(u, m).to = End(u)
<1> DEFINE n == Len(u.lines)
           F == Filled(u)
           FromOn(i) == {j \in F : j >= i}
           starts == {i \in F : Cardinality(FromOn(i)) <= m}
<1>1. n \in Nat /\ DOMAIN u.lines = 1..n /\ End(u) = n + 1
  BY LenProperties DEF Rows, End
<1>2. F \in SUBSET (1..n) /\ \A i \in 1..n : tell \in u.lines[i] => i \in F
  BY <1>1 DEF Filled, IsBlank
<1>3. Bottom(u, m) = IF starts = {} THEN Nothing ELSE Slice(Min(starts), End(u))
  BY DEF Bottom
<1> HIDE DEF n, F
<1>4. CASE starts = {}
  <2>1. Within(Bottom(u, m)) = {}
    BY <1>3, <1>4 DEF Nothing, Slice, Within
  <2>2. ~Has(u, Bottom(u, m), tell)
    BY <2>1 DEF Has
  <2>3. ~\E i \in F : Cardinality(FromOn(i)) <= m /\ tell \in u.lines[i]
    BY <1>4
  <2> QED
    BY <2>2, <2>3 DEF F
<1>5. CASE starts # {}
  <2>1. starts \in SUBSET (1..n) /\ starts \in SUBSET Nat
    <3>1. \A i \in F : i \in 1..n /\ i \in Nat
      BY <1>1, <1>2
    <3>2. \A i \in starts : i \in F
      OBVIOUS
    <3> HIDE DEF starts
    <3> QED
      BY <3>1, <3>2
  <2>2. Min(starts) \in starts /\ \A i \in starts : Min(starts) <= i
    BY <1>5, <2>1, LeastPlace
  <2>3. Within(Bottom(u, m)) = Min(starts)..n /\ Bottom(u, m).to = End(u)
    <3>1. Within(Slice(Min(starts), End(u))) = Min(starts)..n /\ Slice(Min(starts), End(u)).to = End(u)
      BY <1>1 DEF Within, Slice
    <3> QED
      BY <1>3, <1>5, <3>1
  <2>4. ASSUME NEW i \in Min(starts)..n, tell \in u.lines[i]
        PROVE  i \in starts
    <3>1. Min(starts) \in 1..n
      BY <2>1, <2>2
    <3>2. i \in F
      BY <1>1, <1>2, <2>4, <3>1
    <3>3. FromOn(i) \in SUBSET FromOn(Min(starts)) /\ FromOn(Min(starts)) \in SUBSET (1..n)
      <4>1. \A j \in F : j \in 1..n
        BY <1>2
      <4>2. \A j \in F : j >= i => j >= Min(starts)
        BY <1>1, <3>1, <4>1
      <4> QED
        BY <4>1, <4>2
    <3>4. IsFiniteSet(FromOn(Min(starts))) /\ Cardinality(FromOn(Min(starts))) \in Nat
      BY <1>1, <3>3, DownCounts
    <3>5. IsFiniteSet(FromOn(i)) /\ Cardinality(FromOn(i)) <= Cardinality(FromOn(Min(starts)))
      BY <3>3, <3>4, FS_Subset
    <3>6. Cardinality(FromOn(Min(starts))) <= m /\ Cardinality(FromOn(i)) \in Nat
      BY <2>2, <3>5, FS_CardinalityType
    <3>7. Cardinality(FromOn(i)) <= m
      BY <3>4, <3>5, <3>6
    <3> QED
      BY <3>2, <3>7
  <2>5. ASSUME NEW i \in starts
        PROVE  i \in Min(starts)..n
    <3>1. i \in 1..n /\ Min(starts) \in 1..n /\ Min(starts) <= i
      BY <2>1, <2>2
    <3> QED
      BY <1>1, <3>1
  <2>6. Has(u, Bottom(u, m), tell) <=> \E i \in starts : tell \in u.lines[i]
    BY <2>3, <2>4, <2>5 DEF Has
  <2> QED
    BY <2>3, <2>6 DEF F
<1> QED
  BY <1>4, <1>5

\* However few lines there are, the last ones have what they had, but for what the new line
\* tells.
LEMMA BottomKeepsTells ==
  ASSUME NEW v, NEW w, NEW line, OnTop(v, w, line), NEW m \in Nat, NEW tell, tell \notin line
  PROVE  Has(w, Bottom(w, m), tell) <=> Has(v, Bottom(v, m), tell)
<1> DEFINE n == Len(v.lines)
           F == Filled(v)
           G == Filled(w)
           FromOn(i) == {j \in F : j >= i}
           GFromOn(i) == {j \in G : j >= i}
<1>1. n \in Nat /\ F \in SUBSET (1..n) /\ G = Down(F) \cup {i \in {1} : line # {}}
  BY PlacesMoveDown
<1>2. w.lines[1] = line /\ \A i \in 1..n : w.lines[i + 1] = v.lines[i]
  BY DEF OnTop
<1>3. /\ Has(w, Bottom(w, m), tell) <=> \E i \in G : Cardinality(GFromOn(i)) <= m /\ tell \in w.lines[i]
      /\ Has(v, Bottom(v, m), tell) <=> \E i \in F : Cardinality(FromOn(i)) <= m /\ tell \in v.lines[i]
  BY BottomTells DEF OnTop
<1> HIDE DEF n, F, G
<1>4. \A i \in F : i \in 1..n /\ i \in Nat /\ i >= 1
  BY <1>1
<1>5. ASSUME NEW i \in F
      PROVE  Cardinality(GFromOn(i + 1)) = Cardinality(FromOn(i))
  <2>1. GFromOn(i + 1) = Down(FromOn(i))
    BY <1>1, <1>4 DEF Down
  <2>2. FromOn(i) \in SUBSET (1..n)
    BY <1>1
  <2> QED
    BY <1>1, <2>1, <2>2, DownCounts
<1>6. \A i \in F : i + 1 \in G /\ w.lines[i + 1] = v.lines[i]
  BY <1>1, <1>2, <1>4 DEF Down
<1>7. \A j \in G : tell \in w.lines[j] => \E i \in F : j = i + 1
  BY <1>1, <1>2 DEF Down
<1> HIDE DEF FromOn, GFromOn
<1>8. ASSUME NEW i \in F, Cardinality(FromOn(i)) <= m, tell \in v.lines[i]
      PROVE  \E j \in G : Cardinality(GFromOn(j)) <= m /\ tell \in w.lines[j]
  <2>1. i + 1 \in G /\ Cardinality(GFromOn(i + 1)) <= m /\ tell \in w.lines[i + 1]
    BY <1>5, <1>6, <1>8
  <2> QED
    BY <2>1
<1>9. ASSUME NEW j \in G, Cardinality(GFromOn(j)) <= m, tell \in w.lines[j]
      PROVE  \E i \in F : Cardinality(FromOn(i)) <= m /\ tell \in v.lines[i]
  <2>1. PICK i \in F : j = i + 1
    BY <1>7, <1>9
  <2>2. Cardinality(FromOn(i)) <= m /\ tell \in v.lines[i]
    BY <1>5, <1>6, <1>9, <2>1
  <2> QED
    BY <2>2
<1> QED
  BY <1>3, <1>8, <1>9

\* The first lines of a screen are now among the new line and what were the first lines.
LEMMA TopMovesDown ==
  ASSUME NEW v, NEW w, NEW line, OnTop(v, w, line), NEW m \in Nat
  PROVE  \A j \in Within(Top(w, m)) : j = 1 \/ j - 1 \in Within(Top(v, m))
<1> DEFINE n == Len(v.lines)
           F == Filled(v)
           G == Filled(w)
           UpTop(i) == {j \in F : j <= i}
           GUpTop(i) == {j \in G : j <= i}
           ends == {i \in F : Cardinality(UpTop(i)) <= m}
           wends == {i \in G : Cardinality(GUpTop(i)) <= m}
<1>1. n \in Nat /\ F \in SUBSET (1..n) /\ G = Down(F) \cup {i \in {1} : line # {}}
  BY PlacesMoveDown
<1>2. /\ Top(v, m) = IF ends = {} THEN Nothing ELSE Slice(1, Max(ends) + 1)
      /\ Top(w, m) = IF wends = {} THEN Nothing ELSE Slice(1, Max(wends) + 1)
  BY DEF Top
<1> HIDE DEF n, F, G
<1>3. \A i \in F : i \in 1..n /\ i \in Nat /\ i >= 1 /\ i + 1 \in 1..(n + 1)
  BY <1>1
<1>4. G \in SUBSET (1..(n + 1)) /\ n + 1 \in Nat
  <2>1. 1 \in 1..(n + 1) /\ n + 1 \in Nat
    BY <1>1
  <2> QED
    BY <1>1, <1>3, <2>1 DEF Down
<1>5. \A i \in F : i + 1 \in wends => i \in ends
  <2> SUFFICES ASSUME NEW i \in F, i + 1 \in wends PROVE i \in ends
    OBVIOUS
  <2>1. UpTop(i) \in SUBSET (1..n) /\ GUpTop(i + 1) \in SUBSET (1..(n + 1))
    BY <1>1, <1>4
  <2>2. Down(UpTop(i)) \in SUBSET GUpTop(i + 1)
    BY <1>1, <1>3 DEF Down
  <2>3. Cardinality(Down(UpTop(i))) = Cardinality(UpTop(i)) /\ Cardinality(UpTop(i)) \in Nat
    BY <1>1, <2>1, DownCounts
  <2>4. IsFiniteSet(GUpTop(i + 1)) /\ Cardinality(GUpTop(i + 1)) \in Nat
    BY <1>4, <2>1, DownCounts
  <2>5. Cardinality(Down(UpTop(i))) <= Cardinality(GUpTop(i + 1))
    BY <2>2, <2>4, FS_Subset
  <2>6. Cardinality(GUpTop(i + 1)) <= m
    OBVIOUS
  <2>7. Cardinality(UpTop(i)) <= m
    BY <2>3, <2>4, <2>5, <2>6
  <2> QED
    BY <2>7
<1>6. CASE wends = {}
  <2>1. Within(Top(w, m)) = {}
    BY <1>2, <1>6 DEF Nothing, Slice, Within
  <2> QED
    BY <2>1
<1>7. CASE wends # {}
  <2>1. wends \in SUBSET (1..(n + 1)) /\ ends \in SUBSET (1..n) /\ wends \in SUBSET G
    BY <1>1, <1>4
  <2>2. \A j \in wends : j = 1 \/ \E i \in ends : j = i + 1
    BY <1>1, <1>5 DEF Down
  <2> HIDE DEF ends, wends
  <2>3. Max(wends) \in wends /\ Max(wends) \in 1..(n + 1)
    BY <1>4, <1>7, <2>1, GreatestPlace
  <2>4. Within(Top(w, m)) = 1..Max(wends)
    <3>1. Within(Slice(1, Max(wends) + 1)) = 1..Max(wends)
      BY <1>4, <2>3 DEF Within, Slice
    <3> QED
      BY <1>2, <1>7, <3>1
  <2>5. CASE Max(wends) = 1
    BY <2>4, <2>5
  <2>6. CASE Max(wends) # 1
    <3>1. PICK i \in ends : Max(wends) = i + 1
      BY <2>2, <2>3, <2>6
    <3>2. Max(ends) \in ends /\ i <= Max(ends) /\ Max(ends) \in 1..n /\ i \in 1..n
      BY <1>1, <2>1, <3>1, GreatestPlace
    <3>3. Within(Top(v, m)) = 1..Max(ends)
      <4>1. Within(Slice(1, Max(ends) + 1)) = 1..Max(ends)
        BY <1>1, <3>2 DEF Within, Slice
      <4>2. ends # {}
        BY <3>1
      <4> QED
        BY <1>2, <4>1, <4>2
    <3>4. \A j \in 1..(i + 1) : j = 1 \/ j - 1 \in 1..Max(ends)
      BY <1>1, <3>2
    <3> QED
      BY <2>4, <3>1, <3>3, <3>4
  <2> QED
    BY <2>5, <2>6
<1> QED
  BY <1>6, <1>7

\* Under a live prompt of Codex, no rule sees a difference.
LEMMA CodexIgnoresHistory ==
  ASSUME NEW v, NEW w, NEW line, OnTop(v, w, line), LivePrompt("Codex", v),
         line \cap WholeScreen("Codex") = {}
  PROVE  Verdict(Codex(w)) = Verdict(Codex(v))
<1> DEFINE n == Len(v.lines)
<1>1. CodexPrompt(v) # {} /\ ~CodexTrustDirectory(v)
  BY DEF LivePrompt
<1>2. /\ n \in Nat /\ Page \in Nat /\ End(v) = n + 1 /\ End(w) = End(v) + 1
      /\ w.lines[1] = line /\ \A i \in 1..n : w.lines[i + 1] = v.lines[i]
  BY WindowAssumption, PlacesMoveDown DEF OnTop
<1>3. /\ CodexPrompt(w) # {} /\ Max(CodexPrompt(w)) = Max(CodexPrompt(v)) + 1
      /\ Max(CodexPrompt(v)) \in 1..n /\ Telling(v, "codex prompt") # {}
  <2>1. CodexPrompt(v) \in SUBSET (1..n)
    BY PlacesMoveDown DEF CodexPrompt
  <2>2. Down(CodexPrompt(v)) # {}
    BY <1>1, <1>2, <2>1, DownCounts
  <2> QED
    BY <1>1, <2>2, CodexPromptMovesDown
<1>4. \A tell : Has(w, AfterLastCodexPrompt(w), tell) <=> Has(v, AfterLastCodexPrompt(v), tell)
  <2>1. IsRegion(v, AfterLast(v, "codex prompt"))
    BY RegionIsSlice DEF OnTop
  <2>2. AfterLast(w, "codex prompt") = Lower(AfterLast(v, "codex prompt"))
    BY <1>3, AfterLastMovesDown
  <2> DEFINE r == AfterLast(v, "codex prompt")
  <2>3. AfterLastCodexPrompt(v) = r /\ AfterLastCodexPrompt(w) = Lower(r)
    BY <2>2 DEF AfterLastCodexPrompt
  <2>4. IsRegion(v, r)
    BY <2>1
  <2> HIDE DEF r
  <2>5. \A tell : Has(w, Lower(r), tell) <=> Has(v, r, tell)
    BY <2>4, RegionMovesDown
  <2> QED
    BY <2>3, <2>5
<1>5. w.title = v.title
  BY DEF OnTop
<1>6. \A tell \in WholeScreen("Codex") : tell \notin line
  OBVIOUS
<1>7. CodexTranscriptViewer(w) <=> CodexTranscriptViewer(v)
  BY <1>4 DEF CodexTranscriptViewer, HasAll
<1>8. ~CodexTrustDirectory(w)
  <2>1. \A tell \in WholeScreen("Codex") : Has(w, Top(w, Page), tell) => Has(v, Top(v, Page), tell)
    <3> SUFFICES ASSUME NEW tell \in WholeScreen("Codex"), NEW j \in Within(Top(w, Page)),
                        tell \in w.lines[j]
                 PROVE  Has(v, Top(v, Page), tell)
      BY DEF Has
    <3>1. j # 1
      BY <1>2, <1>6
    <3>2. j - 1 \in Within(Top(v, Page))
      BY <1>2, <3>1, TopMovesDown
    <3>3. IsRegion(v, Top(v, Page))
      BY <1>2, RegionIsSlice DEF OnTop
    <3>4. j - 1 \in 1..n /\ j \in Int
      <4>1. j \in Int
        <5>1. IsRegion(w, Top(w, Page))
          BY <1>2, RegionIsSlice DEF OnTop
        <5> QED
          BY <5>1 DEF IsRegion, IsSlice, Within
      <4>2. j - 1 \in 1..n
        BY <3>2, <3>3, RegionMovesDown
      <4> QED
        BY <4>1, <4>2
    <3>5. w.lines[j] = v.lines[j - 1]
      <4>1. j = (j - 1) + 1
        BY <3>4
      <4> QED
        BY <1>2, <3>4, <4>1
    <3> QED
      BY <3>2, <3>5 DEF Has
  <2>2. w.lines # <<>> => "you are in" \notin Head(w.lines)
    <3>1. Head(w.lines) = w.lines[1]
      BY DEF OnTop, Rows
    <3> QED
      BY <1>2, <1>6, <3>1 DEF WholeScreen
  <2> QED
    BY <1>1, <2>1, <2>2 DEF CodexTrustDirectory, HasAll, WholeScreen
<1>9. CodexStartupUpdate(w) <=> CodexStartupUpdate(v)
  <2> DEFINE Told(u) == HasAll(u, Bottom(u, Page), {"update available!", "update now", "skip until next version"})
  <2>1. Told(w) <=> Told(v)
    <3>1. \A tell \in {"update available!", "update now", "skip until next version"} :
            Has(w, Bottom(w, Page), tell) <=> Has(v, Bottom(v, Page), tell)
      <4> TAKE tell \in {"update available!", "update now", "skip until next version"}
      <4>1. tell \notin line
        BY <1>6 DEF WholeScreen
      <4> QED
        BY <1>2, <4>1, BottomKeepsTells
    <3> QED
      BY <3>1 DEF HasAll
  <2>2. Told(w) => Bottom(w, Page).to = End(w)
    <3>1. w.lines \in Rows /\ (Told(w) => Has(w, Bottom(w, Page), "update now"))
      BY DEF HasAll, OnTop
    <3> QED
      BY <1>2, <3>1, BottomTells
  <2>3. Told(v) => Bottom(v, Page).to = End(v)
    <3>1. v.lines \in Rows /\ (Told(v) => Has(v, Bottom(v, Page), "update now"))
      BY DEF HasAll, OnTop
    <3> QED
      BY <1>2, <3>1, BottomTells
  <2>4. n \in 1..n /\ w.lines[End(w) - 1] = v.lines[End(v) - 1]
    <3>1. n \in Nat /\ End(v) = n + 1 /\ End(w) = End(v) + 1
          /\ \A i \in 1..n : w.lines[i + 1] = v.lines[i]
      BY <1>2
    <3>2. Max(CodexPrompt(v)) \in 1..n
      BY <1>3
    <3> HIDE DEF n
    <3>3. n \in 1..n /\ End(w) - 1 = n + 1 /\ End(v) - 1 = n
      BY <3>1, <3>2
    <3> QED
      BY <3>1, <3>3
  <2> HIDE DEF Told
  <2>5. \A u : CodexStartupUpdate(u) <=>
                 Told(u) /\ "press enter to continue" \in u.lines[Bottom(u, Page).to - 1]
    BY DEF CodexStartupUpdate, Told
  <2> QED
    BY <2>1, <2>2, <2>3, <2>4, <2>5
<1>10. CodexStrongBlocker(w) <=> CodexStrongBlocker(v)
  BY <1>4 DEF CodexStrongBlocker, HasAny, HasAll
<1>11. ~CodexWeakBlocker(w) /\ ~CodexWeakBlocker(v)
  BY <1>1, <1>3 DEF CodexWeakBlocker
<1>12. CodexWorking(w) <=> CodexWorking(v)
  <2> DEFINE M == Max(CodexPrompt(v))
             Before(u, k) == 1..k
             Works(u, k) == /\ ~\E i \in 1..k : "reconnect failed" \in u.lines[i]
                            /\ \E i \in 1..k : /\ CodexTimer(u.lines[i])
                                               /\ \A j \in 1..k : j > i => CodexTrailer(u.lines[j])
  <2>1. M \in 1..n /\ M \in Nat
    <3>1. M \in 1..n /\ n \in Nat
      BY <1>2, <1>3
    <3> HIDE DEF M, n
    <3> QED
      BY <3>1
  <2>2. Within(BeforeCodexPrompt(v)) = 1..(M - 1) /\ Within(BeforeCodexPrompt(w)) = 1..M
    <3>1. BeforeCodexPrompt(v) = Slice(1, M) /\ BeforeCodexPrompt(w) = Slice(1, M + 1)
      BY <1>1, <1>3 DEF BeforeCodexPrompt
    <3>2. Within(Slice(1, M)) = 1..(M - 1) /\ Within(Slice(1, M + 1)) = 1..M
      BY <2>1 DEF Within, Slice
    <3> QED
      BY <3>1, <3>2
  <2>3. CodexWorking(v) <=> Works(v, M - 1)
    BY <2>2 DEF CodexWorking, Has
  <2>4. CodexWorking(w) <=> Works(w, M)
    BY <2>2 DEF CodexWorking, Has
  <2> HIDE DEF M
  <2>5. /\ \A i \in 1..(M - 1) : i + 1 \in 1..M /\ i \in 1..n /\ w.lines[i + 1] = v.lines[i]
        /\ \A j \in 1..M : j = 1 \/ (j - 1 \in 1..(M - 1) /\ w.lines[j] = v.lines[j - 1])
    <3>1. \A i \in 1..(M - 1) : i + 1 \in 1..M /\ i \in 1..n
      BY <1>2, <2>1
    <3>2. \A j \in 1..M : j = 1 \/ (j - 1 \in 1..(M - 1) /\ j = (j - 1) + 1)
      BY <2>1
    <3> QED
      BY <1>2, <3>1, <3>2
  <2>6. "reconnect failed" \notin w.lines[1] /\ ~CodexTimer(w.lines[1])
    BY <1>2, <1>6 DEF CodexTimer, WholeScreen
  <2>7. (\E i \in 1..M : "reconnect failed" \in w.lines[i])
          <=> (\E i \in 1..(M - 1) : "reconnect failed" \in v.lines[i])
    BY <2>5, <2>6
  <2>8. ASSUME NEW i \in 1..(M - 1)
        PROVE  (\A j \in 1..M : j > i + 1 => CodexTrailer(w.lines[j]))
                 <=> (\A j \in 1..(M - 1) : j > i => CodexTrailer(v.lines[j]))
    <3>1. \A j \in 1..(M - 1) : j > i => j + 1 > i + 1
      BY <2>1
    <3>2. \A j \in 1..M : j > i + 1 => j # 1 /\ j - 1 > i
      BY <2>1
    <3> QED
      BY <2>5, <3>1, <3>2
  <2>9. (\E i \in 1..M : /\ CodexTimer(w.lines[i])
                         /\ \A j \in 1..M : j > i => CodexTrailer(w.lines[j]))
          <=> (\E i \in 1..(M - 1) : /\ CodexTimer(v.lines[i])
                                     /\ \A j \in 1..(M - 1) : j > i => CodexTrailer(v.lines[j]))
    <3>1. \A i \in 1..M : i = 1 \/ (i - 1 \in 1..(M - 1) /\ i = (i - 1) + 1)
      BY <2>1
    <3> QED
      BY <2>5, <2>6, <2>8, <3>1
  <2> QED
    BY <2>3, <2>4, <2>7, <2>9
<1>13. CodexTrustDirectory(w) <=> CodexTrustDirectory(v)
  BY <1>1, <1>8
<1>14. CodexWeakBlocker(w) <=> CodexWeakBlocker(v)
  BY <1>11
<1>15. \A i \in 1..9 : Codex(v)[i][1] <=> Codex(w)[i][1]
  <2>1. Codex(v)[1][1] <=> Codex(w)[1][1]
    BY <1>5 DEF Codex
  <2>2. Codex(v)[2][1] <=> Codex(w)[2][1]
    BY <1>5 DEF Codex
  <2>3. Codex(v)[3][1] <=> Codex(w)[3][1]
    BY <1>7 DEF Codex
  <2>4. Codex(v)[4][1] <=> Codex(w)[4][1]
    BY <1>13 DEF Codex
  <2>5. Codex(v)[5][1] <=> Codex(w)[5][1]
    BY <1>9 DEF Codex
  <2>6. Codex(v)[6][1] <=> Codex(w)[6][1]
    BY <1>10 DEF Codex
  <2>7. Codex(v)[7][1] <=> Codex(w)[7][1]
    BY <1>14 DEF Codex
  <2>8. Codex(v)[8][1] <=> Codex(w)[8][1]
    BY <1>12 DEF Codex
  <2>9. Codex(v)[9][1] <=> Codex(w)[9][1]
    BY <1>5 DEF Codex
  <2> QED
    BY <2>1, <2>2, <2>3, <2>4, <2>5, <2>6, <2>7, <2>8, <2>9
<1>16. /\ DOMAIN Codex(v) = 1..9 /\ DOMAIN Codex(w) = 1..9
       /\ \A i \in 1..9 : Codex(v)[i][2] = Codex(w)[i][2]
  BY DEF Codex
<1> QED
  BY <1>15, <1>16, SameVerdict

\* Whatever has scrolled by: a line above a live prompt that tells nothing the rules look for
\* on the whole screen changes nothing of what is said of it.
THEOREM HistoryChangesNothing == HistoryIsIgnored
<1> SUFFICES ASSUME NEW agent \in {"Claude", "Codex"}, NEW s \in Screens,
                    LivePrompt(agent, View(s.rows, s.title)),
                    NEW line \in Lines, line \cap WholeScreen(agent) = {}
             PROVE  Detect(agent, <<line>> \o s.rows, s.title) = Detect(agent, s.rows, s.title)
  BY DEF HistoryIsIgnored
<1> DEFINE v == View(s.rows, s.title)
           w == View(<<line>> \o s.rows, s.title)
<1>1. s.rows \in Rows /\ line \in SUBSET STRING
  BY ScreenAssumption DEF Rows
<1>2. Snapshot(s.rows) # <<>>
  <2> SUFFICES ASSUME v.lines = <<>> PROVE FALSE
    BY DEF View
  <2>1. DOMAIN v.lines = {}
    OBVIOUS
  <2>2. Filled(v) = {} /\ CodexPrompt(v) = {}
    BY <2>1 DEF Filled, CodexPrompt, Telling
  <2>3. LastLineAbovePromptBox(v) = Nothing
    BY <2>2 DEF LastLineAbovePromptBox
  <2> QED
    BY <2>2, <2>3 DEF LivePrompt
<1>3. OnTop(v, w, line)
  BY <1>1, <1>2, SnapshotMovesDown
<1> HIDE DEF v, w
<1>4. CASE agent = "Claude"
  <2>1. Verdict(Claude(w)) = Verdict(Claude(v))
    BY <1>3, <1>4, ClaudeIgnoresHistory DEF v
  <2> QED
    BY <1>4, <2>1 DEF Detect, Rules, v, w
<1>5. CASE agent = "Codex"
  <2>1. Verdict(Codex(w)) = Verdict(Codex(v))
    BY <1>3, <1>5, CodexIgnoresHistory DEF v
  <2> QED
    BY <1>5, <2>1 DEF Detect, Rules, v, w
<1> QED
  BY <1>4, <1>5

--------------------------------------------------------------------------------
\* A look leaves a Watch a Watch.
LEMMA LookedIsWatch ==
  ASSUME NEW w \in Watch
  PROVE  LET l == Looked(w) IN
           /\ l \in Watch /\ l.screen = w.screen /\ l.idle = w.idle /\ l.shown = w.shown
           /\ l.calm = IF StateOf(w.screen) = "Working" THEN 0 ELSE w.calm
<1>1. 0 \in 0..Hold
  BY TrackerAssumption
<1> QED
  BY <1>1 DEF Looked, Watch

LEMMA SettledIsWatch ==
  ASSUME NEW w \in Watch, w.screen # Overlay
  PROVE  LET t == Settled(w) IN
           /\ t \in Watch /\ t.screen = w.screen /\ t.calm = w.calm
           /\ t.shown = StateOf(w.screen) /\ t.idle = NotWaiting
<1>1. StateOf(w.screen) \in Activity
  BY ScreenSays DEF Watch
<1>2. NotWaiting \in 0..(Hold + 1)
  BY TrackerAssumption DEF NotWaiting
<1> QED
  BY <1>1, <1>2 DEF Settled, Watch

LEMMA WaitedIsWatch ==
  ASSUME NEW w \in Watch
  PROVE  LET t == [w EXCEPT !.idle = Since(w)] IN
           /\ t \in Watch /\ t.screen = w.screen /\ t.calm = w.calm
           /\ t.shown = w.shown /\ t.idle = Since(w)
<1>1. Since(w) \in 0..(Hold + 1)
  BY TrackerAssumption DEF Since, Watch
<1> QED
  BY <1>1 DEF Watch

LEMMA ScannedIsWatch ==
  ASSUME NEW w \in Watch
  PROVE  Scanned(w) \in Watch /\ Scanned(w).screen = w.screen
BY LookedIsWatch, SettledIsWatch, WaitedIsWatch DEF Scanned, Stepped

LEMMA TickedIsWatch ==
  ASSUME NEW w \in Watch
  PROVE  LET t == [w EXCEPT !.age = UpTo(@, Grace), !.calm = UpTo(@, Hold),
                            !.idle = IF @ = NotWaiting THEN @ ELSE UpTo(@, Hold)] IN
           /\ t \in Watch /\ t.shown = w.shown /\ t.screen = w.screen
           /\ t.calm = UpTo(w.calm, Hold)
           /\ t.idle = IF w.idle = NotWaiting THEN w.idle ELSE UpTo(w.idle, Hold)
<1>1. w.age \in 0..Grace /\ w.calm \in 0..Hold /\ w.idle \in 0..(Hold + 1)
  BY DEF Watch
<1>2. /\ UpTo(w.age, Grace) \in 0..Grace /\ UpTo(w.calm, Hold) \in 0..Hold
      /\ (IF w.idle = NotWaiting THEN w.idle ELSE UpTo(w.idle, Hold)) \in 0..(Hold + 1)
  BY <1>1, TrackerAssumption DEF UpTo, NotWaiting
<1> QED
  BY <1>2 DEF Watch

\* A screen is painted with a dirty mark, and nothing else of its Watch changes.
LEMMA PaintedIsWatch ==
  ASSUME NEW w \in Watch, NEW s \in Painted
  PROVE  LET p == [[w EXCEPT !.screen = s] EXCEPT !.dirty = TRUE] IN
           p \in Watch /\ p.shown = w.shown /\ p.idle = w.idle /\ p.calm = w.calm
BY DEF Watch

--------------------------------------------------------------------------------
\* A Watch that is waiting has waited no longer than nothing has read working. A run not yet
\* launched has shown nothing.
Waited(w) == Pending(w) => w.idle <= w.calm
WatchesFit ==
  /\ \A k \in Run : Waited(watch[k])
  /\ \A k \in Run : k > runs => watch[k].shown = "Unknown"

\* The scanner reads a run that was launched; what it carries is what that run shows.
ScannerFits ==
  /\ scanner.at # "idle" => scanner.run \in 1..runs
  /\ scanner.at = "apply" => scanner.moved = watch[scanner.run].shown

\* The registered run is the latest. While the scanner is still with one before it, nobody
\* has looked at it yet.
Followed(k) ==
  \/ activity = watch[k].shown
  \/ watch[k].shown = "Unknown" /\ \E l \in 1..(k - 1) : activity = watch[l].shown
RunFits ==
  /\ run \in {0, runs}
  /\ run # 0 /\ scanner.at # "idle" /\ scanner.run # run =>
       activity = "Unknown" /\ watch[run].shown = "Unknown"
  /\ run # 0 /\ scanner.at # "apply" => Followed(run)

TrackerInv == TrackerTypeOK /\ WatchesFit /\ ScannerFits /\ RunFits

\* Before anything is launched, nobody waits for anything.
LEMMA TrackerInitFits == Init => TrackerInv
<1> SUFFICES ASSUME Init PROVE TrackerInv
  OBVIOUS
<1>1. NewWatch \in Watch
  BY TrackerAssumption DEF NewWatch, Watch, NotWaiting, Activity
<1>2. TrackerTypeOK
  BY <1>1, TrackerAssumption DEF Init, TrackerTypeOK, Activity, Resting
<1>3. WatchesFit
  BY DEF Init, WatchesFit, Waited, Pending, NewWatch
<1> QED
  BY <1>2, <1>3 DEF Init, TrackerInv, ScannerFits, RunFits, Resting

\* Launch, Stop, Paint and Tick show nothing new of any run.
LEMMA WorldKeepsWatches ==
  ASSUME TrackerInv, Launch \/ Stop \/ Paint \/ Tick
  PROVE  /\ watch' \in [Run -> Watch]
         /\ \A k \in Run : watch'[k].shown = watch[k].shown /\ Waited(watch'[k])
<1>1. watch \in [Run -> Watch] /\ \A k \in Run : Waited(watch[k])
  BY DEF TrackerInv, TrackerTypeOK, WatchesFit
<1>2. CASE Launch \/ Stop
  BY <1>1, <1>2 DEF Launch, Stop
<1>3. CASE Paint
  <2>1. PICK s \in Painted : watch' = [watch EXCEPT ![run].screen = s, ![run].dirty = TRUE]
    BY <1>3 DEF Paint
  <2>2. run \in Run
    BY <1>3, TrackerAssumption DEF TrackerInv, TrackerTypeOK, Paint, Run
  <2>3. watch' = [watch EXCEPT ![run] = [[watch[run] EXCEPT !.screen = s] EXCEPT !.dirty = TRUE]]
    BY <1>1, <2>1, <2>2
  <2>4. watch[run] \in Watch
    BY <1>1, <2>2
  <2>5. /\ watch'[run] \in Watch /\ watch'[run].shown = watch[run].shown
        /\ watch'[run].idle = watch[run].idle /\ watch'[run].calm = watch[run].calm
    BY <1>1, <2>2, <2>3, <2>4, PaintedIsWatch
  <2>6. \A k \in Run \ {run} : watch'[k] = watch[k]
    BY <1>1, <2>3
  <2>7. watch' \in [Run -> Watch]
    BY <1>1, <2>2, <2>3, <2>5
  <2> QED
    BY <1>1, <2>2, <2>5, <2>6, <2>7 DEF Waited, Pending
<1>4. CASE Tick
  <2>1. ASSUME NEW k \in Run
        PROVE  watch'[k] \in Watch /\ watch'[k].shown = watch[k].shown /\ Waited(watch'[k])
    <3>1. CASE k > runs
      BY <1>1, <1>4, <3>1 DEF Tick
    <3>2. CASE ~(k > runs)
      <4>1. watch'[k] = [watch[k] EXCEPT !.age = UpTo(@, Grace), !.calm = UpTo(@, Hold),
                                         !.idle = IF @ = NotWaiting THEN @ ELSE UpTo(@, Hold)]
        BY <1>4, <3>2 DEF Tick
      <4>2. /\ watch'[k] \in Watch /\ watch'[k].shown = watch[k].shown
            /\ watch'[k].calm = UpTo(watch[k].calm, Hold)
            /\ watch'[k].idle = IF watch[k].idle = NotWaiting THEN watch[k].idle
                                ELSE UpTo(watch[k].idle, Hold)
        <5>1. watch[k] \in Watch
          BY <1>1
        <5> QED
          BY <4>1, <5>1, TickedIsWatch
      <4>3. watch[k].calm \in 0..Hold /\ watch[k].idle \in 0..(Hold + 1) /\ Waited(watch[k])
        BY <1>1 DEF Watch
      <4> QED
        BY <4>2, <4>3, TrackerAssumption DEF Waited, Pending, UpTo, NotWaiting
    <3> QED
      BY <3>1, <3>2
  <2>2. watch' = [k \in Run |-> watch'[k]]
    BY <1>4 DEF Tick
  <2> QED
    BY <2>1, <2>2
<1> QED
  BY <1>2, <1>3, <1>4

LEMMA WorldFits ==
  ASSUME TrackerInv, Launch \/ Stop \/ Paint \/ Tick
  PROVE  TrackerInv'
<1>1. /\ watch' \in [Run -> Watch]
      /\ \A k \in Run : watch'[k].shown = watch[k].shown /\ Waited(watch'[k])
  BY WorldKeepsWatches
<1>2. /\ runs \in 0..MaxRuns /\ run \in {0, runs} /\ activity \in Activity
      /\ scanner \in [at : {"idle", "read", "apply"}, run : 0..MaxRuns, moved : Activity]
      /\ MaxRuns \in Nat /\ "Unknown" \in Activity
  BY TrackerAssumption DEF TrackerInv, TrackerTypeOK, RunFits, Activity
<1>3. scanner' = scanner
  BY DEF Launch, Stop, Paint, Tick
<1>4. CASE Launch
  <2>1. /\ run = 0 /\ runs < MaxRuns /\ runs' = runs + 1 /\ run' = runs + 1
        /\ activity' = "Unknown" /\ watch' = watch
    BY <1>4 DEF Launch
  <2>2. watch'[runs + 1].shown = "Unknown"
    BY <1>2, <2>1 DEF TrackerInv, WatchesFit, Run
  <2>3. TrackerTypeOK'
    BY <1>1, <1>2, <1>3, <2>1 DEF TrackerTypeOK
  <2>4. WatchesFit'
    BY <1>1, <1>2, <2>1 DEF TrackerInv, WatchesFit, Run
  <2>5. ScannerFits'
    BY <1>2, <1>3, <2>1 DEF TrackerInv, ScannerFits
  <2>6. RunFits'
    BY <1>3, <2>1, <2>2 DEF RunFits, Followed
  <2> QED
    BY <2>3, <2>4, <2>5, <2>6 DEF TrackerInv
<1>5. CASE Stop
  <2>1. run' = 0 /\ runs' = runs /\ activity' = "Unknown" /\ watch' = watch
    BY <1>5 DEF Stop
  <2>2. TrackerTypeOK'
    BY <1>1, <1>2, <1>3, <2>1 DEF TrackerTypeOK
  <2> QED
    BY <1>1, <1>3, <2>1, <2>2 DEF TrackerInv, WatchesFit, ScannerFits, RunFits
<1>6. CASE Paint \/ Tick
  <2>1. run' = run /\ runs' = runs /\ activity' = activity
    BY <1>6 DEF Paint, Tick
  <2>2. TrackerTypeOK'
    BY <1>1, <1>3, <2>1 DEF TrackerInv, TrackerTypeOK
  <2>3. WatchesFit'
    BY <1>1, <2>1 DEF TrackerInv, WatchesFit
  <2>4. \A k \in 1..runs : watch'[k].shown = watch[k].shown
    BY <1>1, <1>2 DEF Run
  <2>5. ScannerFits'
    BY <1>3, <2>1, <2>4 DEF TrackerInv, ScannerFits
  <2>6. run # 0 => run \in 1..runs /\ \A l \in 1..(run - 1) : l \in 1..runs
    BY <1>2
  <2>7. RunFits'
    BY <1>3, <2>1, <2>4, <2>6 DEF TrackerInv, RunFits, Followed
  <2> QED
    BY <2>2, <2>3, <2>5, <2>7 DEF TrackerInv
<1> QED
  BY <1>4, <1>5, <1>6

\* What a look does to the wait: it starts one, leaves it, or ends it.
LEMMA ScannedWaited ==
  ASSUME NEW w \in Watch, Waited(w)
  PROVE  /\ Waited(Scanned(w))
         /\ w.shown = "Working" /\ Scanned(w).shown = "Idle" /\ w.screen = Bare => w.calm >= Hold
<1> DEFINE l == Looked(w)
<1>1. /\ l \in Watch /\ l.screen = w.screen /\ l.idle = w.idle /\ l.shown = w.shown
      /\ l.calm = IF StateOf(w.screen) = "Working" THEN 0 ELSE w.calm
  BY LookedIsWatch
<1>2. w.calm \in 0..Hold /\ w.idle \in 0..(Hold + 1) /\ Hold \in Nat
  BY TrackerAssumption DEF Watch
<1>3. Bare # Overlay /\ StateOf(Bare) # "Working" /\ StateOf(Overlay) # "Working"
  BY DEF Bare, Overlay, StateOf, Says
<1> HIDE DEF l
<1>4. CASE Scanned(w) = w
  BY <1>4 DEF Waited
<1>5. CASE Scanned(w) = Stepped(l)
  <2>1. CASE l.screen = Overlay
    BY <1>1, <1>2, <1>3, <1>5, <2>1 DEF Stepped, Waited, Pending
  <2>2. CASE l.screen # Overlay /\ Waits(l) /\ Since(l) < Hold
    <3>1. /\ Stepped(l) = [l EXCEPT !.idle = Since(l)] /\ l.shown = "Working"
          /\ l.calm = w.calm
      BY <1>1, <1>3, <2>2 DEF Stepped, Waits
    <3>2. Stepped(l).idle = Since(l) /\ Stepped(l).calm = l.calm /\ Stepped(l).shown = l.shown
      BY <1>1, <3>1, WaitedIsWatch
    <3> QED
      BY <1>1, <1>2, <1>5, <3>1, <3>2 DEF Waited, Pending, Since
  <2>3. CASE l.screen # Overlay /\ ~(Waits(l) /\ Since(l) < Hold)
    <3>1. Stepped(l) = Settled(l)
      BY <2>3 DEF Stepped
    <3>2. Stepped(l).idle = NotWaiting
      BY <1>1, <2>3, <3>1, SettledIsWatch
    <3>3. w.shown = "Working" /\ w.screen = Bare => w.calm >= Hold
      <4> HAVE w.shown = "Working" /\ w.screen = Bare
      <4>1. ~(Since(w) < Hold)
        BY <1>1, <2>3 DEF Waits, Since, Pending
      <4> QED
        BY <1>2, <4>1 DEF Since, Waited
    <3> QED
      BY <1>5, <3>2, <3>3 DEF Waited, Pending
  <2> QED
    BY <2>1, <2>2, <2>3
<1> QED
  BY <1>4, <1>5 DEF Scanned, l

LEMMA ScanReads ==
  ASSUME TrackerInv, ScanRead
  PROVE  /\ scanner.run \in Run /\ scanner.run \in 1..runs
         /\ watch' = [watch EXCEPT ![scanner.run] = Scanned(watch[scanner.run])]
         /\ watch'[scanner.run] = Scanned(watch[scanner.run])
         /\ watch' \in [Run -> Watch]
         /\ \A k \in Run \ {scanner.run} : watch'[k] = watch[k]
<1>1. scanner.run \in Run /\ scanner.run \in 1..runs /\ watch \in [Run -> Watch]
  BY TrackerAssumption DEF TrackerInv, TrackerTypeOK, ScannerFits, ScanRead, Run
<1>2. watch' = [watch EXCEPT ![scanner.run] = Scanned(watch[scanner.run])]
  BY DEF ScanRead
<1> QED
  BY <1>1, <1>2, ScannedIsWatch

LEMMA ScanReadFits ==
  ASSUME TrackerInv, ScanRead
  PROVE  TrackerInv'
<1> DEFINE k == scanner.run
<1>1. /\ k \in Run /\ k \in 1..runs /\ watch'[k] = Scanned(watch[k])
      /\ watch' \in [Run -> Watch] /\ watch \in [Run -> Watch]
      /\ \A j \in Run \ {k} : watch'[j] = watch[j]
  BY ScanReads DEF TrackerInv, TrackerTypeOK
<1>2. run' = run /\ runs' = runs /\ activity' = activity
  BY DEF ScanRead
<1>3. /\ scanner \in [at : {"idle", "read", "apply"}, run : 0..MaxRuns, moved : Activity]
      /\ scanner.at = "read" /\ runs \in 0..MaxRuns /\ MaxRuns \in Nat /\ run \in {0, runs}
  BY TrackerAssumption DEF TrackerInv, TrackerTypeOK, RunFits, ScanRead
<1>4. Waited(watch'[k])
  BY <1>1, ScannedWaited DEF TrackerInv, WatchesFit
<1>5. WatchesFit'
  BY <1>1, <1>2, <1>3, <1>4 DEF TrackerInv, WatchesFit
<1>6. CASE Moved(watch[k], watch'[k])
  <2>1. scanner' = [[scanner EXCEPT !.at = "apply"] EXCEPT !.moved = watch'[k].shown]
    BY <1>1, <1>6 DEF ScanRead
  <2>2. watch'[k].shown \in Activity
    BY <1>1 DEF Watch
  <2>3. scanner' \in [at : {"idle", "read", "apply"}, run : 0..MaxRuns, moved : Activity]
    BY <1>3, <2>1, <2>2
  <2>4. scanner'.at = "apply" /\ scanner'.run = k /\ scanner'.moved = watch'[k].shown
    BY <1>3, <2>1
  <2>5. TrackerTypeOK'
    BY <1>1, <1>2, <2>3 DEF TrackerInv, TrackerTypeOK
  <2>6. ScannerFits'
    BY <1>1, <1>2, <2>4 DEF ScannerFits
  <2>7. run # 0 /\ k # run => watch'[run] = watch[run]
    BY <1>1, <1>3 DEF Run
  <2>8. RunFits'
    BY <1>2, <1>3, <2>4, <2>7 DEF TrackerInv, RunFits
  <2> QED
    BY <1>5, <2>5, <2>6, <2>8 DEF TrackerInv
<1>7. CASE ~Moved(watch[k], watch'[k])
  <2>1. scanner' = Resting /\ scanner'.at = "idle"
    BY <1>1, <1>7 DEF ScanRead, Resting
  <2>2. scanner' \in [at : {"idle", "read", "apply"}, run : 0..MaxRuns, moved : Activity]
    BY <1>3, <2>1 DEF Resting, Activity
  <2>3. TrackerTypeOK'
    BY <1>1, <1>2, <2>2 DEF TrackerInv, TrackerTypeOK
  <2>4. ScannerFits'
    BY <2>1 DEF ScannerFits
  <2>5. \A j \in 1..runs : watch'[j].shown = watch[j].shown
    BY <1>1, <1>3, <1>7 DEF Moved, Run
  <2>6. run # 0 => run \in 1..runs /\ \A l \in 1..(run - 1) : l \in 1..runs
    BY <1>3
  <2>7. RunFits'
    BY <1>2, <1>3, <2>1, <2>5, <2>6 DEF TrackerInv, RunFits, Followed
  <2> QED
    BY <1>5, <2>3, <2>4, <2>7 DEF TrackerInv
<1> QED
  BY <1>6, <1>7

LEMMA ScanLookFits ==
  ASSUME TrackerInv, ScanLook
  PROVE  TrackerInv'
<1>1. /\ run # 0 /\ scanner.at = "idle"
      /\ scanner' = [at |-> "read", run |-> run, moved |-> "Unknown"]
      /\ UNCHANGED <<runs, run, activity, watch>>
  BY DEF ScanLook
<1>2. run \in 1..runs /\ runs \in 0..MaxRuns /\ MaxRuns \in Nat
  BY <1>1, TrackerAssumption DEF TrackerInv, TrackerTypeOK
<1>3. TrackerTypeOK'
  BY <1>1, <1>2 DEF TrackerInv, TrackerTypeOK, Activity
<1> QED
  BY <1>1, <1>2, <1>3 DEF TrackerInv, WatchesFit, ScannerFits, RunFits, Followed

\* What the scanner carries comes to the table: of the registered run, or of one before it.
LEMMA ScanApplyFits ==
  ASSUME TrackerInv, ScanApply
  PROVE  TrackerInv'
<1>1. /\ scanner.at = "apply" /\ scanner' = Resting
      /\ activity' = IF run # 0 THEN scanner.moved ELSE activity
      /\ UNCHANGED <<runs, run, watch>>
  BY DEF ScanApply, HasRun
<1>2. /\ scanner.run \in 1..runs /\ scanner.moved = watch[scanner.run].shown
      /\ runs \in 0..MaxRuns /\ MaxRuns \in Nat /\ run \in {0, runs}
  BY <1>1, TrackerAssumption DEF TrackerInv, TrackerTypeOK, ScannerFits, RunFits
<1>3. TrackerTypeOK'
  BY <1>1, <1>2 DEF TrackerInv, TrackerTypeOK, Activity, Resting
<1>4. run # 0 => Followed(run)'
  <2> HAVE run # 0
  <2>1. activity' = watch'[scanner.run].shown
    BY <1>1, <1>2
  <2>2. CASE scanner.run = run
    BY <1>1, <2>1, <2>2 DEF Followed
  <2>3. CASE scanner.run # run
    <3>1. watch'[run].shown = "Unknown" /\ scanner.run \in 1..(run - 1)
      BY <1>1, <1>2, <2>3 DEF TrackerInv, RunFits
    <3> QED
      BY <1>1, <2>1, <3>1 DEF Followed
  <2> QED
    BY <2>2, <2>3
<1> QED
  BY <1>1, <1>2, <1>3, <1>4 DEF TrackerInv, WatchesFit, ScannerFits, RunFits, Resting

--------------------------------------------------------------------------------
LEMMA TrackerInductive == Spec => []TrackerInv
<1>1. TrackerInv /\ [Next]_trackerVars => TrackerInv'
  <2> SUFFICES ASSUME TrackerInv, [Next]_trackerVars PROVE TrackerInv'
    OBVIOUS
  <2>1. CASE Launch \/ Stop \/ Paint \/ Tick
    BY <2>1, WorldFits
  <2>2. CASE Scan
    BY <2>2, ScanLookFits, ScanReadFits, ScanApplyFits DEF Scan
  <2>3. CASE UNCHANGED trackerVars
    BY <2>3 DEF trackerVars, TrackerInv, TrackerTypeOK, WatchesFit, ScannerFits, RunFits, Followed
  <2> QED
    BY <2>1, <2>2, <2>3 DEF Next
<1> QED
  BY <1>1, TrackerInitFits, PTL DEF Spec

\* Every variable keeps its type: what detect says of a screen is something the table can
\* show, or an overlay, which is never shown.
THEOREM TrackerTyped == Spec => []TrackerTypeOK
<1>1. TrackerInv => TrackerTypeOK
  BY DEF TrackerInv
<1> QED
  BY <1>1, TrackerInductive, PTL

\* Every screen the agent can paint is one the scanner can read, and says the same under
\* whatever conversation is above it.
THEOREM EveryScreenIsRead == Spec => []ScreensAreRead
<1>1. TrackerInv => ScreensAreRead
  BY ScreensCanBeSliced, HistoryChangesNothing
     DEF TrackerInv, TrackerTypeOK, Watch, ScreensAreRead
<1> QED
  BY <1>1, TrackerInductive, PTL

\* The table shows what the registered run's Tracker does, however the scanner's three steps
\* fall between the end of a run and the launch of the next.
THEOREM TableTellsTheTruth == Spec => []TableFollows
<1>1. TrackerInv => TableFollows
  BY DEF TrackerInv, RunFits, Followed, TableFollows
<1> QED
  BY <1>1, TrackerInductive, PTL

\* No look turns working into an idle nothing vouches for before the hold is over.
THEOREM GapsAreHeld == Spec => NoFlicker
<1>1. TrackerInv /\ [Next]_trackerVars =>
        [\A k \in Run :
           watch[k].shown = "Working" /\ watch'[k].shown = "Idle" /\ watch[k].screen = Bare
             => watch[k].calm >= Hold]_trackerVars
  <2> SUFFICES ASSUME TrackerInv, [Next]_trackerVars, NEW k \in Run,
                      watch[k].shown = "Working", watch'[k].shown = "Idle",
                      watch[k].screen = Bare
               PROVE  watch[k].calm >= Hold
    OBVIOUS
  <2>1. CASE Launch \/ Stop \/ Paint \/ Tick
    BY <2>1, WorldKeepsWatches
  <2>2. CASE ScanRead
    <3>1. watch'[k] = Scanned(watch[k])
      BY <2>2, ScanReads
    <3> QED
      BY <3>1, ScannedWaited DEF TrackerInv, TrackerTypeOK, WatchesFit
  <2>3. CASE ScanLook \/ ScanApply \/ UNCHANGED trackerVars
    BY <2>3 DEF ScanLook, ScanApply, trackerVars
  <2> QED
    BY <2>1, <2>2, <2>3 DEF Next, Scan
<1> QED
  BY <1>1, TrackerInductive, PTL DEF Spec, NoFlicker
================================================================================
