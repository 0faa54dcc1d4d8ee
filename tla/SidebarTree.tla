------------------------------- MODULE SidebarTree -------------------------------
(***************************************************************************)
(* The sessions of one machine as a folder tree (src/src/tui/tree.rs):     *)
(* where a working directory sits in the tree, and the rows the sidebar    *)
(* shows of it when some of its folders are folded.                        *)
(*                                                                         *)
(* A name is a number, so that names have the order the code gives them.   *)
(* A path is the sequence of its segments, the first one a root.  Paths    *)
(* are compared segment by segment: the code compares their text, which    *)
(* orders a name that continues another before '/' differently.            *)
(***************************************************************************)
EXTENDS Naturals, Sequences, SequencesExt, FiniteSets

CONSTANTS
  Home,  \* the segments of $HOME, empty when it is not set
  None

ASSUME HomeAssumption == Home \in Seq(Nat)

--------------------------------------------------------------------------------
Slash == 0
Tilde == 1

\* A working directory is what it starts with, "~" or "/", and the names that follow.
Cwds == [lead : {"~", "/"}, names : Seq(Nat)]

\* segments: cwd is what it starts with, "~" or "/", and the names that follow. Trimming
\* the slashes at its end leaves nothing of "/" itself, which is then taken for the home.
Segments(cwd) ==
  LET inHome == Home # <<>> /\ IsPrefix(Home, cwd.names) IN
  CASE cwd.lead = "~" \/ cwd.names = <<>> -> <<Tilde>> \o cwd.names
    [] cwd.lead = "/" /\ cwd.names # <<>> /\ inHome ->
         <<Tilde>> \o SubSeq(cwd.names, Len(Home) + 1, Len(cwd.names))
    [] cwd.lead = "/" /\ cwd.names # <<>> /\ ~inHome -> <<Slash>> \o cwd.names

\* The order of the BTree collections and of keep.sort().
Before(p, q) ==
  \/ IsStrictPrefix(p, q)
  \/ \E n \in 1..Len(p) :
       /\ n <= Len(q)
       /\ SubSeq(p, 1, n - 1) = SubSeq(q, 1, n - 1)
       /\ p[n] < q[n]

\* The elements of a set by the rank that an order, a set of pairs, gives them.
Sorted(set, order) ==
  [i \in 1..Cardinality(set) |-> CHOOSE x \in set : Cardinality({y \in set : <<y, x>> \in order}) = i - 1]

InOrder(paths) == Sorted(paths, {e \in paths \X paths : Before(e[1], e[2])})
Ascending(numbers) == Sorted(numbers, {e \in numbers \X numbers : e[1] < e[2]})

--------------------------------------------------------------------------------
\* A listed session is [sid, path]; listed is the sequence of those the filter let through.
Folders(listed) == UNION {{SubSeq(listed[i].path, 1, n) : n \in 1..Len(listed[i].path)} : i \in DOMAIN listed}

\* The sessions of one folder, as they are listed.
Places(listed, p) == {i \in DOMAIN listed : listed[i].path = p}
At(listed, p) ==
  LET here == Ascending(Places(listed, p)) IN [k \in DOMAIN here |-> listed[here[k]]]

Kids(listed, p) == {q \in Folders(listed) : Len(q) = Len(p) + 1 /\ IsPrefix(p, q)}

FolderRow(p, depth, hasSub) ==
  [kind |-> "folder", path |-> p, sid |-> None, depth |-> depth, hasSub |-> hasSub]
ElideRow(depth) ==
  [kind |-> "elide", path |-> <<>>, sid |-> None, depth |-> depth, hasSub |-> FALSE]
SessionRow(e, depth) ==
  [kind |-> "session", path |-> e.path, sid |-> e.sid, depth |-> depth, hasSub |-> FALSE]

SessionsOf(listed, p, depth) ==
  LET here == At(listed, p) IN [i \in DOMAIN here |-> SessionRow(here[i], depth)]

\* descend: what is below p, and which of it holds sessions. One "..." stands for all the rest.
Below(listed, p) == {q \in Folders(listed) : IsStrictPrefix(p, q)}

Keep_Nearest(listed, p) ==
  {q \in Below(listed, p) :
     /\ At(listed, q) # <<>>
     /\ \A r \in Below(listed, p) : IsStrictPrefix(r, q) => At(listed, r) = <<>>}
Keep(listed, p) == {q \in Below(listed, p) : At(listed, q) # <<>>}

Elided(listed, p) == Below(listed, p) \ Keep(listed, p) # {}

Survivors(listed, p) ==
  LET elided == Elided(listed, p)
      base == Len(p) + (IF elided THEN 1 ELSE 0)
      shown(q) == <<FolderRow(q, base, FALSE)>> \o SessionsOf(listed, q, base + 1)
      kept == InOrder(Keep(listed, p)) IN
  (IF elided THEN <<ElideRow(Len(p))>> ELSE <<>>)
    \o FlattenSeq([i \in DOMAIN kept |-> shown(kept[i])])

\* walk: the rows of the subtree at each folder. The depth of a root is 0.
Walk(listed, folded) ==
  LET walk[p \in Folders(listed)] ==
        LET kids == InOrder(Kids(listed, p)) IN
        <<FolderRow(p, Len(p) - 1, kids # <<>>)>>
          \o SessionsOf(listed, p, Len(p))
          \o IF p \in folded
               THEN Survivors(listed, p)
               ELSE FlattenSeq([i \in DOMAIN kids |-> walk[kids[i]]])
  IN walk

\* tree
Tree(listed, folded) ==
  LET roots == InOrder({p \in Folders(listed) : Len(p) = 1}) IN
  FlattenSeq([i \in DOMAIN roots |-> Walk(listed, folded)[roots[i]]])

--------------------------------------------------------------------------------
\* What the rows of a list should be, said without walking the tree.
RowOf(t, i) == {r \in DOMAIN t : t[r].kind = "session" /\ t[r].sid = i}
FolderAbove(t, r) == {f \in 1..r : t[f].kind = "folder" /\ \A g \in (f + 1)..r : t[g].kind # "folder"}

UnderItsFolder(t, e) ==
  \E r \in RowOf(t, e.sid) : \E f \in FolderAbove(t, r) :
    RowOf(t, e.sid) = {r} /\ t[f].path = e.path /\ t[f].depth = t[r].depth - 1

Hidden(listed, folded) ==
  {p \in Folders(listed) : At(listed, p) = <<>> /\ \E q \in folded : IsStrictPrefix(q, p)}

ShowsAll(listed, folded) ==
  LET t == Tree(listed, folded) IN
  /\ \A i \in DOMAIN listed : UnderItsFolder(t, listed[i])
  /\ {t[r].path : r \in {q \in DOMAIN t : t[q].kind = "folder"}} = Folders(listed) \ Hidden(listed, folded)
================================================================================
