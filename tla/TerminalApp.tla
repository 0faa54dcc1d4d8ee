------------------------------- MODULE TerminalApp -------------------------------
(***************************************************************************)
(* The terminal client: App (src/src/tui/app.rs) and everything that       *)
(* changes it, which is keys, pastes, the mouse, the frame tick and the    *)
(* frames of the daemons (src/src/tui/event.rs, src/src/tui/mod.rs).       *)
(*                                                                         *)
(* A session id stands for the pair of a machine and an id on it.  Keys    *)
(* are the ones a mode tells apart; "x" is any other.  A filter is what it *)
(* lets through.  A pane is how far it is scrolled back, coarsely.         *)
(* The daemons are the environment: they list whatever they like.          *)
(***************************************************************************)
EXTENDS SidebarTree

CONSTANTS
  Vms,       \* the number of configured machines
  Sid,       \* sessions, as numbers in the order the daemons list them
  VmOf,      \* the machine of each
  Cwd,       \* the working directory of each
  Text,      \* filters that can be typed, with
  Hits,      \* what each lets through
  Blank,     \* the empty filter
  Activity,  \* readings of an agent
  Readable,  \* the sessions whose agent the daemon can read
  Samples,   \* working directories to build trees of
  Pastes,    \* texts that can be pasted
  Buffered   \* bound on a pane's scrollback

ASSUME AppAssumption ==
  /\ Vms \in Nat \ {0} /\ Buffered \in Nat
  /\ Sid \in SUBSET Nat /\ IsFiniteSet(Sid) /\ None \notin Sid
  /\ None \notin [status : {"Running", "Stopped"}, activity : Activity]
  /\ VmOf \in [Sid -> 1..Vms] /\ Cwd \in [Sid -> Cwds] /\ Samples \in SUBSET Cwds
  /\ Hits \in [Text -> SUBSET Sid] /\ Blank \in Text /\ Hits[Blank] = Sid

VARIABLES
  sessions,   \* VmState.sessions
  built, sel, \* what the rows of the sidebar were built from, and the one that is selected
  collapsed,  \* folders that are folded
  filter, editing,
  focus,
  modal,
  panes,      \* how far each pane is scrolled back
  done,       \* finished while nobody looked
  selection,  \* the drag over a pane
  pasting,    \* what is left of a paste that is replayed as keys
  sent        \* the requests of the last step

dataVars == <<sessions, done>>
sideVars == <<built, sel, collapsed>>
filterVars == <<filter, editing>>
appVars == <<dataVars, sideVars, filterVars, focus, modal, panes, selection, pasting, sent>>

Session == [status : {"Running", "Stopped"}, activity : Activity]
Busy == {"Working", "Blocked"}

OfVm(v) == {s \in Sid : VmOf[s] = v}
Listed == {s \in Sid : sessions[s] # None}
Running(s) == sessions[s].status = "Running"

--------------------------------------------------------------------------------
VmRow(v) == [kind |-> "vm", path |-> <<>>, sid |-> None, depth |-> 0, hasSub |-> FALSE]
OnVm(v, tree) == [i \in DOMAIN tree |-> [row |-> tree[i], vm |-> v]]

\* App::rebuild: the machines one after the other, each with what the filter lets through.
Filtered(b, v) ==
  LET byId == Ascending(OfVm(v) \cap b.listed \cap Hits[b.text]) IN
  [i \in DOMAIN byId |-> [sid |-> byId[i], path |-> Segments(Cwd[byId[i]])]]

Foldable == UNION {{<<VmOf[s], SubSeq(Segments(Cwd[s]), 1, n)>> : n \in 1..Len(Segments(Cwd[s]))} : s \in Sid}

Builds == {[listed |-> l, text |-> t, folds |-> f] : l \in SUBSET Sid, t \in Text, f \in SUBSET Foldable}

RowsOf == [b \in Builds |->
  FlattenSeq([v \in 1..Vms |->
    OnVm(v, <<VmRow(v)>> \o Tree(Filtered(b, v), {f[2] : f \in {g \in b.folds : g[1] = v}}))])]

rows == RowsOf[built]

AtMost(n, top) == IF n > top THEN top ELSE n

Rebuild_SameRow(list, text, folds) ==
  /\ built' = [listed |-> {s \in Sid : list[s] # None}, text |-> text, folds |-> folds]
  /\ UNCHANGED sel
Rebuild(list, text, folds) ==
  /\ built' = [listed |-> {s \in Sid : list[s] # None}, text |-> text, folds |-> folds]
  /\ sel' = AtMost(sel, Len(RowsOf[built']))

Kind(i) == rows[i].row.kind

\* App::cur: the selected session.
Cur == rows[sel].row.sid
OnSession == Kind(sel) = "session"

\* App::cur_vm: a "..." stands on no machine, and the first is taken.
CurVm == IF Kind(sel) = "elide" THEN 1 ELSE rows[sel].vm

\* App::step
Step_OntoElide(down) ==
  sel' = IF down THEN AtMost(sel + 1, Len(rows)) ELSE IF sel = 1 THEN 1 ELSE sel - 1
Step(down) ==
  LET ahead == {i \in DOMAIN rows : (IF down THEN i > sel ELSE i < sel) /\ Kind(i) # "elide"} IN
  sel' = CASE ahead = {} -> IF down THEN Len(rows) ELSE 1
           [] ahead # {} /\ down  -> CHOOSE i \in ahead : \A j \in ahead : i <= j
           [] ahead # {} /\ ~down -> CHOOSE i \in ahead : \A j \in ahead : i >= j

Init ==
  /\ sessions = [s \in Sid |-> None]
  /\ built = [listed |-> {}, text |-> Blank, folds |-> {}] /\ sel = 1 /\ collapsed = {}
  /\ filter = Blank /\ editing = FALSE
  /\ focus = "Sidebar" /\ modal = None
  /\ panes = <<>> /\ done = {}
  /\ selection = None /\ pasting = <<>> /\ sent = {}

--------------------------------------------------------------------------------
Req(kind, s) == [kind |-> kind, sid |-> s]

\* Screen::set_scrollback stops at what the pane has buffered, which is for its output to say.
Scrolled(s, up) ==
  \E n \in IF up THEN panes[s]..Buffered ELSE 0..panes[s] : panes' = [panes EXCEPT ![s] = n]

ToLive(s) == panes' = [panes EXCEPT ![s] = 0]

\* leave_scrollback: back to the live screen, of the pane that is selected by now.
LeftTo(there) == IF focus = "Scrollback" THEN there ELSE focus
LeftPanes ==
  IF focus = "Scrollback" /\ OnSession /\ Cur \in DOMAIN panes THEN [panes EXCEPT ![Cur] = 0] ELSE panes

--------------------------------------------------------------------------------
\* modal_key. The form of a new session is NewSessionForm's; what it sends and how it ends
\* is here.
CloseOn(keys, k) == modal' = IF k \in keys THEN None ELSE modal

HelpKey(k) ==
  /\ modal.kind = "help"
  /\ CloseOn({"Esc", "?", "q"}, k)
  /\ sent' = {}

KillKey(k) ==
  /\ modal.kind = "kill"
  /\ CloseOn({"y", "Enter", "n", "Esc"}, k)
  /\ sent' = IF k \in {"y", "Enter"} THEN {Req("Kill", modal.sid)} ELSE {}

NewKey(k) ==
  /\ modal.kind = "new"
  /\ modal' \in IF k = "Enter" THEN {None} ELSE IF k = "Esc" THEN {None, modal} ELSE {modal}
  /\ sent' \in {{}, {Req(IF k = "Enter" THEN "Create" ELSE "ListDir", modal.vm)}}

ModalKey(k) ==
  /\ modal # None
  /\ HelpKey(k) \/ KillKey(k) \/ NewKey(k)
  /\ UNCHANGED <<dataVars, sideVars, filterVars, focus, panes>>

\* Every key that is not about ending the filter is about its text.
FilterKey(k) ==
  /\ modal = None /\ editing
  /\ editing' = (k \notin {"Esc", "Enter"})
  /\ filter' \in CASE k = "Esc"       -> {Blank}
                   [] k = "Enter"     -> {filter}
                   [] k = "Backspace" -> Text
                   [] OTHER           -> (Text \ {Blank}) \cup {filter}
  /\ Rebuild(sessions, filter', collapsed)
  /\ sent' = {}
  /\ UNCHANGED <<dataVars, collapsed, focus, modal, panes>>

ScrollbackKey(k) ==
  /\ modal = None /\ ~editing /\ focus = "Scrollback"
  /\ \/ k \in {"q", "Esc"} /\ focus' = LeftTo("Terminal") /\ panes' = LeftPanes
     \/ /\ k \notin {"q", "Esc"}
        /\ IF OnSession /\ Cur \in DOMAIN panes /\ k \in {"k", "g", "j", "G"}
             THEN IF k = "G" THEN ToLive(Cur) ELSE Scrolled(Cur, k \in {"k", "g"})
             ELSE UNCHANGED panes
        /\ UNCHANGED focus
  /\ sent' = {}
  /\ UNCHANGED <<dataVars, sideVars, filterVars, modal>>

\* Typing shows the live screen; a stopped session takes no keys, and no terminal sends some.
TerminalKey(k) ==
  /\ modal = None /\ ~editing /\ focus = "Terminal"
  /\ \E typed \in {FALSE, k # "Ctrl-]" /\ OnSession /\ Running(Cur)} :
       /\ focus' = IF k = "Ctrl-]" THEN "Sidebar" ELSE focus
       /\ IF typed /\ Cur \in DOMAIN panes THEN ToLive(Cur) ELSE UNCHANGED panes
       /\ sent' = IF typed THEN {Req("Input", Cur)} ELSE {}
  /\ UNCHANGED <<dataVars, sideVars, filterVars, modal>>

--------------------------------------------------------------------------------
\* The commands of the sidebar.
Move(k) ==
  /\ CASE k = "j" -> Step(TRUE)
       [] k = "k" -> Step(FALSE)
       [] k = "g" -> sel' = 1
       [] k = "G" -> sel' = Len(rows)
  /\ UNCHANGED <<built, collapsed, filterVars, focus, modal>>

Enter ==
  /\ focus' = IF OnSession THEN "Terminal" ELSE focus
  /\ UNCHANGED <<sideVars, filterVars, modal>>

Scrollback ==
  /\ focus' = IF OnSession /\ Cur \in DOMAIN panes THEN "Scrollback" ELSE focus
  /\ UNCHANGED <<sideVars, filterVars, modal>>

\* The filter is cleared here, the rows are only rebuilt by the next key.
StartFilter ==
  /\ editing' = TRUE /\ filter' = Blank
  /\ UNCHANGED <<sideVars, focus, modal>>

Folding == IF rows[sel].row.hasSub THEN {<<rows[sel].vm, rows[sel].row.path>>} ELSE {}

Fold ==
  /\ collapsed' = (collapsed \ Folding) \cup (Folding \ collapsed)
  /\ Rebuild(sessions, filter, collapsed')
  /\ UNCHANGED <<filterVars, focus, modal>>

Dialogs(k) ==
  CASE k = "?" -> {[kind |-> "help"]}
    [] k = "n" -> {[kind |-> "new", vm |-> CurVm]}
    [] k = "d" -> IF OnSession THEN {[kind |-> "kill", sid |-> Cur]} ELSE {None}

Ask(k) ==
  /\ modal' \in Dialogs(k)
  /\ UNCHANGED <<sideVars, filterVars, focus>>

\* "q" leaves the client, which keeps nothing, and so is no step, but for a paste: what
\* on_key returns is not looked at there.
Nothing(k) ==
  /\ k \notin {"j", "k", "g", "G", "Enter", "[", "/", " ", "?", "n", "d"}
  /\ k = "q" => pasting # <<>>
  /\ UNCHANGED <<sideVars, filterVars, focus, modal>>

SidebarKey(k) ==
  /\ modal = None /\ ~editing /\ focus = "Sidebar"
  /\ \/ k \in {"j", "k", "g", "G"} /\ Move(k)
     \/ k = "Enter" /\ Enter
     \/ k = "[" /\ Scrollback
     \/ k = "/" /\ StartFilter
     \/ k = " " /\ Fold
     \/ k \in {"?", "n", "d"} /\ Ask(k)
     \/ Nothing(k)
  /\ sent' = IF k = "r" /\ OnSession /\ ~Running(Cur) THEN {Req("Restart", Cur)} ELSE {}
  /\ UNCHANGED <<dataVars, panes>>

\* The keys the mode tells apart; any that does the same as another counts as that one.
Telling ==
  CASE modal # None /\ modal.kind = "help"  -> {"Esc", "x"}
    [] modal # None /\ modal.kind = "kill"  -> {"y", "n", "x"}
    [] modal # None /\ modal.kind = "new"   -> {"Enter", "Esc", "x"}
    [] modal = None /\ editing             -> {"Esc", "Enter", "Backspace", "x"}
    [] modal = None /\ ~editing            ->
         CASE focus = "Scrollback" -> {"q", "j", "k", "G", "x"}
           [] focus = "Terminal"   -> {"Ctrl-]", "x"}
           [] focus = "Sidebar"    -> {"j", "k", "g", "G", "Enter", "[", "/", " ", "?", "n", "d", "r", "x"}

\* on_key. The characters of a paste are all handled before anything else is.
OnKey ==
  /\ \E k \in IF pasting = <<>> THEN Telling ELSE {Head(pasting)} :
       ModalKey(k) \/ FilterKey(k) \/ ScrollbackKey(k) \/ TerminalKey(k) \/ SidebarKey(k)
  /\ selection' = None
  /\ pasting' = IF pasting = <<>> THEN <<>> ELSE Tail(pasting)

\* on_paste: keys for a dialog or the filter, one Input for a session, else dropped.
OnPaste ==
  /\ pasting = <<>>
  /\ selection' = None
  /\ LET asKeys == modal # None \/ editing
         typed == ~asKeys /\ focus = "Terminal" /\ OnSession /\ Running(Cur) /\ Cur \in DOMAIN panes IN
       /\ pasting' \in IF asKeys THEN Pastes ELSE {<<>>}
       /\ IF typed THEN ToLive(Cur) ELSE UNCHANGED panes
       /\ sent' = IF typed THEN {Req("Input", Cur)} ELSE {}
  /\ UNCHANGED <<dataVars, sideVars, filterVars, focus, modal>>

--------------------------------------------------------------------------------
\* on_mouse. What a guest that reports the mouse makes of an event is its own affair.
Dragging == selection # None /\ selection.down
Mouse == pasting = <<>> /\ modal = None
MaybeInput(s) == sent' \in {{}, {Req("Input", s)}}

DragTo ==
  /\ Mouse /\ Dragging
  /\ \E e \in BOOLEAN : selection' = [selection EXCEPT !.past = e]
  /\ sent' = {}
  /\ UNCHANGED <<dataVars, sideVars, filterVars, focus, modal, panes, pasting>>

\* finish_drag. A drag that covered text copies it and stays lit...
DragEndsOnText ==
  /\ Mouse /\ Dragging
  /\ selection' = [selection EXCEPT !.down = FALSE, !.past = FALSE]
  /\ sent' = {}
  /\ UNCHANGED <<dataVars, sideVars, filterVars, focus, modal, panes, pasting>>

\* ... any other opens the link under it or is a click for the session it began on.
DragEndsAsClick ==
  /\ Mouse /\ Dragging
  /\ LET s == selection.sid
         clicks == s \in Listed /\ Running(s) /\ focus # "Scrollback" IN
       \/ sent' = {} /\ UNCHANGED focus
       \/ clicks /\ focus' = "Terminal" /\ MaybeInput(s)
  /\ selection' = None
  /\ UNCHANGED <<dataVars, sideVars, filterVars, modal, panes, pasting>>

\* A press on the border, or in the sidebar below its rows or on a "...".
PressNothing ==
  /\ Mouse
  /\ selection' = None /\ sent' = {}
  /\ UNCHANGED <<dataVars, sideVars, filterVars, focus, modal, panes, pasting>>

\* row_at
Clickable == {i \in DOMAIN rows : Kind(i) # "elide"}

PressRow ==
  /\ Mouse
  /\ \E i \in Clickable :
       /\ sel' = i
       /\ focus' = IF Kind(i) = "session" THEN LeftTo("Sidebar") ELSE "Sidebar"
  /\ panes' = LeftPanes
  /\ selection' = None /\ sent' = {}
  /\ UNCHANGED <<dataVars, built, collapsed, filterVars, modal, pasting>>

WheelSidebar ==
  /\ Mouse
  /\ \E down \in BOOLEAN : Step(down)
  /\ focus' = LeftTo("Sidebar") /\ panes' = LeftPanes
  /\ selection' = None /\ sent' = {}
  /\ UNCHANGED <<dataVars, built, collapsed, filterVars, modal, pasting>>

OnPane == Mouse /\ OnSession

PressPane ==
  /\ OnPane /\ Cur \in DOMAIN panes
  /\ selection' = [sid |-> Cur, down |-> TRUE, past |-> FALSE]
  /\ sent' = {}
  /\ UNCHANGED <<dataVars, sideVars, filterVars, focus, modal, panes, pasting>>

\* The guest gets the wheel if it asks for it, unless it is stopped or scrolled back, or
\* shift is held; the pane scrolls otherwise.
WheelPane ==
  /\ OnPane
  /\ \/ /\ Running(Cur) /\ focus # "Scrollback"
        /\ sent' = {Req("Input", Cur)} /\ UNCHANGED panes
     \/ /\ Cur \in DOMAIN panes
        /\ \E up \in BOOLEAN : Scrolled(Cur, up)
        /\ sent' = {}
  /\ selection' = None
  /\ UNCHANGED <<dataVars, sideVars, filterVars, focus, modal, pasting>>

\* Other buttons, which also take the keys there, and motion, which does not.
ButtonPane ==
  /\ OnPane /\ Running(Cur) /\ focus # "Scrollback"
  /\ focus' \in {focus, "Terminal"}
  /\ MaybeInput(Cur)
  /\ UNCHANGED <<dataVars, sideVars, filterVars, modal, panes, selection, pasting>>

OnMouse ==
  \/ DragTo \/ DragEndsOnText \/ DragEndsAsClick
  \/ PressNothing \/ PressRow \/ WheelSidebar
  \/ PressPane \/ WheelPane \/ ButtonPane

--------------------------------------------------------------------------------
\* seen and autoscroll, which every frame begins with. A drag parked past an edge scrolls
\* its pane, which is no longer live then.
Autoscroll ==
  LET s == selection.sid IN
  /\ \E up \in BOOLEAN : Scrolled(s, up)
  /\ focus' = IF panes'[s] # panes[s] THEN "Scrollback" ELSE focus

Frame ==
  /\ pasting = <<>>
  /\ done' = done \ (IF OnSession THEN {Cur} ELSE {})
  /\ IF Dragging /\ selection.past /\ selection.sid \in DOMAIN panes THEN Autoscroll ELSE UNCHANGED <<focus, panes>>
  /\ sent' = {}
  /\ UNCHANGED <<sessions, sideVars, filterVars, modal, selection, pasting>>

\* The window, or the border inside it, gave the pane another size: resize_panes.
Resize ==
  /\ pasting = <<>>
  /\ selection' = None
  /\ sent' = {Req("Resize", s) : s \in DOMAIN panes}
  /\ UNCHANGED <<dataVars, sideVars, filterVars, focus, modal, panes, pasting>>

--------------------------------------------------------------------------------
\* on_msg, of the machine v. A daemon's table has no reading of a stopped agent.
Lists(v) ==
  {l \in [OfVm(v) -> Session \cup {None}] :
     \A s \in OfVm(v) :
       l[s] # None /\ (l[s].status = "Stopped" \/ s \notin Readable) => l[s].activity = "Unknown"}

Restarted(list) ==
  {s \in Listed : ~Running(s) /\ list[s] # None /\ list[s].status = "Running"}

\* A turn that ends is news unless it is the selected session's; so it is until the agent
\* does something again, or is gone.
News(list) ==
  {s \in Listed : /\ list[s] # None /\ list[s].activity = "Idle"
                  /\ sessions[s].activity \in Busy
                  /\ ~(OnSession /\ Cur = s)}
NoNews(list) == {s \in Sid : list[s] = None \/ list[s].activity # "Idle"}

\* Resp::Sessions with rebuild and reconcile: whoever is listed has a pane, and one that has
\* to be attached, as all of a machine's are on a new connection, has a fresh one.
OnSessions(v) ==
  \E heard \in Lists(v), reconnected \in BOOLEAN :
    LET list == [s \in Sid |-> IF VmOf[s] = v THEN heard[s] ELSE sessions[s]]
        live == {s \in OfVm(v) : list[s] # None}
        fresh == IF reconnected THEN live ELSE live \ (DOMAIN panes \ Restarted(list))
        kept == (DOMAIN panes \ OfVm(v)) \cup (live \cap DOMAIN panes) IN
      /\ sessions' = list
      /\ done' = (done \ NoNews(list)) \cup News(list)
      /\ panes' = [s \in kept \cup fresh |-> IF s \in fresh THEN 0 ELSE panes[s]]
      /\ selection' = IF selection # None /\ selection.sid \notin kept THEN None ELSE selection
      /\ Rebuild(list, filter, collapsed)
      /\ sent' = {Req("Attach", s) : s \in fresh}
      /\ UNCHANGED <<filterVars, collapsed, focus, modal, pasting>>

\* A pane that is scrolled back stays where it is by scrolling back further.
OnOutput(s) ==
  /\ panes' \in IF s \in DOMAIN panes /\ panes[s] > 0
                  THEN {panes, [panes EXCEPT ![s] = AtMost(@ + 1, Buffered)]} ELSE {panes}
  /\ selection' = IF selection # None /\ ~selection.down /\ selection.sid = s THEN None ELSE selection
  /\ sent' = {}
  /\ UNCHANGED <<dataVars, sideVars, filterVars, focus, modal, pasting>>

\* The end of any session takes the focus off the terminal.
OnExited(s) ==
  /\ done' = done \ {s}
  /\ sessions' = IF s \in Listed THEN [sessions EXCEPT ![s].status = "Stopped"] ELSE sessions
  /\ focus' = IF focus = "Terminal" THEN "Sidebar" ELSE focus
  /\ sent' = {}
  /\ UNCHANGED <<sideVars, filterVars, modal, panes, selection, pasting>>

OnMsg ==
  /\ pasting = <<>>
  /\ \/ \E v \in 1..Vms : OnSessions(v)
     \/ \E s \in Sid : OnOutput(s) \/ OnExited(s)

Next == OnKey \/ OnPaste \/ OnMouse \/ Frame \/ Resize \/ OnMsg

Spec == Init /\ [][Next]_appVars

--------------------------------------------------------------------------------
\* Nothing the next frame draws, or the next event looks up, is gone: the rows, the panes
\* and a drag are of sessions that are listed, a row is selected, and what is marked as news
\* is a running session that is idle, however lists and exits came meanwhile.
NothingDangles ==
  /\ built.listed = Listed /\ DOMAIN panes = Listed
  /\ sel \in DOMAIN rows
  /\ selection # None => selection.sid \in DOMAIN panes
  /\ \A s \in done : s \in Listed /\ Running(s) /\ sessions[s].activity = "Idle"

\* The selection is never moved onto a "...", which stands for nothing; and "collapsing only
\* drops rows below the folder, so the selection stays put" (event.rs), however deep the
\* folder is and whatever is folded below it.
SelectionHolds ==
  [][/\ built' = built /\ sel' # sel => rows[sel'].row.kind # "elide"
     /\ collapsed' # collapsed =>
          /\ rows'[sel].vm = rows[sel].vm
          /\ rows'[sel].row.kind = "folder" /\ rows'[sel].row.path = rows[sel].row.path]_appVars

\* Whatever is folded, a session that passed the filter is on exactly one row; and in any
\* tree it is right under its own folder, and a fold hides the folders below it that hold
\* no session, and nothing else.
SamplesShow ==
  \A paths \in [1..3 -> {Segments(c) : c \in Samples}] :
    LET listed == [i \in 1..3 |-> [sid |-> i, path |-> paths[i]]] IN
    \A folded \in SUBSET Folders(listed) : ShowsAll(listed, folded)

FoldsHideNoSession ==
  /\ \A s \in Sid : Cardinality({i \in DOMAIN rows : rows[i].row.sid = s})
                      = IF s \in built.listed \cap Hits[built.text] THEN 1 ELSE 0
  /\ SamplesShow
================================================================================
