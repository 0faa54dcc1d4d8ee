------------------------------ MODULE ScreenRules ------------------------------
(***************************************************************************)
(* What the daemon reads off an agent's screen (src/src/detect.rs): the    *)
(* regions a screen is cut into, the rules of the three agents in their    *)
(* order, and the verdict of the first that hits.                          *)
(*                                                                         *)
(* A line is what it tells: the set of the phrases and marks the rules     *)
(* look for in it, empty when it is blank.  Which texts make a line tell   *)
(* something is for the matchers of the code; phrases that no rule tells   *)
(* apart are one, and a phrase the agent wraps is told by the line it ends *)
(* on.  A title is such a set too.                                         *)
(***************************************************************************)
EXTENDS Naturals, Sequences, SequencesExt, FiniteSets, FiniteSetsExt

CONSTANTS
  Near, Mid, Far, Page,  \* how many lines the rules look at: 3, 5, 12 and 20
  Wrapped,               \* lines an activity may be wrapped over: 3
  Screens,               \* the screens to read, as [rows, title], and
  Lines                  \* the lines to put on top of them

ASSUME WindowAssumption == {Near, Mid, Far, Page, Wrapped} \subseteq Nat \ {0}
ASSUME ScreenAssumption ==
  /\ Screens \subseteq [rows : Seq(SUBSET STRING), title : SUBSET STRING]
  /\ Lines \subseteq SUBSET STRING

\* Agent::of: the first word of the command line that names an agent, in whatever wrapper.
NamesOf(agent) ==
  CASE agent = "Claude"   -> {"claude", "claude-code"}
    [] agent = "Codex"    -> {"codex"}
    [] agent = "OpenCode" -> {"opencode", "opencode2"}

AgentsOf(word) == {agent \in {"Claude", "Codex", "OpenCode"} : word \in NamesOf(agent)}

AgentOf(argv) ==
  LET named == SelectSeq(argv, LAMBDA word : AgentsOf(word) # {}) IN
  IF named = <<>> THEN {} ELSE AgentsOf(Head(named))

\* says. None of the rules' verdicts is "overlay" but the ones that say nothing.
Says(state, visible) == [state |-> state, visible |-> visible]
Overlay == [state |-> "overlay", visible |-> FALSE]
Working == Says("Working", TRUE)
Blocked == Says("Blocked", TRUE)
Prompt == Says("Idle", TRUE)

--------------------------------------------------------------------------------
\* A view is [lines, title]; a region is the half-open range of its lines [from, to), which
\* the code slices with and which has to be one.
Slice(from, to) == [from |-> from, to |-> to]
Nothing == Slice(1, 1)
Within(r) == r.from..(r.to - 1)
End(v) == Len(v.lines) + 1

All(v) == Slice(1, End(v))
IsBlank(v, i) == v.lines[i] = {}
Filled(v) == {i \in DOMAIN v.lines : ~IsBlank(v, i)}
Telling(v, tell) == {i \in DOMAIN v.lines : tell \in v.lines[i]}

\* bottom: from the nth of the lines that are not blank, counted from the end...
Bottom(v, n) ==
  LET starts == {i \in Filled(v) : Cardinality({j \in Filled(v) : j >= i}) <= n} IN
  IF starts = {} THEN Nothing ELSE Slice(Min(starts), End(v))

\* ... and top, through the nth counted from the first.
Top(v, n) ==
  LET ends == {i \in Filled(v) : Cardinality({j \in Filled(v) : j <= i}) <= n} IN
  IF ends = {} THEN Nothing ELSE Slice(1, Max(ends) + 1)

AfterLast(v, tell) == Slice(IF Telling(v, tell) = {} THEN 1 ELSE Max(Telling(v, tell)) + 1, End(v))
AfterLastRule(v) == AfterLast(v, "rule")
AfterLastCodexPrompt(v) == AfterLast(v, "codex prompt")

\* The upper one of the last two rules, if there are two.
PromptBoxTop_First(v) ==
  {i \in Telling(v, "rule") : Cardinality({j \in Telling(v, "rule") : j < i}) = 0}
PromptBoxTop(v) ==
  {i \in Telling(v, "rule") : Cardinality({j \in Telling(v, "rule") : j > i}) = 1}

PromptBoxBody(v) ==
  IF PromptBoxTop(v) = {} THEN Nothing
  ELSE LET top == Max(PromptBoxTop(v))
           below == {i \in Telling(v, "rule") : i > top} IN
       Slice(top + 1, IF below = {} THEN End(v) ELSE Min(below))

LastLineAbovePromptBox(v) ==
  LET above == {i \in Filled(v) : \A t \in PromptBoxTop(v) : i < t} IN
  IF above = {} THEN Nothing ELSE Slice(Max(above), Max(above) + 1)

\* The last Codex prompt, unless a response block has started below it.
StartsBlock(line) == line \cap {"bullet", "mark"} # {}
CodexPrompt(v) ==
  {i \in Telling(v, "codex prompt") : \A j \in DOMAIN v.lines : j > i =>
     "codex prompt" \notin v.lines[j] /\ ~StartsBlock(v.lines[j])}

BeforeCodexPrompt(v) ==
  Slice(1, IF CodexPrompt(v) = {} THEN End(v) ELSE Max(CodexPrompt(v)))

\* has, has_all and has_any.
Has(v, r, tell) == \E i \in Within(r) : tell \in v.lines[i]
HasAll(v, r, tells) == \A tell \in tells : Has(v, r, tell)
HasAny(v, r, tells) == \E tell \in tells : Has(v, r, tell)

--------------------------------------------------------------------------------
\* Claude.
ClaudeTranscriptViewer(v) ==
  LET r == Bottom(v, Near) IN
  /\ Has(v, r, "showing detailed transcript")
  /\ \/ HasAll(v, r, {"ctrl+o", "to toggle"})
     \/ HasAll(v, r, {"ctrl+e", "show all"})
     \/ HasAll(v, r, {"ctrl+e", "collapse"})
     \/ HasAny(v, r, {"scroll", "? for shortcuts"})

Navigate == {"tab/arrow keys", "arrow keys to navigate", "arrows to navigate", "up/down to navigate"}

ClaudeBlockedForm(v) ==
  LET r == AfterLastRule(v) IN
  /\ Has(v, r, "esc to cancel")
  /\ Has(v, r, "enter to confirm") \/ (Has(v, r, "enter to select") /\ HasAny(v, r, Navigate))

ClaudeWorkflowPrompt(v) == HasAll(v, All(v), {"run a dynamic workflow?", "esc to cancel"})

ClaudeMcpElicitation(v) == HasAll(v, All(v), {"esc to cancel", "requests your input", "accept or decline"})

ClaudeBtwOverlay(v) == HasAll(v, Bottom(v, Mid), {"/btw", "esc to close"})

\* "turn" is a footer with its "esc to interrupt", or a spinner before its verb and timer.
ClaudeLiveTurn(v) == Has(v, Bottom(v, Far), "turn")

ClaudeBackgroundAgents(v) == Has(v, LastLineAbovePromptBox(v), "waiting for agents")

ClaudeAsking == {"do you want to proceed?", "esc to cancel", "waiting for permission",
                 "allow this connection?", "tab to amend", "ctrl+e to explain"}

\* An activity at column zero whose text, wrapped over indented lines, ends with the tasks
\* that are still running.
WrappedTo(v, i, r) ==
  LET tails == {n \in 0..Wrapped : \A j \in (i + 1)..(i + n) : j \in Within(r) /\ "indented" \in v.lines[j]} IN
  i + Max(tails)

ClaudeBackgroundMcp(v) ==
  LET r == Bottom(v, Far) IN
  /\ ~HasAny(v, r, ClaudeAsking)
  /\ \E i \in Within(r) : "activity" \in v.lines[i] /\ "tasks still running" \in v.lines[WrappedTo(v, i, r)]

ClaudePromptBox(v) ==
  LET r == PromptBoxBody(v) IN
  /\ Has(v, r, "at cursor")
  /\ ~HasAny(v, r, {"enter to select", "esc to cancel", "tab/arrow keys", "arrow keys to navigate",
                    "up/down to navigate"})

ClaudeModelPicker(v) ==
  /\ HasAll(v, All(v), {"select model", "enter to set as default", "esc to cancel"})
  /\ ~HasAny(v, All(v), {"do you want to proceed?", "enter to select"})

\* A yes or no of a menu, numbered or, in a bash prompt, a bare yes.
YesNoOptions(bare) == {"option"} \cup (IF bare THEN {"bare yes"} ELSE {})

ClaudeBashPermission(v) ==
  /\ Has(v, All(v), "do you want to proceed?")
  /\ HasAny(v, All(v), {"bash command", "contains expansion", "tab to amend", "ctrl+e to explain"})
  /\ HasAny(v, All(v), YesNoOptions(TRUE))

ClaudeGenericPermission(v) ==
  LET r == AfterLastRule(v) IN
  HasAll(v, r, {"do you want to proceed?", "esc to cancel"}) /\ HasAny(v, r, YesNoOptions(FALSE))

Asks(v) == Has(v, All(v), "do you want to") /\ HasAny(v, All(v), {"yes", "cursor"})

ClaudeLegacyBlocker(v) ==
  /\ \/ Asks(v)
     \/ HasAny(v, All(v), {"waiting for permission", "allow this connection?", "tab to amend",
                           "ctrl+e to explain", "review your answers"})
     \/ HasAll(v, All(v), {"do you want to proceed?", "esc to cancel"})
  /\ ~Has(v, All(v), "bare cursor")

\* In the order of the table.
Claude(v) ==
  << <<"spinner" \in v.title, Working>>,
     <<ClaudeTranscriptViewer(v), Overlay>>,
     <<ClaudeBlockedForm(v), Blocked>>,
     <<ClaudeWorkflowPrompt(v), Blocked>>,
     <<ClaudeMcpElicitation(v), Blocked>>,
     <<ClaudeBtwOverlay(v), Working>>,
     <<ClaudeLiveTurn(v), Working>>,
     <<ClaudeBackgroundAgents(v), Working>>,
     <<ClaudeBackgroundMcp(v), Working>>,
     <<ClaudePromptBox(v), Prompt>>,
     <<ClaudeModelPicker(v), Overlay>>,
     <<ClaudeBashPermission(v), Blocked>>,
     <<ClaudeGenericPermission(v), Blocked>>,
     <<ClaudeLegacyBlocker(v), Says("Blocked", FALSE)>>,
     <<"star" \in v.title, Prompt>> >>

--------------------------------------------------------------------------------
\* Codex.
CodexTranscriptViewer(v) ==
  HasAll(v, AfterLastCodexPrompt(v), {"to scroll", "home/end to jump", "q to quit", "to edit prev"})

CodexTrustDirectory(v) ==
  LET r == Top(v, Page) IN
  /\ (v.lines # <<>> /\ "you are in" \in Head(v.lines)) \/ Has(v, r, "folder access")
  /\ \/ Has(v, r, "do you trust the contents of this directory?")
     \/ HasAll(v, r, {"trust this folder?", "enter continue"})

CodexStartupUpdate(v) ==
  LET r == Bottom(v, Page) IN
  /\ HasAll(v, r, {"update available!", "update now", "skip until next version"})
  /\ "press enter to continue" \in v.lines[r.to - 1]

CodexStrongBlocker(v) ==
  LET r == AfterLastCodexPrompt(v) IN
  \/ HasAny(v, r, {"press enter to confirm or esc to cancel", "enter to submit", "allow command?"})
  \/ HasAll(v, r, {"all results", "filesystem only", "plugins"})

LiveSparkle(v) ==
  \E i \in Telling(v, "sparkle") : \A j \in DOMAIN v.lines : j > i => ~StartsBlock(v.lines[j])

CodexWeakBlocker(v) ==
  /\ CodexPrompt(v) = {}
  /\ ~LiveSparkle(v)
  /\ Has(v, All(v), "[y/n]") \/ Asks(v)

\* What may sit under a live status line: blank space, queued messages, the sparkle, or
\* anything that does not start something new.
CodexTrailer(line) ==
  \/ "sparkle" \in line
  \/ "bullet" \in line /\ "queued" \in line
  \/ line \cap {"bullet", "mark", "circle", "codex prompt", "rule"} = {}

\* A status line that ends in its elapsed time.
CodexTimer(line) == "timer" \in line

CodexWorking(v) ==
  LET r == BeforeCodexPrompt(v) IN
  /\ ~Has(v, r, "reconnect failed")
  /\ \E i \in Within(r) : CodexTimer(v.lines[i]) /\ \A j \in Within(r) : j > i => CodexTrailer(v.lines[j])

Codex(v) ==
  << <<"action required" \in v.title, Blocked>>,
     <<"frame" \in v.title, Working>>,
     <<CodexTranscriptViewer(v), Overlay>>,
     <<CodexTrustDirectory(v), Blocked>>,
     <<CodexStartupUpdate(v), Blocked>>,
     <<CodexStrongBlocker(v), Blocked>>,
     <<CodexWeakBlocker(v), Says("Blocked", FALSE)>>,
     <<CodexWorking(v), Working>>,
     <<v.title # {}, Prompt>> >>

--------------------------------------------------------------------------------
\* OpenCode.
OpenCodePermission(v) ==
  \/ Has(v, All(v), "permission required")
  \/ Has(v, All(v), "esc dismiss") /\ Has(v, All(v), "enter confirm") /\ HasAny(v, All(v), {"select", "tab"})

OpenCodeInterruptHint(v) == HasAny(v, All(v), {"to interrupt", "opencode esc interrupt"})

OpenCode(v) ==
  << <<OpenCodePermission(v), Blocked>>,
     <<OpenCodeInterruptHint(v), Working>>,
     <<Has(v, All(v), "progress bar"), Working>> >>

--------------------------------------------------------------------------------
\* snapshot: the blank rows below the last line of content are no part of the screen.
Snapshot(rows) ==
  LET filled == {i \in DOMAIN rows : rows[i] # {}} IN
  IF filled = {} THEN <<>> ELSE SubSeq(rows, 1, Max(filled))

Rules(agent, v) ==
  CASE agent = "Claude" -> Claude(v) [] agent = "Codex" -> Codex(v) [] agent = "OpenCode" -> OpenCode(v)

\* detect: the first rule that hits decides; an agent that shows none of its tells is idle,
\* but the screen does not say so.
Verdict(rules) ==
  LET hits == {i \in DOMAIN rules : rules[i][1]} IN
  IF hits = {} THEN Says("Idle", FALSE) ELSE rules[Min(hits)][2]

View(rows, title) == [lines |-> Snapshot(rows), title |-> title]
Detect(agent, rows, title) == Verdict(Rules(agent, View(rows, title)))

--------------------------------------------------------------------------------
\* Every region can be sliced: the scanner would panic otherwise, and no session's
\* activity would ever move again.
IsSlice(v, r) == r.from \in 1..r.to /\ r.to <= End(v)

RegionsAreSlices ==
  \A s \in Screens : LET v == View(s.rows, s.title) IN
    /\ \A n \in {Near, Mid, Far, Page} : IsSlice(v, Bottom(v, n)) /\ IsSlice(v, Top(v, n))
    /\ IsSlice(v, AfterLastRule(v)) /\ IsSlice(v, AfterLastCodexPrompt(v))
    /\ IsSlice(v, PromptBoxBody(v)) /\ IsSlice(v, LastLineAbovePromptBox(v))
    /\ IsSlice(v, BeforeCodexPrompt(v))

\* The prompt is on the screen and takes input, and the screen is long enough for what is
\* read from its end.
LivePrompt(agent, v) ==
  CASE agent = "Claude" -> /\ ClaudePromptBox(v)
                           /\ LastLineAbovePromptBox(v) # Nothing
                           /\ Cardinality(Filled(v)) >= Max({Near, Mid, Far})
    [] agent = "Codex" -> CodexPrompt(v) # {} /\ ~CodexTrustDirectory(v)
    [] agent = "OpenCode" -> FALSE

\* What is looked for above a live prompt all the same.
WholeScreen(agent) ==
  CASE agent = "Claude" -> {"run a dynamic workflow?", "esc to cancel", "requests your input", "accept or decline"}
    [] agent = "Codex"  -> {"timer", "reconnect failed", "you are in", "folder access", "trust this folder?",
                            "do you trust the contents of this directory?", "enter continue",
                            "update available!", "update now", "skip until next version"}
    [] agent = "OpenCode" -> {}

HistoryIsIgnored ==
  \A agent \in {"Claude", "Codex"}, s \in Screens : LivePrompt(agent, View(s.rows, s.title)) =>
    \A line \in Lines : line \cap WholeScreen(agent) = {} =>
      Detect(agent, <<line>> \o s.rows, s.title) = Detect(agent, s.rows, s.title)
================================================================================
