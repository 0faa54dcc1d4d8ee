----------------------------- MODULE ActivityTracker -----------------------------
(***************************************************************************)
(* What a session is shown to be doing: the screen each run paints, Watch  *)
(* and Tracker that read it (src/src/server.rs, src/src/detect.rs), and    *)
(* the scanner that carries a reading into the table while the session     *)
(* stops and is restarted under it.                                        *)
(*                                                                         *)
(* One agent session.  A screen is kept as what detect says of it, by the  *)
(* rules of ScreenRules.  Time is counted in ticks and only as far as it   *)
(* matters: an age past the startup grace, or a wait past the idle hold,   *)
(* is no different from a longer one.                                      *)
(***************************************************************************)
EXTENDS ScreenRules

CONSTANTS
  Argv,     \* the command line of the session
  MaxRuns,  \* bound on the launches of the session
  Grace,    \* STARTUP_GRACE
  Hold      \* IDLE_HOLD

ASSUME TrackerAssumption == AgentOf(Argv) # {} /\ MaxRuns \in Nat /\ Grace \in Nat /\ Hold \in Nat

VARIABLES
  runs,     \* launches so far
  run,      \* the run in the table, 0 for a stopped session
  activity, \* SessionInfo.activity
  watch,    \* the Watch of each run, with the screen it parses
  scanner   \* the scanner task and what it found

trackerVars == <<runs, run, activity, watch, scanner>>

Run == 1..MaxRuns
Activity == {"Unknown", "Working", "Blocked", "Idle"}

\* What the screens say that the agent can paint. Before the first chunk there is nothing
\* on it.
Painted == {Detect(agent, s.rows, s.title) : agent \in AgentOf(Argv), s \in Screens}
Bare == Says("Idle", FALSE)
Blank == Says("Unknown", FALSE)
StateOf(screen) == screen.state

NotWaiting == Hold + 1

Watch == [screen : Painted \cup {Blank},
          dirty  : BOOLEAN,          \* seq # scanned
          age    : 0..Grace,         \* since born
          shown  : Activity,
          idle   : 0..(Hold + 1),    \* since idle_since, NotWaiting for None
          calm   : 0..Hold]          \* since the last look that read working

\* The variables have these types in every reachable state.
TrackerTypeOK ==
  /\ runs \in 0..MaxRuns
  /\ run \in 0..runs
  /\ activity \in Activity
  /\ watch \in [Run -> Watch]
  /\ scanner \in [at : {"idle", "read", "apply"}, run : 0..MaxRuns, moved : Activity]

--------------------------------------------------------------------------------
NewWatch == [screen |-> Blank, dirty |-> FALSE, age |-> 0, shown |-> "Unknown",
             idle |-> NotWaiting, calm |-> 0]
Resting == [at |-> "idle", run |-> 0, moved |-> "Unknown"]

Init ==
  /\ runs = 0 /\ run = 0
  /\ activity = "Unknown"
  /\ watch = [k \in Run |-> NewWatch]
  /\ scanner = Resting

\* A launch or a relaunch registers the run; its Watch was made with it.
Launch ==
  /\ run = 0
  /\ runs < MaxRuns
  /\ runs' = runs + 1 /\ run' = runs + 1
  /\ activity' = "Unknown"
  /\ UNCHANGED <<watch, scanner>>

\* mark_stopped
Stop ==
  /\ run # 0
  /\ run' = 0
  /\ activity' = "Unknown"
  /\ UNCHANGED <<runs, watch, scanner>>

\* A chunk of output or a resize: another screen, or the same one to look at again.
Paint ==
  /\ run # 0
  /\ \E s \in Painted : watch' = [watch EXCEPT ![run].screen = s, ![run].dirty = TRUE]
  /\ UNCHANGED <<runs, run, activity, scanner>>

UpTo(n, top) == IF n < top THEN n + 1 ELSE n

Tick ==
  /\ watch' = [k \in Run |->
                 IF k > runs THEN watch[k]
                 ELSE [watch[k] EXCEPT !.age = UpTo(@, Grace),
                                       !.calm = UpTo(@, Hold),
                                       !.idle = IF @ = NotWaiting THEN @ ELSE UpTo(@, Hold)]]
  /\ UNCHANGED <<runs, run, activity, scanner>>

--------------------------------------------------------------------------------
Starting(w) == w.age < Grace
Pending(w) == w.idle # NotWaiting

\* Tracker::step, past the grace: an overlay says nothing, and working turns into an idle
\* nothing vouches for only once that idle has been waited out.
Waits(w) == w.shown = "Working" /\ w.screen = Bare
Since(w) == IF Pending(w) THEN w.idle ELSE 0

Settled_StillWaiting(w) == [w EXCEPT !.shown = StateOf(w.screen), !.idle = IF StateOf(w.screen) = "Working" THEN @ ELSE NotWaiting]
Settled(w) == [w EXCEPT !.shown = StateOf(w.screen), !.idle = NotWaiting]

Stepped(w) ==
  IF w.screen = Overlay THEN w
  ELSE IF Waits(w) /\ Since(w) < Hold THEN [w EXCEPT !.idle = Since(w)]
  ELSE Settled(w)

\* Watch::scan: nothing new and nothing pending is not read again; nor is a splash, which
\* is left unscanned for the first look after the grace.
Looked(w) == [w EXCEPT !.dirty = FALSE, !.calm = IF StateOf(w.screen) = "Working" THEN 0 ELSE @]

Scanned_Splash(w) ==
  IF ~w.dirty /\ ~Pending(w) THEN w
  ELSE IF Starting(w) THEN [w EXCEPT !.dirty = FALSE]
  ELSE Stepped(Looked(w))

Scanned(w) == IF (~w.dirty /\ ~Pending(w)) \/ Starting(w) THEN w ELSE Stepped(Looked(w))

\* Tracker::step says whether what is shown has changed.
Moved_ComparedLate(before, after) == after.shown # after.shown
Moved(before, after) == before.shown # after.shown

\* scan: the running agent, under the table's lock...
ScanLook ==
  /\ scanner.at = "idle"
  /\ run # 0
  /\ scanner' = [at |-> "read", run |-> run, moved |-> "Unknown"]
  /\ UNCHANGED <<runs, run, activity, watch>>

\* ... then its screen, under the Watch's lock alone...
ScanRead ==
  /\ scanner.at = "read"
  /\ LET k == scanner.run
         w == Scanned(watch[k]) IN
       /\ watch' = [watch EXCEPT ![k] = w]
       /\ scanner' = IF Moved(watch[k], w)
                       THEN [scanner EXCEPT !.at = "apply", !.moved = w.shown]
                       ELSE Resting
  /\ UNCHANGED <<runs, run, activity>>

\* ... and what moved goes to the table, if the session has a run.
HasRun == run # 0

ScanApply ==
  /\ scanner.at = "apply"
  /\ activity' = IF HasRun THEN scanner.moved ELSE activity
  /\ scanner' = Resting
  /\ UNCHANGED <<runs, run, watch>>

Scan == ScanLook \/ ScanRead \/ ScanApply

Next == Launch \/ Stop \/ Paint \/ Tick \/ Scan

Spec == Init /\ [][Next]_trackerVars

\* Time passes, and the interval of the scanner goes off again and again. A launched agent
\* may never paint anything, and nobody has to launch it.
FairSpec == Spec /\ WF_trackerVars(Tick) /\ WF_trackerVars(Scan)

--------------------------------------------------------------------------------
\* What is on the screen decides, whatever has scrolled by: the scanner reads every screen
\* without a fault, and under a live prompt a line of the conversation above, be it a
\* question, an option or a spinner that it quotes, changes nothing.
ScreensAreRead ==
  /\ \A k \in Run : watch[k].screen \in Painted \cup {Blank}
  /\ RegionsAreSlices /\ HistoryIsIgnored

\* A gap in the spinner is not idleness: working turns into an idle nothing vouches for
\* only after the hold without a look that read working.
NoFlicker ==
  [][\A k \in Run :
       watch[k].shown = "Working" /\ watch'[k].shown = "Idle" /\ watch[k].screen = Bare
         => watch[k].calm >= Hold]_trackerVars

\* The table says of a run that is registered what its Tracker shows, or is about to, or
\* (a reading of the run before it came late) what that one was shown to do.
TableFollows ==
  run # 0 /\ scanner.at # "apply" =>
    \/ activity = watch[run].shown
    \/ /\ watch[run].shown = "Unknown"
       /\ \E k \in 1..(run - 1) : activity = watch[k].shown

\* Whatever was shown before, and however fast the agent went through it: a screen that
\* says something and stays on is what the table ends up showing.
TableCatchesUp ==
  \A k \in Run, s \in Painted \ {Overlay} :
    <>[](run = k /\ watch[k].screen = s) => <>[](activity = StateOf(s))
================================================================================
