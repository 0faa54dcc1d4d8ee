---------------------------- MODULE MCActivityTracker ----------------------------
EXTENDS ActivityTracker

MCArgv == <<"bash", "-lc", "claude-code">>

Plain == {"text"}
Rule == {"rule"}
Cursor == {"cursor", "at cursor", "bare cursor"}
Proceed == {"do you want to", "do you want to proceed?"}
Yes == {"yes", "option"}
Confirm == {"esc to cancel", "enter to confirm"}
Tasks == {"activity", "tasks still running"}

MCLines == {{}, Plain, Rule, Cursor, Proceed, Yes, {"turn"}, Tasks, {"waiting for agents"}, {"/btw"},
            {"showing detailed transcript"}, {"indented", "tasks still running"}, {"select model"},
            {"codex prompt"}, {"bullet"}, {"bullet", "timer"}, {"[y/n]"}, {"sparkle"}, {"allow command?"},
            {"to scroll"}, {"update now"}}

\* A conversation, a prompt box or what stands in its place, and a line below it; the
\* dialogs that replace the box.
ClaudeRows ==
  {<<a, b, Rule, p, Rule, f>> : a \in {{}, Plain, Proceed, {"activity"}},
                                b \in {Plain, Yes, {"turn"}, {"waiting for agents"}, {"indented", "tasks still running"}},
                                p \in {Cursor, {"cursor", "at cursor"}, Plain, {"at cursor", "enter to select"}},
                                f \in {{}, Plain, Confirm, {"turn"}, Tasks, {"/btw", "esc to close"},
                                       {"showing detailed transcript", "scroll"}}}
  \cup {<<Rule, Proceed, y, f>> : y \in {Yes, {"bare yes", "yes"}},
                                  f \in {{}, Plain, {"esc to cancel"}, {"tab to amend"}}}
  \cup {<<Plain, {"activity"}, {"indented", "tasks still running"}>>,
        <<{"run a dynamic workflow?"}, {"esc to cancel"}>>,
        <<{"requests your input"}, {"accept or decline"}, {"esc to cancel"}>>,
        <<{"select model", "enter to set as default"}, {"esc to cancel"}>>,
        <<Rule>>, <<{}>>, <<>>}

\* Codex with its prompt at the end, and what it asks before there is one.
CodexRows ==
  {<<a, b, p, f>> : a \in {Plain, {"bullet", "timer"}, {"reconnect failed"}},
                    b \in {Plain, {"bullet"}, {"[y/n]"}, {"bullet", "queued"}, {"timer"}},
                    p \in {{"codex prompt"}, {"sparkle"}, Plain}, f \in {{}, Plain, {"mark"}, {"allow command?"}}}
  \cup {<<{"you are in"}, Plain, {"do you trust the contents of this directory?"}>>,
        <<{"update available!", "update now"}, {"skip until next version"}, {"press enter to continue"}>>,
        <<{"codex prompt"}, {"to scroll", "home/end to jump"}, {"q to quit", "to edit prev"}>>}

OpenCodeRows == {<<Plain, t>> : t \in {{"permission required"}, {"to interrupt"}, {"progress bar"}}}

MCScreens == [rows : ClaudeRows \cup CodexRows \cup OpenCodeRows,
              title : {{}, {"spinner", "frame"}, {"star"}, {"action required"}}]
================================================================================
