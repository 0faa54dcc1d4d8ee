------------------------------- MODULE MCShellPanel -------------------------------
EXTENDS ShellPanel, TLC

\* The panel's rules never tell one session from another.
SessionsAlike == Permutations(Agent)
================================================================================
