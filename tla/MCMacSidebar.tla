------------------------------ MODULE MCMacSidebar ------------------------------
EXTENDS MacSidebar

\* One session on each of two machines.
TwoMachines == (1 :> 0) @@ (2 :> 1)
================================================================================
