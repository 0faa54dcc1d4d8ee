----------------------------- MODULE MCTerminalApp -----------------------------
EXTENDS TerminalApp

MCHome == <<7, 8>>
MCVmOf == [s \in Sid |-> s]
MCCwd == [s \in Sid |-> IF s = 1 THEN [lead |-> "~", names |-> <<>>]
                        ELSE [lead |-> "/", names |-> <<7, 8, 5, 6>>]]
MCHits == [t \in Text |-> IF t = "all" THEN Sid ELSE {2}]
MCPastes == {<<"x">>, <<"n", "d", "y">>}
MCSamples == {[lead |-> "/", names |-> <<>>],
              [lead |-> "~", names |-> <<5>>],
              [lead |-> "/", names |-> <<7, 8, 5, 6>>],
              [lead |-> "/", names |-> <<7, 8, 5, 6, 9>>],
              [lead |-> "/", names |-> <<7, 5>>]}
================================================================================
