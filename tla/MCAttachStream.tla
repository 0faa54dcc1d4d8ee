---- MODULE MCAttachStream ----
EXTENDS AttachStream

\* Attach aborts the old forwarder "Before the replay, so no stale live chunk can land after it"
\* (server.rs:657). The poll that the abort finds under way still sends what it received: this
\* fails, and no run checks it.
NoStaleChunk ==
  \A c \in Client : \A j \in DOMAIN out[c] :
    out[c][j].kind = "live" => out[c][j].attach = out[c][1].attach
====
