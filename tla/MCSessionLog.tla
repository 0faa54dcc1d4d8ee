---- MODULE MCSessionLog ----
EXTENDS SessionLog

\* trim: "Modes set before the part we keep would otherwise be unrecoverable" (server.rs:296).
\* So they are where the cut falls into a sequence: this fails, and no run checks it.
TrimKeepsModes == Sound(said) => ModeAfter(log) = ModeAfter(said)
====
