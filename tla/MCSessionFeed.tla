---- MODULE MCSessionFeed ----
EXTENDS SessionFeed
====
