---- MODULE MCLinkToDaemon ----
EXTENDS LinkToDaemon
====
