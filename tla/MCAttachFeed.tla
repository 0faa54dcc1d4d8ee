------------------------------ MODULE MCAttachFeed ------------------------------
EXTENDS AttachFeed
================================================================================
