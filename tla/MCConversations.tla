---- MODULE MCConversations ----
EXTENDS Conversations, TLC

Symmetry == Permutations(Conv) \cup Permutations(Saver) \cup Permutations(Inode)
====
