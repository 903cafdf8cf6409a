---- MODULE MCDesktopSession ----
EXTENDS DesktopSession, TLC

Perms == Permutations(Users) \cup Permutations(Slots)
====
