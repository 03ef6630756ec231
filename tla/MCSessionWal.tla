---------------------------- MODULE MCSessionWal ----------------------------
EXTENDS SessionWal, TLC
EntrySymmetry == Permutations(Entries)
=============================================================================
