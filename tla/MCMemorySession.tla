-------------------------- MODULE MCMemorySession --------------------------
EXTENDS MemorySession, TLC

\* Entries, records and sessions are interchangeable.
Symmetry == Permutations(Id) \cup Permutations(SessionId)
=============================================================================
