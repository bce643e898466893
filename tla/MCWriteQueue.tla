---------------------------- MODULE MCWriteQueue ----------------------------
EXTENDS WriteQueue, TLC

\* Threads are interchangeable.
Threads == Permutations(Thread)
=============================================================================
