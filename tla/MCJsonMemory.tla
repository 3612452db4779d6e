------------------------------ MODULE MCJsonMemory ------------------------------
\* Two Values of an application, and a small heap.
EXTENDS JsonMemory
LOCAL INSTANCE TLC

MCBlocks == 1 .. 5
Symmetry == Permutations(Vars)
MCTexts == {1}

\* What the next operation may do does not depend on the last one, unless that
\* was a copyPayload that failed.
Memory == <<heap, var, Sound>>
=============================================================================
