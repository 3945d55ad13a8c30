---------------------------- MODULE MCSimdKernels ----------------------------
EXTENDS SimdKernels

\* Every width of every back end, alone, repeated and followed by its rest.
MCInputs == {0, 1, 3, 4, 7, 8, 15, 16, 31}
MCBlocks == {1, 3}
\* A counter at 0, one that carries into the high word inside the first group
\* of every width, and one that wraps.
MCStarts == {0, Word - 2, Word * Word - 3}
=============================================================================
