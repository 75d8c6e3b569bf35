--------------------------- MODULE MCVolumeReplay ---------------------------
EXTENDS VolumeReplay, TLC

CONSTANTS a, b, c, r1, r2

\* A directory with two entries in an implicit one, and a neighbour of both:
\* files and whole directories move up, down and out, several files at once.
BranchPaths == {<<a, b>>, <<a, b, a>>, <<a, b, c>>, <<b>>}

\* Contents are interchangeable; no property below is a liveness property.
ContentSymmetry == Permutations(Blobs)
=============================================================================
