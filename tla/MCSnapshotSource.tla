-------------------------- MODULE MCSnapshotSource --------------------------
EXTENDS SnapshotSource, TLC

\* Neither the server nor tar tells one part from another.
Symmetry == Permutations(Parts)
=============================================================================
