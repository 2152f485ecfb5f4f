--------------------------- MODULE MCSnapshotFile ---------------------------
(* Instances of SnapshotFile for TLC: two writers, and inodes for the real *)
(* file, the temporary files and a spare one.                              *)
EXTENDS SnapshotFile

CONSTANTS w1, w2, i1, i2, i3, i4

TwoWriters == {w1, w2}
FourInodes == {i1, i2, i3, i4}

=============================================================================
