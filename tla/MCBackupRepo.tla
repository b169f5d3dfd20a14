---------------------------- MODULE MCBackupRepo ----------------------------
EXTENDS BackupRepo, TLC

\* No definition tells one content from another.
Symmetry == Permutations(Contents)
=============================================================================
