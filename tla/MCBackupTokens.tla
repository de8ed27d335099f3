---------------------------- MODULE MCBackupTokens ----------------------------
(* Two NIOS backups and one of EfficientIP, and two scans that may carry any *)
(* of their tokens, the same one included.                                   *)
EXTENDS BackupTokens

CONSTANTS n1, n2, e1

MCUploads == {n1, n2, e1}
MCNios == {n1, n2}
=============================================================================
