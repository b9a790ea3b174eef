--------------------------- MODULE MCArtifactLock ---------------------------
(* ArtifactLock on a small instance.  Three runs on one revision are the   *)
(* fewest in which one deletes, one waits on the unlinked inode and a      *)
(* third takes the new lock file.                                          *)
EXTENDS ArtifactLock

=============================================================================
