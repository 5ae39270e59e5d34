----------------------------- MODULE MCArgFile -----------------------------
(***************************************************************************)
(* Two regular files, a pipe, a directory and a link to the first file; a  *)
(* new file may get the inode of the first, a new directory that of the    *)
(* second.                                                                 *)
(***************************************************************************)
EXTENDS ArgFile

MCObject == {"file", "newfile", "other", "newdir", "pipe", "dir", "link"}
MCType == [file |-> "REG", newfile |-> "REG", other |-> "REG",
           newdir |-> "DIR", pipe |-> "FIFO", dir |-> "DIR", link |-> "LNK"]
MCTarget == [link |-> "file"]
MCHeir == [file |-> "newfile", other |-> "newdir"]
OpenStdin == {"file", "other", "pipe"}
ClosedStdin == {"closed"}

Everywhere == {"open", "fstat", "detect", "run", "close", "lstat", "unlink",
               "exec"}
=============================================================================
