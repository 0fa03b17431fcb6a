------------------------------- MODULE MCFat -------------------------------
(***************************************************************************)
(* The instances of the file system that TLC checks.                       *)
(***************************************************************************)
EXTENDS FatProperties, TLC

\* A program creates a file, reopens it to append to it or to read it.
MCAll == {{"O_RDWR", "O_CREAT", "O_EXCL"}, {"O_WRONLY", "O_APPEND"}, {}}
\* No name is special.
Symmetry == Permutations(Name)
\* No action reads the result of the last call.
AllButReply == <<disk, inode, call, written>>
================================================================================
