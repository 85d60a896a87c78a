---------------------------- MODULE MCFileSystem ----------------------------
(***************************************************************************)
(* Disks of a few sectors of two bytes.  A header addresses two sectors,   *)
(* so that a file of five bytes needs a chain of two headers and one of    *)
(* four bytes fills its header exactly.                                    *)
(***************************************************************************)
EXTENDS FileSystem, TLC

\* No action and no property tells one name from another.
NameSymmetry == Permutations(Names)
=============================================================================
