----------------------------- MODULE MCPrograms -----------------------------
(***************************************************************************)
(* Two programs of one page, one of two pages and one whose executable is  *)
(* missing, on three frames; a word is the name of a file or nothing.      *)
(***************************************************************************)
EXTENDS Programs, TLC

CONSTANTS p1, p2, p3, p4, a, b

MCPages == p1 :> 1 @@ p2 :> 1 @@ p3 :> 2 @@ p4 :> 1
MCText == p1 :> (0 :> a) @@ p2 :> (0 :> a)
          @@ p3 :> (0 :> b @@ 1 :> a) @@ p4 :> (0 :> Zero)
MCInitialFiles == a :> <<b>>

\* p1 and p2 are the same program.
ProgramSymmetry == Permutations({p1, p2})
=============================================================================
