------------------------------ MODULE FileTree ------------------------------
(***************************************************************************)
(* What the file system of NachOS-4.0_MP4 promises (filesys/filesys.h): a  *)
(* tree of named files and directories whose operations take effect at one *)
(* instant each.  A path is the sequence of names below the root.          *)
(***************************************************************************)
EXTENDS Naturals, Sequences

CONSTANTS Paths, Names, Nodes

VARIABLE tree  \* the paths that exist, each with its node

Init == tree = [p \in {} |-> p]

Parent(path) == SubSeq(path, 1, Len(path) - 1)

\* create a file or a directory, whose path is new, in a directory that exists
Add(path, node) ==
    /\ Len(path) > 1 => Parent(path) \in DOMAIN tree /\ tree[Parent(path)].isDir
    /\ tree' = [p \in DOMAIN tree \cup {path} |-> IF p = path THEN node ELSE tree[p]]

\* remove an entry of the root, with everything below it
Remove(name) == /\ <<name>> \in DOMAIN tree
                /\ tree' = [p \in {q \in DOMAIN tree : q[1] # name} |-> tree[p]]

Next == \/ \E path \in Paths \ DOMAIN tree : \E node \in Nodes : Add(path, node)
        \/ \E name \in Names : Remove(name)

Spec == Init /\ [][Next]_tree
=============================================================================
