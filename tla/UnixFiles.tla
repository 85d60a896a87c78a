----------------------------- MODULE UnixFiles -----------------------------
(***************************************************************************)
(* The files of the host, to which the stub file system of NachOS passes   *)
(* its calls (lib/sysdep.cc): a file is a sequence of words, and `files`   *)
(* maps the names of the files that exist to their contents.               *)
(***************************************************************************)
EXTENDS Integers, Sequences

CONSTANT Zero  \* an empty word

\* open with O_CREAT and O_TRUNC: an empty file of that name, whatever was there.
OpenTruncated(files, name) ==
    [x \in DOMAIN files \cup {name} |-> IF x = name THEN << >> ELSE files[x]]

\* lseek and write: a gap left before the position reads as empty words.
WrittenAt(words, position, w) ==
    [k \in 1 .. (IF Len(words) > position THEN Len(words) ELSE position + 1) |->
        IF k = position + 1 THEN w ELSE IF k <= Len(words) THEN words[k] ELSE Zero]

\* lseek and read: nothing at or beyond the end.
AtEnd(words, position) == position >= Len(words)
ReadAt(words, position) == words[position + 1]
=============================================================================
