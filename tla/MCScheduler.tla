---------------------------- MODULE MCScheduler -----------------------------
(***************************************************************************)
(* Priorities scaled down to three or two a level, and a timer period of   *)
(* two units so that a thread can be dispatched in the middle of one.      *)
(***************************************************************************)
EXTENDS Scheduler

Line(ep, ee) == [ep |-> ep, ee |-> ee]

\* Levels 3, 3, 2 and 2, 2, 1 to the end; 3, 2, 1 and 1, 1, 2 and 2, 2, 3 with -ee.
ThreePrograms == {Line(<<0, 0, 4>>, FALSE), Line(<<4, 5, 7>>, FALSE),
                  Line(<<0, 4, 7>>, TRUE), Line(<<7, 7, 4>>, TRUE), Line(<<4, 4, 2>>, TRUE)}

\* Two programs of levels 1 to 3 with -ee, at two priorities a level.
TwoPrograms == {Line(ep, TRUE) : ep \in [ExecThreads -> {0, 2, 4}]}
=============================================================================
