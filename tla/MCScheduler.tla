---------------------------- MODULE MCScheduler ----------------------------
(***************************************************************************)
(* Two RenovateJobs whose names differ by a dash and whose Fullnames do    *)
(* not collide: "a-b" in "c", and "a" in "b".                              *)
(***************************************************************************)
EXTENDS Scheduler

MCRenovateJobs == {[name |-> <<"a", "b">>, namespace |-> <<"c">>],
                   [name |-> <<"a">>, namespace |-> <<"b">>]}

\* The runs of the first may overlap; the second is there for its requests and
\* its entry.
MCMaxOverlap == [job \in MCRenovateJobs |-> IF job.namespace = <<"c">> THEN 2 ELSE 0]
=============================================================================
