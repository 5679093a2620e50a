----------------------------- MODULE MCEmsServer ----------------------------
(* Constant values for model checking EmsServer and EmsServerRefinement.   *)
EXTENDS EmsServerRefinement, TLC

CONSTANTS w1, w2

MCWorkers   == {w1, w2}
MCSizes     == {<<1, 2>>}
\* One seat, both seats, a seat named twice, a seat out of bounds.
MCSeatLists == {<< <<1, 1>> >>, << <<1, 2>>, <<1, 1>> >>,
                << <<1, 2>>, <<1, 2>> >>, << <<1, 1>>, <<1, 3>> >>}
Symmetry    == Permutations(MCWorkers)

=============================================================================
