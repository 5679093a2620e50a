----------------------------- MODULE MCEmsLocal -----------------------------
(* Constant values for model checking EmsLocal.                            *)
EXTENDS EmsLocal

CONSTANTS t1, t2

MCThreads   == {t1, t2}
MCSizes     == {<<1, 2>>}
\* One seat, both seats, a seat named twice, a seat out of bounds.
MCSeatLists == {<< <<1, 1>> >>, << <<1, 2>>, <<1, 1>> >>,
                << <<1, 2>>, <<1, 2>> >>, << <<1, 1>>, <<1, 3>> >>}

=============================================================================
