---------------------------- MODULE MCJobThreads ----------------------------
(* Constant values for model checking JobThreads.                          *)
EXTENDS JobThreads

CONSTANT MaxLength

\* A WAIT for all, for the first thread, and for a thread that does not exist.
MCCommands == {RunCommand, OtherCommand, BarrierCommand}
                \cup {[op |-> "wait", target |-> t, delay |-> 1] : t \in {All, 0, 7}}
MCJobs == UNION {[1 .. n -> MCCommands] : n \in 0 .. MaxLength}
MCDelays == {1}

=============================================================================
