----------------------------- MODULE JobThreads -----------------------------
(***************************************************************************)
(* The threads that share one job file in Part 1: process_job of           *)
(* Part1/src/main.c and Part1/src/threaded.c.  Each thread takes the next   *)
(* command under parseMutex and runs it outside; WAIT makes other threads  *)
(* sleep, BARRIER ends the round: main joins the threads and starts anew.   *)
(*                                                                         *)
(* job_fd, thread_waits, thread_delays and barrier are only used under     *)
(* parseMutex while threads run, so a critical section is one step.  What   *)
(* a command does to the store is not modelled here, only that it takes    *)
(* time.  When a thread cannot be created or reports a failure, main frees *)
(* what the others still use and exits: the model stops there.             *)
(***************************************************************************)
EXTENDS Integers, Sequences

CONSTANTS
  MaxThreads, \* max_threads, at least 1 as main checks
  Delays,     \* delays of WAIT commands, not 0
  Jobs,       \* job files: sequences of commands
  MaxFaults   \* bound: threads that cannot be created or allocate

Threads == 0 .. MaxThreads - 1
All     == -1

\* A command as the parser returns it.  "other" is what changes nothing:
\* HELP, an empty line, a comment, an invalid command, WAIT 0.
RunCommand     == [op |-> "run"]
OtherCommand   == [op |-> "other"]
BarrierCommand == [op |-> "barrier"]
WaitCommands   == [op : {"wait"}, target : {All} \cup Nat, delay : Delays]
Commands == {RunCommand, OtherCommand, BarrierCommand} \cup WaitCommands

ASSUME ThreadsAssumption == MaxThreads \in Nat \ {0} /\ MaxFaults \in Nat
ASSUME DelaysAssumption  == Delays \subseteq Nat \ {0}
ASSUME JobsAssumption    == \A j \in Jobs : j \in Seq(Commands)

VARIABLES
  job,     \* the job file
  pos,     \* commands read from job_fd
  barrier, \* the flag of the round
  waits,   \* thread_waits
  delays,  \* thread_delays
  mpc,     \* main: "setup", "create", "join", "done" or "failed"
  count,   \* main: threads created or joined in this round
  pc,      \* where each thread is
  cmd,     \* the command each thread runs
  ret,     \* what each thread returned
  ran,     \* commands whose ems_ call has returned
  faults

main    == <<mpc, count, faults>>
parse   == <<pos, barrier, waits, delays>>
threads == <<pc, cmd, ret>>
vars    == <<job, parse, main, threads, ran>>

Returns == {"none", "null", "success", "barrier"}

Init ==
  /\ job \in Jobs /\ pos = 0 /\ barrier = FALSE
  /\ waits = [t \in Threads |-> FALSE] /\ delays = [t \in Threads |-> 0]
  /\ mpc = "setup" /\ count = 0 /\ faults = 0
  /\ pc = [t \in Threads |-> "none"] /\ cmd = [t \in Threads |-> 0]
  /\ ret = [t \in Threads |-> "none"] /\ ran = {}

Fault == faults < MaxFaults /\ faults' = faults + 1

----------------------------------------------------------------------------
(* process_job and dispatch_threads.                                       *)

\* Mutant: the flag of the last round is left up.
ClearKeepsBarrier ==
  /\ UNCHANGED barrier
  /\ waits' = [t \in Threads |-> FALSE] /\ delays' = [t \in Threads |-> 0]
ClearRound ==
  /\ barrier' = FALSE
  /\ waits' = [t \in Threads |-> FALSE] /\ delays' = [t \in Threads |-> 0]

Setup ==
  /\ mpc = "setup" /\ mpc' = "create" /\ count' = 0 /\ ClearRound
  /\ UNCHANGED <<job, pos, faults, threads, ran>>

\* Mutant: one thread too many.
MoreToCreateOneOff == count <= MaxThreads
MoreToCreate == count < MaxThreads

Create ==
  /\ mpc = "create" /\ MoreToCreate
  /\ pc' = [pc EXCEPT ![count] = "start"]
  /\ ret' = [ret EXCEPT ![count] = "none"]
  /\ count' = count + 1
  /\ UNCHANGED <<job, parse, mpc, faults, cmd, ran>>

CreateFail ==
  /\ mpc = "create" /\ MoreToCreate /\ Fault
  /\ mpc' = "failed"
  /\ UNCHANGED <<job, parse, count, threads, ran>>

Created ==
  /\ mpc = "create" /\ count = MaxThreads
  /\ mpc' = "join" /\ count' = 0
  /\ UNCHANGED <<job, parse, faults, threads, ran>>

\* Mutant: the thread is not waited for.
ExitedAny(t) == TRUE
Exited(t) == pc[t] = "exited"

Join ==
  /\ mpc = "join" /\ count < MaxThreads /\ Exited(count)
  /\ \/ ret[count] = "null" /\ mpc' = "failed" /\ UNCHANGED count
     \/ ret[count] # "null" /\ count' = count + 1 /\ UNCHANGED mpc
  /\ UNCHANGED <<job, parse, faults, threads, ran>>

Joined ==
  /\ mpc = "join" /\ count = MaxThreads
  /\ mpc' = IF barrier THEN "setup" ELSE "done"
  /\ UNCHANGED <<job, parse, count, faults, threads, ran>>

Main == Setup \/ Create \/ Created \/ Join \/ Joined

----------------------------------------------------------------------------
(* process_commands.                                                       *)

At(t, l)   == pc[t] = l /\ mpc # "failed"
Goto(t, l) == pc' = [pc EXCEPT ![t] = l]
Exit(t, r) == Goto(t, "exited") /\ ret' = [ret EXCEPT ![t] = r]

Start(t) ==
  /\ At(t, "start") /\ Goto(t, "loop")
  /\ UNCHANGED <<job, parse, main, cmd, ret, ran>>

\* malloc of the return value fails.
StartFail(t) ==
  /\ At(t, "start") /\ Fault /\ Exit(t, "null")
  /\ UNCHANGED <<job, parse, mpc, count, cmd, ran>>

\* Mutant: the pending delay is not reset.
TakeDelayKeeps(t) == waits' = [waits EXCEPT ![t] = FALSE] /\ UNCHANGED delays
TakeDelay(t) == /\ waits' = [waits EXCEPT ![t] = FALSE]
                /\ delays' = [delays EXCEPT ![t] = 0]

MustWait(t) == waits[t] /\ ~barrier

Sleep(t) ==
  /\ At(t, "loop") /\ MustWait(t)
  /\ TakeDelay(t) /\ Goto(t, "sleep")
  /\ UNCHANGED <<job, pos, barrier, main, cmd, ret, ran>>

\* The thread holds parseMutex, after its sleep if it had to sleep.
HasTurn(t) == At(t, "sleep") \/ (At(t, "loop") /\ ~MustWait(t))

\* Mutant: a thread does not look at the barrier.
MayReadAlways(t) == HasTurn(t)
MayRead(t) == HasTurn(t) /\ ~barrier
\* Mutant: the place in the file does not move on.
ReadsAgain(t, op) ==
  MayRead(t) /\ pos < Len(job) /\ job[pos + 1].op = op /\ UNCHANGED pos
Reads(t, op) == MayRead(t) /\ pos < Len(job) /\ job[pos + 1].op = op /\ pos' = pos + 1

SeeBarrier(t) ==
  /\ HasTurn(t) /\ barrier /\ Exit(t, "barrier")
  /\ UNCHANGED <<job, parse, main, cmd, ran>>

TakeRun(t) ==
  /\ Reads(t, "run") /\ Goto(t, "run") /\ cmd' = [cmd EXCEPT ![t] = pos + 1]
  /\ UNCHANGED <<job, barrier, waits, delays, main, ret, ran>>

Finish(t) ==
  /\ At(t, "run") /\ Goto(t, "loop")
  /\ ran' = ran \cup {cmd[t]} /\ cmd' = [cmd EXCEPT ![t] = 0]
  /\ UNCHANGED <<job, parse, main, ret>>

TakeOther(t) ==
  /\ Reads(t, "other") /\ Goto(t, "loop")
  /\ UNCHANGED <<job, barrier, waits, delays, main, cmd, ret, ran>>

\* inject_wait: a WAIT for one thread replaces what is pending, a WAIT for all
\* adds to it; an unknown thread is reported.
InjectWait(target, delay) ==
  \/ /\ target \in Threads
     /\ waits' = [waits EXCEPT ![target] = TRUE]
     /\ delays' = [delays EXCEPT ![target] = delay]
  \/ /\ target = All
     /\ waits' = [t \in Threads |-> TRUE]
     /\ delays' = [t \in Threads |-> delays[t] + delay]
  \/ target \notin Threads \cup {All} /\ UNCHANGED <<waits, delays>>

TakeWait(t) ==
  /\ Reads(t, "wait") /\ InjectWait(job[pos + 1].target, job[pos + 1].delay)
  /\ Goto(t, "loop")
  /\ UNCHANGED <<job, barrier, main, cmd, ret, ran>>

TakeBarrier(t) ==
  /\ Reads(t, "barrier") /\ barrier' = TRUE /\ Exit(t, "barrier")
  /\ UNCHANGED <<job, waits, delays, main, cmd, ran>>

TakeEnd(t) ==
  /\ MayRead(t) /\ pos = Len(job) /\ Exit(t, "success")
  /\ UNCHANGED <<job, parse, main, cmd, ran>>

Run(t) == \/ Start(t) \/ Sleep(t) \/ SeeBarrier(t) \/ TakeRun(t) \/ Finish(t)
          \/ TakeOther(t) \/ TakeWait(t) \/ TakeBarrier(t) \/ TakeEnd(t)

----------------------------------------------------------------------------

\* The process has exited.
Over == mpc \in {"done", "failed"} /\ UNCHANGED vars

Next == Main \/ CreateFail \/ (\E t \in Threads : Run(t) \/ StartFail(t)) \/ Over

Spec == Init /\ [][Next]_vars

\* Every thread is scheduled, a command and a sleep end.
FairSpec == Spec /\ WF_vars(Main) /\ \A t \in Threads : WF_vars(Run(t))

----------------------------------------------------------------------------
(* Properties.                                                             *)

\* Every variable has its type, and a thread has a command exactly while it
\* runs one.
TypeOK ==
  /\ job \in Jobs /\ pos \in 0 .. Len(job) /\ barrier \in BOOLEAN
  /\ waits \in [Threads -> BOOLEAN] /\ delays \in [Threads -> Nat]
  /\ mpc \in {"setup", "create", "join", "done", "failed"}
  /\ count \in 0 .. MaxThreads /\ faults \in 0 .. MaxFaults
  /\ pc \in [Threads -> {"none", "start", "loop", "sleep", "run", "exited"}]
  /\ cmd \in [Threads -> 0 .. Len(job)] /\ ret \in [Threads -> Returns]
  /\ ran \subseteq 1 .. Len(job)
  /\ \A t \in Threads : cmd[t] # 0 <=> pc[t] = "run"

RunCommands(n) == {k \in 1 .. n : job[k].op = "run"}
Running == {cmd[t] : t \in Threads} \ {0}

\* The commands read so far have run or are running, each on one thread: no
\* command is lost at a barrier or taken twice.
EachCommandOnce ==
  /\ Running \cup ran = RunCommands(pos) /\ Running \cap ran = {}
  /\ \A s, t \in Threads : cmd[s] = cmd[t] /\ cmd[s] # 0 => s = t

\* A command starts only when all the commands before the last barrier are over.
BarrierSeparates ==
  \A t \in Threads : pc[t] = "run" =>
    \A b \in 1 .. cmd[t] : job[b].op = "barrier" => RunCommands(b) \subseteq ran

\* A thread that is not told to wait has no delay left over from an older WAIT.
NoStaleDelay == \A t \in Threads : ~waits[t] => delays[t] = 0

\* The rounds begin and the process cleans up only when no thread runs.
NoThreadLeft ==
  mpc \in {"setup", "done"} => \A t \in Threads : pc[t] \in {"none", "exited"}

\* Every job file is processed to its end, unless a thread fails.
JobCompletes ==
  <>(mpc = "failed" \/ (mpc = "done" /\ ran = RunCommands(Len(job))))

=============================================================================
