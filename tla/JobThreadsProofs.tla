-------------------------- MODULE JobThreadsProofs --------------------------
(***************************************************************************)
(* Proofs about JobThreads, for any number of threads and any job file.    *)
(***************************************************************************)
EXTENDS JobThreads, TLAPS

----------------------------------------------------------------------------
(* The inductive invariant.                                                *)

\* Threads run only from their creation to their join.
PhaseInv ==
  /\ NoThreadLeft
  /\ mpc = "create" => \A t \in Threads : t >= count => pc[t] \in {"none", "exited"}
  /\ mpc = "join" => \A t \in Threads : t < count => pc[t] = "exited"

\* EachCommandOnce, thread by thread and command by command.
OnceInv ==
  /\ ran \subseteq RunCommands(pos)
  /\ \A t \in Threads : cmd[t] # 0 => cmd[t] \in RunCommands(pos) \ ran
  /\ \A k \in RunCommands(pos) \ ran : \E t \in Threads : cmd[t] = k
  /\ \A s, t \in Threads : cmd[s] = cmd[t] /\ cmd[s] # 0 => s = t

\* While the flag is up, nobody has read on from the barrier.
FlagInv == barrier => pos # 0 /\ job[pos].op = "barrier"

\* Every barrier but the one of the flag has been waited for.
PassedInv ==
  \A b \in 1 .. pos : job[b].op = "barrier" =>
    RunCommands(b) \subseteq ran \/ (barrier /\ b = pos)

IInv == TypeOK /\ PhaseInv /\ OnceInv /\ FlagInv /\ PassedInv

----------------------------------------------------------------------------
(* Facts the steps rest on.                                                *)

\* The job file is a sequence of commands that never changes.
LEMMA JobTypes ==
  ASSUME TypeOK
  PROVE  /\ job \in Seq(Commands) /\ Len(job) \in Nat /\ pos \in 0 .. Len(job)
         /\ \A k \in 1 .. Len(job) : job[k] \in Commands
BY JobsAssumption DEF TypeOK

\* A WAIT command names a thread and a delay.
LEMMA WaitTypes ==
  ASSUME TypeOK, NEW k \in 1 .. Len(job), job[k].op = "wait"
  PROVE  job[k].target \in {All} \cup Nat /\ job[k].delay \in Nat
<1>1. job[k] \in Commands
  BY JobTypes
<1>2. job[k] # RunCommand /\ job[k] # OtherCommand /\ job[k] # BarrierCommand
  BY DEF RunCommand, OtherCommand, BarrierCommand
<1>3. job[k] \in WaitCommands
  BY <1>1, <1>2 DEF Commands
<1> QED
  BY <1>3, DelaysAssumption DEF WaitCommands

\* The invariant speaks of each command once.
LEMMA OnceImplies ==
  ASSUME TypeOK, OnceInv
  PROVE  EachCommandOnce
<1>1. Running \cup ran = RunCommands(pos)
  <2>1. \A k \in RunCommands(pos) : k # 0
    BY JobTypes DEF RunCommands
  <2>2. Running \subseteq RunCommands(pos)
    BY DEF OnceInv, Running
  <2>3. RunCommands(pos) \subseteq Running \cup ran
    BY <2>1 DEF OnceInv, Running
  <2> QED
    BY <2>2, <2>3 DEF OnceInv
<1>2. Running \cap ran = {}
  BY DEF OnceInv, Running
<1> QED
  BY <1>1, <1>2 DEF OnceInv, EachCommandOnce

\* A command behind a barrier runs only after what is in front of it.
LEMMA PassedImplies ==
  ASSUME TypeOK, OnceInv, PassedInv
  PROVE  BarrierSeparates
<1> SUFFICES ASSUME NEW t \in Threads, pc[t] = "run",
                    NEW b \in 1 .. cmd[t], job[b].op = "barrier"
             PROVE  RunCommands(b) \subseteq ran
  BY DEF BarrierSeparates
<1>1. cmd[t] \in RunCommands(pos)
  BY DEF TypeOK, OnceInv
<1>2. cmd[t] \in 1 .. pos /\ job[cmd[t]].op = "run"
  BY <1>1 DEF RunCommands
<1>3. b # cmd[t] /\ b \in 1 .. pos /\ b # pos
  BY <1>2, JobTypes
<1> QED
  BY <1>3 DEF PassedInv

\* What OnceInv, FlagInv and PassedInv speak of.
bookkeeping == <<job, pos, barrier, cmd, ran>>

\* A step that leaves the file and the commands alone keeps their invariants.
LEMMA Untouched ==
  ASSUME OnceInv, FlagInv, PassedInv, UNCHANGED bookkeeping
  PROVE  OnceInv' /\ FlagInv' /\ PassedInv'
BY DEF OnceInv, FlagInv, PassedInv, RunCommands, bookkeeping

----------------------------------------------------------------------------
(* Every step preserves the invariant.                                     *)

\* A round starts with the flag lowered: all its commands have run.
LEMMA SetupStep ==
  ASSUME IInv, Setup
  PROVE  IInv'
<1> USE DEF Setup, ClearRound, main, parse, threads
<1>1. TypeOK'
  <2>1. waits' \in [Threads -> BOOLEAN] /\ delays' \in [Threads -> Nat]
    OBVIOUS
  <2>2. count' \in 0 .. MaxThreads /\ mpc' = "create" /\ barrier' = FALSE
    BY ThreadsAssumption
  <2>3. UNCHANGED <<job, pos, faults, pc, cmd, ret, ran>>
    OBVIOUS
  <2> QED
    BY <2>1, <2>2, <2>3 DEF IInv, TypeOK
<1>2. PhaseInv'
  BY DEF IInv, PhaseInv, NoThreadLeft
<1>3. OnceInv' /\ FlagInv'
  BY DEF IInv, OnceInv, FlagInv, RunCommands
<1>4. PassedInv'
  <2> SUFFICES ASSUME NEW b \in 1 .. pos, job[b].op = "barrier"
               PROVE  RunCommands(b) \subseteq ran
    BY DEF PassedInv, RunCommands
  <2>1. \A t \in Threads : cmd[t] = 0
    BY DEF IInv, PhaseInv, NoThreadLeft, TypeOK
  <2>2. RunCommands(pos) \subseteq ran
    <3> SUFFICES ASSUME NEW k \in RunCommands(pos), k \notin ran PROVE FALSE
      OBVIOUS
    <3>1. k # 0
      BY DEF RunCommands
    <3> QED
      BY <2>1, <3>1 DEF IInv, OnceInv
  <2>3. RunCommands(b) \subseteq RunCommands(pos)
    BY JobTypes DEF IInv, RunCommands
  <2> QED
    BY <2>2, <2>3
<1> QED
  BY <1>1, <1>2, <1>3, <1>4 DEF IInv

\* Creating and joining threads.
LEMMA MainStep ==
  ASSUME IInv, Create \/ CreateFail \/ Created \/ Join \/ Joined
  PROVE  IInv'
<1> USE DEF main, parse, threads, MoreToCreate, Exited, Fault
<1>1. TypeOK'
  <2>1. CASE Create
    <3>1. pc' \in [Threads -> {"none", "start", "loop", "sleep", "run", "exited"}]
      BY <2>1 DEF IInv, TypeOK, Create
    <3>2. ret' \in [Threads -> Returns]
      BY <2>1 DEF IInv, TypeOK, Create, Returns
    <3>3. count' \in 0 .. MaxThreads
      BY <2>1, ThreadsAssumption DEF IInv, TypeOK, Create
    <3>4. \A t \in Threads : cmd[t] # 0 <=> pc'[t] = "run"
      <4>1. count \in Threads /\ pc[count] \in {"none", "exited"}
        BY <2>1, ThreadsAssumption DEF IInv, TypeOK, PhaseInv, Create, Threads
      <4>2. pc' = [pc EXCEPT ![count] = "start"]
        BY <2>1 DEF Create
      <4> QED
        BY <4>1, <4>2 DEF IInv, TypeOK
    <3> QED
      BY <2>1, <3>1, <3>2, <3>3, <3>4 DEF IInv, TypeOK, Create
  <2>2. CASE CreateFail
    BY <2>2, ThreadsAssumption DEF IInv, TypeOK, CreateFail
  <2>3. CASE Created
    BY <2>3, ThreadsAssumption DEF IInv, TypeOK, Created
  <2>4. CASE Join
    BY <2>4, ThreadsAssumption DEF IInv, TypeOK, Join
  <2>5. CASE Joined
    BY <2>5 DEF IInv, TypeOK, Joined
  <2> QED
    BY <2>1, <2>2, <2>3, <2>4, <2>5
<1>2. PhaseInv'
  <2>1. CASE Create
    BY <2>1 DEF IInv, TypeOK, PhaseInv, NoThreadLeft, Create, Threads
  <2>2. CASE CreateFail
    BY <2>2 DEF IInv, PhaseInv, NoThreadLeft, CreateFail
  <2>3. CASE Created
    BY <2>3 DEF IInv, PhaseInv, NoThreadLeft, Created, Threads
  <2>4. CASE Join
    BY <2>4 DEF IInv, TypeOK, PhaseInv, NoThreadLeft, Join, Threads
  <2>5. CASE Joined
    <3>1. \A t \in Threads : t < count
      BY <2>5, ThreadsAssumption DEF Joined, Threads
    <3> QED
      BY <2>5, <3>1 DEF IInv, PhaseInv, NoThreadLeft, Joined
  <2> QED
    BY <2>1, <2>2, <2>3, <2>4, <2>5
<1>3. UNCHANGED bookkeeping
  BY DEF bookkeeping, Create, CreateFail, Created, Join, Joined
<1> QED
  BY <1>1, <1>2, <1>3, Untouched DEF IInv

\* A thread that takes a step is one main has created and not joined.
LEMMA ThreadPhase ==
  ASSUME IInv, NEW t \in Threads, pc[t] \notin {"none", "exited"},
         UNCHANGED <<mpc, count>>, pc' = [pc EXCEPT ![t] = pc'[t]]
  PROVE  PhaseInv'
BY DEF IInv, TypeOK, PhaseInv, NoThreadLeft

\* Steps of a thread that read no command: start, sleep, and the end.
LEMMA IdleStep ==
  ASSUME IInv, NEW t \in Threads,
         Start(t) \/ StartFail(t) \/ Sleep(t) \/ SeeBarrier(t) \/ TakeEnd(t)
  PROVE  IInv'
<1> USE DEF main, parse, threads, At, Goto, Exit, Fault
<1>1. pc[t] \in {"start", "loop", "sleep"} /\ UNCHANGED <<mpc, count>>
  BY DEF Start, StartFail, Sleep, SeeBarrier, TakeEnd, MayRead, HasTurn
<1>2. UNCHANGED bookkeeping
  BY DEF bookkeeping, Start, StartFail, Sleep, SeeBarrier, TakeEnd, TakeDelay
<1>3. TypeOK'
  <2>1. CASE Start(t)
    BY <2>1 DEF IInv, TypeOK, Start
  <2>2. CASE StartFail(t)
    BY <2>2, ThreadsAssumption DEF IInv, TypeOK, StartFail, Returns
  <2>3. CASE Sleep(t)
    BY <2>3 DEF IInv, TypeOK, Sleep, TakeDelay
  <2>4. CASE SeeBarrier(t) \/ TakeEnd(t)
    BY <1>1, <2>4 DEF IInv, TypeOK, SeeBarrier, TakeEnd, Returns
  <2> QED
    BY <2>1, <2>2, <2>3, <2>4
<1>4. pc' = [pc EXCEPT ![t] = pc'[t]]
  BY DEF IInv, TypeOK, Start, StartFail, Sleep, SeeBarrier, TakeEnd
<1>5. PhaseInv'
  BY <1>1, <1>4, ThreadPhase
<1> QED
  BY <1>2, <1>3, <1>5, Untouched DEF IInv

\* What every step that reads a command has in common.
LEMMA ReadFacts ==
  ASSUME IInv, NEW t \in Threads, NEW op, Reads(t, op)
  PROVE  /\ pc[t] \in {"loop", "sleep"} /\ ~barrier /\ cmd[t] = 0
         /\ pos' = pos + 1 /\ pos + 1 \in 1 .. Len(job) /\ job[pos + 1].op = op
<1>1. pc[t] \in {"loop", "sleep"} /\ ~barrier
  BY DEF Reads, MayRead, HasTurn, At
<1>2. cmd[t] = 0
  BY <1>1 DEF IInv, TypeOK
<1> QED
  BY <1>1, <1>2, JobTypes DEF IInv, Reads

\* A thread takes a command of the store.
LEMMA TakeRunStep ==
  ASSUME IInv, NEW t \in Threads, TakeRun(t)
  PROVE  IInv'
<1> USE DEF main, Goto
<1>1. /\ pc[t] \in {"loop", "sleep"} /\ ~barrier /\ cmd[t] = 0
      /\ pos' = pos + 1 /\ pos + 1 \in 1 .. Len(job) /\ job[pos + 1].op = "run"
  BY ReadFacts DEF TakeRun
<1>2. /\ pc' = [pc EXCEPT ![t] = "run"] /\ cmd' = [cmd EXCEPT ![t] = pos + 1]
      /\ UNCHANGED <<job, barrier, waits, delays, mpc, count, faults, ret, ran>>
  BY DEF TakeRun
<1>3. TypeOK'
  BY <1>1, <1>2 DEF IInv, TypeOK
<1>4. PhaseInv'
  BY <1>1, <1>2, ThreadPhase DEF IInv, TypeOK
<1>5. pos \in Nat /\ cmd \in [Threads -> Nat]
  BY JobTypes DEF IInv, TypeOK
<1>6. RunCommands(pos)' = RunCommands(pos) \cup {pos + 1} /\ pos + 1 \notin RunCommands(pos)
  BY <1>1, <1>2, <1>5 DEF RunCommands
<1>7. OnceInv'
  <2>1. \A s \in Threads : cmd'[s] = IF s = t THEN pos + 1 ELSE cmd[s]
    BY <1>2, <1>5
  <2>2. \A s \in Threads : cmd[s] # pos + 1
    BY <1>5, <1>6 DEF IInv, OnceInv
  <2>3. ran' \subseteq RunCommands(pos)' /\ pos + 1 \notin ran
    BY <1>2, <1>6 DEF IInv, OnceInv
  <2>4. \A s \in Threads : cmd'[s] # 0 => cmd'[s] \in RunCommands(pos)' \ ran'
    BY <1>2, <1>6, <2>1, <2>3 DEF IInv, OnceInv
  <2>5. \A k \in RunCommands(pos)' \ ran' : \E s \in Threads : cmd'[s] = k
    <3> TAKE k \in RunCommands(pos)' \ ran'
    <3>1. CASE k = pos + 1
      BY <2>1, <3>1
    <3>2. CASE k # pos + 1
      <4>1. PICK s \in Threads : cmd[s] = k
        BY <1>2, <1>6, <3>2 DEF IInv, OnceInv
      <4>2. k # 0
        BY <1>6, <3>2, <1>5 DEF RunCommands
      <4> QED
        BY <1>1, <2>1, <4>1, <4>2
    <3> QED
      BY <3>1, <3>2
  <2>6. \A r, s \in Threads : cmd'[r] = cmd'[s] /\ cmd'[r] # 0 => r = s
    BY <2>1, <2>2 DEF IInv, OnceInv
  <2> QED
    BY <2>3, <2>4, <2>5, <2>6 DEF OnceInv
<1>8. FlagInv'
  BY <1>1, <1>2 DEF FlagInv
<1>9. PassedInv'
  BY <1>1, <1>2, <1>5 DEF IInv, PassedInv, RunCommands
<1> QED
  BY <1>3, <1>4, <1>7, <1>8, <1>9 DEF IInv

\* A command of the store returns.
LEMMA FinishStep ==
  ASSUME IInv, NEW t \in Threads, Finish(t)
  PROVE  IInv'
<1> USE DEF main, parse, Goto, At
<1>1. /\ pc[t] = "run" /\ pc' = [pc EXCEPT ![t] = "loop"]
      /\ ran' = ran \cup {cmd[t]} /\ cmd' = [cmd EXCEPT ![t] = 0]
      /\ UNCHANGED <<job, pos, barrier, waits, delays, mpc, count, faults, ret>>
  BY DEF Finish
<1>2. cmd[t] # 0 /\ cmd[t] \in RunCommands(pos) \ ran
  BY <1>1 DEF IInv, TypeOK, OnceInv
<1>3. TypeOK'
  <2>1. cmd[t] \in 1 .. Len(job)
    BY <1>2, JobTypes DEF IInv, TypeOK
  <2>2. ran' \subseteq 1 .. Len(job) /\ cmd' \in [Threads -> 0 .. Len(job)]
    <3>1. Len(job) \in Nat
      BY JobTypes DEF IInv
    <3>2. 0 \in 0 .. Len(job)
      BY <3>1
    <3> QED
      BY <1>1, <2>1, <3>2 DEF IInv, TypeOK
  <2>3. \A s \in Threads : cmd'[s] # 0 <=> pc'[s] = "run"
    BY <1>1 DEF IInv, TypeOK
  <2> QED
    BY <1>1, <2>2, <2>3 DEF IInv, TypeOK
<1>4. PhaseInv'
  BY <1>1, ThreadPhase DEF IInv, TypeOK
<1>5. RunCommands(pos)' = RunCommands(pos)
  BY <1>1 DEF RunCommands
<1>6. OnceInv'
  <2>1. \A s \in Threads : cmd'[s] = IF s = t THEN 0 ELSE cmd[s]
    BY <1>1 DEF IInv, TypeOK
  <2>2. ran' \subseteq RunCommands(pos)'
    BY <1>1, <1>2, <1>5 DEF IInv, OnceInv
  <2>3. \A s \in Threads : cmd'[s] # 0 => cmd'[s] \in RunCommands(pos)' \ ran'
    BY <1>1, <1>2, <1>5, <2>1 DEF IInv, OnceInv
  <2>4. \A k \in RunCommands(pos)' \ ran' : \E s \in Threads : cmd'[s] = k
    BY <1>1, <1>5, <2>1 DEF IInv, OnceInv
  <2>5. \A r, s \in Threads : cmd'[r] = cmd'[s] /\ cmd'[r] # 0 => r = s
    BY <2>1 DEF IInv, OnceInv
  <2> QED
    BY <2>2, <2>3, <2>4, <2>5 DEF OnceInv
<1>7. FlagInv' /\ PassedInv'
  BY <1>1 DEF IInv, FlagInv, PassedInv, RunCommands
<1> QED
  BY <1>3, <1>4, <1>6, <1>7 DEF IInv

\* Steps that read a command which is not one of the store.
LEMMA OtherStep ==
  ASSUME IInv, NEW t \in Threads, TakeOther(t) \/ TakeWait(t) \/ TakeBarrier(t)
  PROVE  IInv'
<1> USE DEF main, Goto, Exit
<1>1. PICK op \in {"other", "wait", "barrier"} : Reads(t, op) /\ (op = "barrier" <=> barrier')
  <2>1. CASE TakeOther(t)
    BY <2>1, ReadFacts DEF TakeOther
  <2>2. CASE TakeWait(t)
    BY <2>2, ReadFacts DEF TakeWait
  <2>3. CASE TakeBarrier(t)
    BY <2>3 DEF TakeBarrier
  <2> QED
    BY <2>1, <2>2, <2>3
<1>2. /\ pc[t] \in {"loop", "sleep"} /\ ~barrier /\ cmd[t] = 0
      /\ pos' = pos + 1 /\ pos + 1 \in 1 .. Len(job) /\ job[pos + 1].op = op
  BY <1>1, ReadFacts
<1>3. UNCHANGED <<job, mpc, count, faults, cmd, ran>>
  BY DEF TakeOther, TakeWait, TakeBarrier
<1>4. TypeOK'
  <2>1. CASE TakeOther(t)
    BY <1>2, <2>1 DEF IInv, TypeOK, TakeOther
  <2>2. CASE TakeBarrier(t)
    BY <1>2, <2>2 DEF IInv, TypeOK, TakeBarrier, Returns
  <2>3. CASE TakeWait(t)
    <3>1. job[pos + 1].op = "wait"
      BY <2>3, ReadFacts DEF TakeWait
    <3>2. job[pos + 1].delay \in Nat
      BY <1>2, <3>1, WaitTypes DEF IInv
    <3>3. waits' \in [Threads -> BOOLEAN] /\ delays' \in [Threads -> Nat]
      <4> DEFINE target == job[pos + 1].target
                 delay == job[pos + 1].delay
      <4>1. InjectWait(target, delay)
        BY <2>3 DEF TakeWait
      <4>2. CASE target \in Threads /\ waits' = [waits EXCEPT ![target] = TRUE]
                 /\ delays' = [delays EXCEPT ![target] = delay]
        BY <3>2, <4>2 DEF IInv, TypeOK
      <4>3. CASE waits' = [s \in Threads |-> TRUE]
                 /\ delays' = [s \in Threads |-> delays[s] + delay]
        BY <3>2, <4>3, SMTT(30) DEF IInv, TypeOK
      <4>4. CASE UNCHANGED <<waits, delays>>
        BY <4>4 DEF IInv, TypeOK
      <4> QED
        BY <4>1, <4>2, <4>3, <4>4 DEF InjectWait
    <3>4. pc' = [pc EXCEPT ![t] = "loop"] /\ UNCHANGED <<barrier, ret>>
      BY <2>3 DEF TakeWait
    <3> QED
      BY <1>2, <1>3, <3>3, <3>4 DEF IInv, TypeOK
  <2> QED
    BY <2>1, <2>2, <2>3
<1>5. pc' = [pc EXCEPT ![t] = pc'[t]]
  BY DEF IInv, TypeOK, TakeOther, TakeWait, TakeBarrier
<1>6. PhaseInv'
  BY <1>2, <1>3, <1>5, ThreadPhase
<1>7. pos \in Nat
  BY JobTypes DEF IInv
<1>8. RunCommands(pos)' = RunCommands(pos)
  BY <1>1, <1>2, <1>3, <1>7 DEF RunCommands
<1>9. OnceInv'
  BY <1>3, <1>8 DEF IInv, OnceInv
<1>10. FlagInv'
  BY <1>1, <1>2, <1>3, <1>7 DEF FlagInv
<1>11. PassedInv'
  BY <1>1, <1>2, <1>3, <1>7 DEF IInv, PassedInv, RunCommands
<1> QED
  BY <1>4, <1>6, <1>9, <1>10, <1>11 DEF IInv

----------------------------------------------------------------------------
(* The theorems.                                                           *)

\* process_job starts with nothing read and no thread.
LEMMA InitInv == Init => IInv
<1> SUFFICES ASSUME Init PROVE IInv
  OBVIOUS
<1>1. job \in Seq(Commands) /\ Len(job) \in Nat
  BY JobsAssumption DEF Init
<1>2. TypeOK
  <2>1. waits \in [Threads -> BOOLEAN] /\ delays \in [Threads -> Nat]
    BY DEF Init
  <2>2. cmd \in [Threads -> 0 .. Len(job)] /\ pos \in 0 .. Len(job)
    BY <1>1 DEF Init
  <2>3. count \in 0 .. MaxThreads /\ faults \in 0 .. MaxFaults
    BY ThreadsAssumption DEF Init
  <2>4. /\ pc \in [Threads -> {"none", "start", "loop", "sleep", "run", "exited"}]
        /\ ret \in [Threads -> Returns]
        /\ \A t \in Threads : cmd[t] # 0 <=> pc[t] = "run"
    BY DEF Init, Returns
  <2> QED
    BY <2>1, <2>2, <2>3, <2>4 DEF Init, TypeOK
<1>3. PhaseInv /\ OnceInv /\ FlagInv /\ PassedInv
  BY DEF Init, PhaseInv, NoThreadLeft, OnceInv, FlagInv, PassedInv, RunCommands
<1> QED
  BY <1>2, <1>3 DEF IInv

\* A step that changes nothing keeps the invariant.
LEMMA StutterInv == IInv /\ UNCHANGED vars => IInv'
<1> SUFFICES ASSUME IInv, UNCHANGED vars PROVE IInv'
  OBVIOUS
<1> USE DEF vars, main, parse, threads
<1>1. TypeOK'
  BY DEF IInv, TypeOK
<1>2. PhaseInv'
  BY DEF IInv, PhaseInv, NoThreadLeft
<1>3. UNCHANGED bookkeeping
  BY DEF bookkeeping
<1> QED
  BY <1>1, <1>2, <1>3, Untouched DEF IInv

\* Every step of main and of every thread preserves the invariant.
LEMMA NextInv == IInv /\ [Next]_vars => IInv'
<1> SUFFICES ASSUME IInv, [Next]_vars PROVE IInv'
  OBVIOUS
<1>1. CASE Main \/ CreateFail
  BY <1>1, SetupStep, MainStep DEF Main
<1>2. ASSUME NEW t \in Threads, Run(t) \/ StartFail(t) PROVE IInv'
  BY <1>2, IdleStep, TakeRunStep, FinishStep, OtherStep DEF Run
<1>3. CASE UNCHANGED vars
  BY <1>3, StutterInv
<1> QED
  BY <1>1, <1>2, <1>3 DEF Next, Over

\* What is known of the job file at every moment of a round.
THEOREM Invariance == Spec => []IInv
<1>1. Init => IInv
  BY InitInv
<1>2. IInv /\ [Next]_vars => IInv'
  BY NextInv
<1> QED
  BY <1>1, <1>2, PTL DEF Spec

\* Whatever the threads and the job file, a command that runs has only finished
\* commands in front of the last BARRIER before it: the join of the round and
\* the test of the flag under parseMutex leave no way around a barrier.
THEOREM BarriersHold == Spec => []BarrierSeparates
<1>1. IInv => BarrierSeparates
  BY PassedImplies DEF IInv
<1> QED
  BY <1>1, Invariance, PTL

\* Whatever the threads and the job file, each command read from the shared file
\* descriptor is run by one thread, once.
THEOREM CommandsRunOnce == Spec => []EachCommandOnce
<1>1. IInv => EachCommandOnce
  BY OnceImplies DEF IInv
<1> QED
  BY <1>1, Invariance, PTL

\* Rounds start, and the process cleans up, without a thread running.
THEOREM RoundsJoined == Spec => []NoThreadLeft
<1>1. IInv => NoThreadLeft
  BY DEF IInv, PhaseInv
<1> QED
  BY <1>1, Invariance, PTL

\* The variables of the threads and of the parser keep their types; a thread
\* has a command exactly while it runs one.
THEOREM TypeCorrect == Spec => []TypeOK
<1>1. IInv => TypeOK
  BY DEF IInv
<1> QED
  BY <1>1, Invariance, PTL

\* A step keeps waits and delays together: a thread that takes its delay leaves
\* 0, a WAIT tells those it gives a delay to wait, a new round resets both.
LEMMA DelayStep ==
  ASSUME TypeOK, NoStaleDelay, [Next]_vars
  PROVE  NoStaleDelay'
<1> USE DEF NoStaleDelay, main, parse, threads
<1>0. waits \in [Threads -> BOOLEAN] /\ delays \in [Threads -> Nat]
  BY DEF TypeOK
<1>1. CASE Setup
  BY <1>1 DEF Setup, ClearRound
<1>2. CASE Create \/ Created \/ Join \/ Joined \/ CreateFail
  BY <1>2 DEF Create, Created, Join, Joined, CreateFail
<1>3. ASSUME NEW t \in Threads, Sleep(t) PROVE NoStaleDelay'
  BY <1>0, <1>3 DEF Sleep, TakeDelay
<1>4. ASSUME NEW t \in Threads, TakeWait(t) PROVE NoStaleDelay'
  BY <1>0, <1>4 DEF TakeWait, InjectWait
<1>5. ASSUME NEW t \in Threads,
             \/ Start(t) \/ SeeBarrier(t) \/ TakeRun(t) \/ Finish(t)
             \/ TakeOther(t) \/ TakeBarrier(t) \/ TakeEnd(t) \/ StartFail(t)
      PROVE  NoStaleDelay'
  BY <1>5 DEF Start, SeeBarrier, TakeRun, Finish, TakeOther, TakeBarrier, TakeEnd, StartFail
<1>6. CASE UNCHANGED vars
  BY <1>6 DEF vars
<1> QED
  BY <1>1, <1>2, <1>3, <1>4, <1>5, <1>6 DEF Next, Main, Run, Over

\* Whatever WAIT commands the threads take from the file, and whenever they wake,
\* no delay is waited for twice.
THEOREM DelaysAreTaken == Spec => []NoStaleDelay
<1>1. Init => NoStaleDelay
  BY DEF Init, NoStaleDelay
<1>2. TypeOK /\ NoStaleDelay /\ [Next]_vars => NoStaleDelay'
  BY DelayStep
<1> QED
  BY <1>1, <1>2, TypeCorrect, PTL DEF Spec

=============================================================================
