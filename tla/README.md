# EMS: the event management system in TLA+

The repository holds two programs around one idea, an *event management system*
(EMS) that creates events, reserves their seats, shows a seating and lists the
events.

* **Part 1** (`src/Part1`) forks one process per `.jobs` file; the threads of a
  process take commands from the file and run them on a store of their own.
* **Part 2** (`src/Part2`) is a server with one shared store. Clients register
  through a named pipe, are queued, and are served one session each by a pool of
  worker threads.

This directory models the server of Part 2 and the pipes to its clients, the
threads of a job file in Part 1 and the store they share, and the parser of job
files that both parts have.

## 1. Inventory

| Component | State | Operations | What is hard | What makes it correct |
| --- | --- | --- | --- | --- |
| Event store, `server/operations.c`, `eventlist.c` | linked list of events under `event_list->rwl`; per event `reservations`, `data` and `mutex` | `ems_create`, `ems_reserve`, `ems_show`, `ems_list_events`, `ems_sigusr1_action` | interleaving of workers and the main thread, two levels of locks, reads without the lock | unique ids; a RESERVE takes all its seats or none and keeps them; answers that fit one order of the requests; no deadlock |
| Queue and pool, `server/main.c`, `queue.c`, `connect_clients` | signal flags, register pipe, connection queue with mutex and condition variable, one loop per worker | registration, enqueue, dequeue, handshake, shutdown | lost wakeups, signals between a test and a blocking call, clients that die in the handshake | no registration lost or served twice, served in order, sessions end before the state is freed, shutdown ends |
| Session protocol, `handle_requests`, `client/api.c`, `common/io.c` | two pipes per session | one message format per operation, QUIT | crash in the middle of a message, end of file taken for data | both ends agree where a message ends; a half request has no effect |
| Client program and parser, `client/main.c`, `client/parser.c` | position in the `.jobs` file | `get_next`, `parse_*` | error recovery, limits | what is run is on one line, a correct line is run, a wrong one costs at most the lines it has run into |
| Local store, Part 1 `operations.c` | one list, three global readers-writer locks, a mutex for the output file | as above, plus rollback in `ems_reserve` | lock order, test and append in two critical sections, output in pieces | as the server's store |
| Job threads, Part 1 `threaded.c` | parse mutex, `thread_waits`, `thread_delays`, barrier flag | take a command, WAIT, BARRIER, join | WAIT against BARRIER, rounds | a barrier separates the commands before it from those after it |
| Job processes, Part 1 `main.c` | number of children | fork, wait | the limit on children | never more than `max_proc` |

The clients talk to the main thread through the register pipe, to a worker
through the two pipes of the session; main hands a connection to the workers
through the queue; the workers and main (on SIGUSR1) meet in the event store.

## 2. Modules

| Module | Models |
| --- | --- |
| `EmsServer` | the event store, one action per critical step of each operation |
| `EventStore` | what the store promises, without locks (abstract specification) |
| `EmsServerRefinement` | the mapping under which `EmsServer` implements `EventStore` |
| `EmsServerProofs` | machine-checked proofs about `EmsServer`: types, locks, the list, seats, answers |
| `EmsRefinementProofs` | proof that `EmsServer` implements `EventStore` |
| `ServerPool` | main loop, signals, queue, workers, handshake, shutdown |
| `Session` | one session of Part 2: the client's loop and `api.c`, `handle_requests`, the two pipes |
| `EmsLocal` | Part 1: `operations.c`, the store the threads of one process share |
| `JobThreads` | Part 1: the threads of one job file, WAIT and BARRIER, rounds |
| `JobParser` | `get_next` and `parse_*` of both parts, character by character |
| `ServerPoolProofs` | machine-checked proofs about `ServerPool` |
| `SessionProofs` | machine-checked proofs about `Session` |
| `EmsLocalProofs` | machine-checked proofs about `EmsLocal` |
| `JobThreadsProofs` | machine-checked proofs about `JobThreads` |
| `JobParserProofs` | machine-checked proofs about `JobParser` |
| `Flatten` | lemmas: induction over the naturals, what `FlattenSeq` returns |
| `MCEmsServer`, `MCServerPool`, `MCSession`, `MCEmsLocal`, `MCJobThreads`, `MCJobParser` | constants for TLC |

### EmsServer

`struct Event` is spread over four sequences indexed by the position of its node:
`list` (id, rows, cols), `reservations`, `data`, `mutex`. Nodes are never unlinked
while threads run, so a position stands for a pointer and `NULL` is 0. `rwl` is the
pair `readers`, `writer`. Each thread has its program counter `pc` and the locals
of the call (`req`, `ev`, `last`, `idx`, `rid`, `out`, `status`).

A step is what a thread does between two points where another thread can
interfere: taking a lock, one access to shared memory, one write to a pipe. A
release is folded into the step before it. `append_to_list` is two steps (link,
count), the seat loops take one step per seat, and the unlocked read of
`event->data` in `ems_show` is one step per seat, because the kernel copies the
array while other threads write it. Errors are kept: a CREATE may fail for lack of
memory, a write to a pipe may fail because the client has gone.

Abstracted: a successful `pthread_*` call on a valid lock is assumed; `event_list`
is not NULL after `ems_init`; `get_event` is one step, since the list cannot
change under its lock; the simulated access delay and the messages on stderr are
left out; the size of an event is an unbounded natural number.

### EventStore

CREATE, RESERVE and LIST take effect, or are refused, in one step between the
request and its answer. SHOW is weaker, as the code is: it reads seat by seat and
may miss a seat only of a reservation that is not yet acknowledged to its client.
In the mapping a CREATE takes effect when its node is linked, a RESERVE when it
takes its reservation id: the seats still to be written count as taken.

A seat is a row and a column, in this order, as `ems_reserve` tests them
(`operations.c:143`) and as `api.h` and `operations.h` name its arguments. The READMEs
promise the other order (section 5).

### ServerPool

`mpc` is the main thread: `check` (the test of `terminate`), `call` (before the
system call), `read` (inside it), `eintr`, `dump`, `enqueue`, then `stop`,
`broadcast`, `join`, `exited`. A signal only sets a flag, and interrupts the read
only when main is blocked in it. `wpc` is the loop of `connect_clients`: the test of
`queue->terminate` is one step, the queue lock another, `pthread_cond_wait`
releases the lock and sleeps, and the test after it is done with the lock.
`cpc` is the client's `ems_setup` and `ems_quit`. The two ends of a FIFO open
together; a session id goes to a client that lives, or raises SIGPIPE, which ends
the process if the worker has not yet been in `handle_requests` (`masked`).

Abstracted: the requests of a session (EmsServer), signals handled by a thread
other than the first (Linux prefers the first thread), the start-up errors, and a
setup message whose first byte is not `OP_SETUP` (`main.c:118`), which main drops and
no client of this repository sends: every message that `Read` takes is well formed.
`malloc`, `open` and spurious wakeups fail or occur within the bound `MaxFaults`.

### JobThreads

`job` is the job file as the parser returns it, `pos` how much of it has been read.
In the code the threads use `job_fd`, `thread_waits`, `thread_delays` and `barrier` only
under `parseMutex`. The model assumes the mutex and does not show it: one critical
section is one action, so a section that let go too early could not be seen. What the
model does check is what happens between the sections. `Sleep` takes the pending delay
and lets go of the mutex, `HasTurn` says that the thread has it (again), and then it
sees the barrier, reads a command or finds the end. `ran` records the commands whose
`ems_` call has returned. Main clears the waits and the flag (`Setup`), creates the
threads one by one while the first already run, joins them in order, and starts another
round if the flag is up.

Abstracted: what a command does to the store, the length of a sleep, the parser
(`other` is every line that changes nothing). When a thread cannot be created or
returns NULL, main frees the managers that others still use and exits: what these
do then is undefined, and the model stops.

### Session

The client's `main` takes the next command (`Command`), sends its fields one write at
a time (`SendField`), and waits where the code does: for the size of a SHOW, the
number of ids of a LIST, the seats or ids, the status. The worker reads one field per
step, executes the request once it has all of them, and writes the answer; the
operation code that is no operation is skipped as the `default:` of the switch does.
A field of a request is the pair of the request and the place it was written for, so
a worker that took one field for another would be seen in `executed`. The answer is
made of 32-bit words, and a read takes so many words: a client that is out of step
reads part of one number as another, as the code would.

Every write is shorter than `PIPE_BUF` but the seats of a large SHOW, so a field
arrives whole or not at all. Which answer an operation gives is free (`Answers`):
EmsServer says what it may be. The pipes are unbounded: a client reads its answer
before it sends the next request, and a writer that waits for a full pipe is woken by
its reader. Not told apart: the ways in which a failed read or write ends a session. A
`malloc` of the client fails only for the huge sizes of a client that is out of step.
Faults are the death of the client at any point, the end of the session at the server
(a failed read or the death of the process), and a failed write of the output file.

### EmsLocal

The three `pthread_rwlock_t` are `rd` and `wr`, the mutex of the output file is `file`,
and the store is as in EmsServer, without a counter and a mutex per event. Taking a
lock is a step of its own, so every order in which the code takes them is there; a
release is folded into the step before it, which is sound because nothing is read
between the last access and the release. The loop of `ems_reserve` takes one step per
seat, the rollback is one step under both write locks. `buffer` holds at most
`BufferSize` seats or ids: `Flush` is the write of a full buffer, which takes
`file_Lock` the first time and keeps it, `Write` that of the rest. Every `safe_write`
may fail, and every allocation; those of `ems_create` come before it waits for the list
lock (`CreateAlloc`, then `CreateLock`), and a failure never ends a wait. Layout of the output and the access delay are left
out.

### JobParser

A file is a sequence of characters and `pos` the file descriptor. One step is one turn
of the loop that calls `get_next` and the `parse_*` function it asks for; a parse in
progress is a record that the helpers `Literal` and `Number` move along as the code
reads. `part` chooses what differs: BARRIER, and WAIT for one thread, which Part 2
skips. The model keeps what a reader of the code might not expect:

* the keyword is read as so many characters, across the end of a short line, and
  `cleanup` then goes to the end of the line it has got to, so a wrong line can
  take the next one with it;
* a number without digits is 0 (`SHOW ` shows event 0);
* a number that ends with the file is read from a buffer without a terminator: its
  value is undefined, and the command may also be refused (`Undefined`, `Outcomes`);
* a RESERVE of exactly `MAX_RESERVATION_SIZE` seats is refused.

Below the code is a reference that does not read but only says what a line looks like, in
the syntax that `HELP` prints (`client/main.c:117`, `threaded.c:229`). `Spells(c, i, ends)`
is true where the characters from `i` on are the keyword of `c`, its arguments in decimal,
what HELP puts between them, and an end. `ReadsAs` is the same without asking that every
argument is there: one that is left out counts as 0. So there are two properties:

* `RunFromOneLine` is about the wrong lines: what is run was read, with `ReadsAs`, on one
  whole line. It does not say that every number was written, which the code does not ensure.
* `CorrectLinesRun` is about the correct ones: a line that spells a command is run. The
  antecedent leaves out, by name, the lines the code does not keep this for: `Full` (a
  RESERVE of as many seats as the limit) and, by `SureEnds`, a command with arguments on
  a last line without a newline.

Section 5 lists what is left out against the documents. The reference shares
with the code where a row of digits ends (`DigitsEnd`) and what number it writes
(`Decimal`). `MCJobParser` writes the lines of its files with `ToString` instead, so a
mistake in the reference would show in the run.

`UINT_MAX` is scaled to 999. Numbers of more digits than `buf` has room for are left
out: the code writes beyond it.

## 3. Runs

| Run | Shows |
| --- | --- |
| `store` | Every interleaving of two workers with two requests each and one SIGUSR1 keeps the invariants, never leaves all threads waiting, and implements `EventStore`. |
| `live` | With fair threads every request is answered and every SIGUSR1 action ends. |
| `show` | *Violation.* A SHOW concurrent with a RESERVE of two seats can return half of it: `ems_show` does not take `event->mutex` (`operations.c:205`). |
| `pool` | No registration is lost, shared or overtaken, no worker sleeps on work, sessions drain before the exit, every client is served. |
| `join` | *Violation.* A shutdown can hang in `pthread_join`: the broadcast of `main.c:129` does not hold `queue_lock` and can fall before a worker's wait. |
| `sigpipe` | *Violation.* A client that dies during the handshake can end the server: SIGPIPE is not blocked at `sessions.c:183` in a worker's first session. |
| `threads` | Every job file of up to three commands, three threads, one failing thread: commands run once, barriers separate them, no delay is left over, no thread outlives its round, and the job ends. |
| `local` | Two threads of Part 1 with two commands each: a failed RESERVE leaves nothing, a granted one is kept, SHOW and LIST print whole states in one piece, the threads never all wait for each other, and every command ends. |
| `twice` | *Violation.* Two threads of Part 1 create the same event: the test (`operations.c:90`) and the append (`:123`) are two critical sections. |
| `session` | Both ends of a session agree where requests and answers end and never wait for each other; no half request is executed; the end of a pipe is not taken for success; the worker comes free whatever dies. |
| `desync` | *Violation.* A client whose output file cannot be written leaves a status in the pipe (`api.c:196-215`, `:254-274`) and takes it for the answer to its next RESERVE. |
| `parser` | On every file of three of the given lines, the reader is at the start of a line after each command, runs a command only from one whole line that reads as it, and runs every correct line it comes to, but for full lists and a last line without a newline. |

Properties worth reading: `AllOrNothing` (the owners of the seats of an event are
exactly the reservations counted, whenever its mutex is free), `ReservationHonoured`
(an acknowledged client owns what it asked for and nothing else), `ShowSound` (what
SHOW reports as reserved is never contradicted), `RefinesEventStore`, `OneOwner`
(a registered client is in one place only), `EveryClientServed`, `BarrierSeparates`
(a command runs only when those before the last barrier have returned),
`RollbackComplete` (`AllOrNothing` for the rollback of Part 1), `PiecesTogether`,
`NoDeadlock` and `NeverBothWait` (what waits, waits for somebody who can go on),
`ExecutedAsSent` and `ReturnsTrue` (the client and the server never disagree about a
request), `RunFromOneLine` and `CorrectLinesRun` (what the parser runs was read from one
line, and what a line spells is run, whatever the lines before it did).

**Bounds.** Two workers give every pairwise interleaving of the operations; two
requests each make one worker run a whole operation inside another's. Ids 1 and 2
give equal and different events, size 1 x 2 gives seats in and out of bounds, and
the four seat lists are one seat, all seats, a seat named twice and a seat out of
bounds. `MaxCalls` and `MaxDumps` bound the requests and signals. The `store` run
uses the symmetry of the workers, the liveness runs do not. In `pool` two clients
can both be queued before either is served; one fault can be a crash, so one of the
two workers may be blocked for ever and the other must carry on. In `threads` three
threads are the least with which the flag matters: one still runs a command, one has
taken the barrier, and the third must not read on. Three commands hold a barrier with
commands on both sides, two barriers in a row, and two WAITs before a thread wakes up.

In `local` one event of two seats is enough for two RESERVEs that overlap, and a
buffer of one entry makes every SHOW write in pieces; two threads with two commands
each put a whole command between two steps of another. In `session` three commands
show an answer that is taken for that of the next request and what that one leaves;
two faults put a failed write before a crash. `MCFiles` has three lines, each wrong
line before and after each correct one, because a wrong line can take those after
it, with and without an end to the last line; `MaxSeats` is 3, so lists shorter
than, equal to and longer than the limit occur.

**Fairness.** `EmsServer`: a thread inside an operation is scheduled again (weak
fairness of its steps); the requests and signals need not come. A client that stays
alive and never reads its pipe is excluded: `ems_list_events` would hold the list
lock as long. So is a stream of readers that never ends: with `MaxCalls` requests a CREATE
that waits for the write lock gets it, while glibc's rwlock, which prefers readers, could
starve it if clients kept coming with LIST and SHOW for ever. `ServerPool`: main and each worker are scheduled, a client in a
session ends it (a `.jobs` file is finite); registrations, signals and faults need
not happen. `JobThreads`: main and every thread are scheduled, a command and a sleep
end. `EmsLocal`: a thread inside a command is scheduled; commands need not come, and as a
job file is finite no stream of readers can keep a writer out. No step that fails is
enabled while the thread waits for a lock, so fairness cannot end a wait by a failure. `Session`: both
processes are scheduled, faults need not happen. `Quiet` in `EmsServer` and `EmsLocal`
marks the state in which the bounds are used up, so that deadlock is checked. The
others really stop: the pool when main waits in its read or after the exit, a session
when both ends are closed, the parser at the end of its file. Their runs do not check
deadlock.

## 4. Proofs

Every safety property that a passing run checks is proved here, and so are the action
properties and the refinement; what is left to TLC is at the end of the section.
Two theorems are about properties that no run needs to check: `UniqueIds` of `EmsServer`,
which `RefinesEventStore` implies, and `NoLockLeft` of `EmsLocal`: a lock that is left
behind soon makes `NoDeadlock` false.

### The server's store

`EmsServerProofs` proves, for any number of workers, any ids, sizes and seat lists:

* `TypeCorrect`: `Spec => []TypeOK`;
* `IdsAreUnique`: `Spec => []UniqueIds`.

From the constants only the ASSUMEs of `EmsServer` are used: the main thread is no
worker, ids are numbers, sizes are pairs of numbers, a RESERVE names at least one
seat (`parse_reserve` refuses an empty list).

Neither formula is inductive. Types need to know that a thread that uses an event
has found one, and that the walks of LIST and SIGUSR1 stay at or before the tail
they captured (`CallInv`). Unique ids need the write lock to exclude everybody
(`RwlInv`: the program counter says who holds `rwl`), and that the lookup of a CREATE
is still true when it appends (`NewIdInv`). `MutexInv` says the same of the event
mutexes, `CountInv` relates `event_num` to the list. Their conjunction `IInv` holds
initially (`InitInv`) and is preserved by every action (`CreateStep`, `ReserveStep`,
`ShowStep`, `ListStep`, `DumpStep`, `CallStep`, `ReplyStep`, `NextInv`).

Its second part rests on `IInv` and proves what the critical section of `ems_reserve`
is for, under the same assumptions:

* `ReservesAreAtomic`: `Spec => []AllOrNothing`;
* `AnswersAreKept`: `Spec => []ReservationHonoured`;
* `SeatsStayReserved`: `Spec => SeatsAreFinal`.

`SeatInv` says how far the two loops are: the wanted seats that the check loop has
passed are free (`Checked`); the write loop has written exactly the seats before its
counter, the others are free, and its id is the newest of the event (`Written`); a
granted reservation has its seats and an id no writer has (`Honoured`); every
reservation counted owns a seat, but for the one being written (`Counted`). A step of
another thread disturbs none of it, because two threads are never in the critical
section of one event (`Alone`, from `MutexInv`), and steps that neither touch a seat
nor enter the loops preserve it at once (`QuietStep`). The write loop may name a seat
twice, so a write finds the seat free or its own (`OneWrite`).

The third part is about what the threads send:

* `ShowIsSound`: `Spec => []ShowSound`;
* `ListIsWhole`: `Spec => []ListWhole`;
* `DumpIsWhole`: `Spec => []DumpWhole`.

`AnswerInv` says what has been sent so far. SHOW: a seat sent as reserved is reserved in
the store with the same id, and by `SeatsAreFinal` stays so, which is why the read without
the mutex is never contradicted. LIST: the number announced is the length of the list, and
the ids sent are those before the node of the walk, as nobody can append while it holds the
read lock; afterwards the list only grows (`Grows`). SIGUSR1: the seats printed are those of the event, which
cannot change while main holds its mutex. TLC finds no violation of `IInv`, `SeatInv` or
`AnswerInv` on the instance of `store`.

The last theorem is `NeverDeadlocked`, `Spec => []NoDeadlock`: whenever a thread waits,
another one inside an operation does not. By `RwlInv` and `MutexInv` every lock that is
waited for has a holder whose place is known: the holder of a mutex waits for nothing
(`MutexHolderRuns`), and of the holders of the list lock only the SIGUSR1 action waits, for
a mutex (`ListHolderRuns`). This is the part of `CallsReturn` that needs no fairness. TLC's
own test for deadlock sees only states in which nothing at all can move, and a worker that
may still receive a request can.

### The refinement

`EmsRefinementProofs` proves `ServerRefinesStore`: `Spec => RefinesEventStore`, that is,
every behaviour of the code, lock by lock, is one of the store whose operations take
effect in one step. The assumptions are those of `EmsServer`, from which those of
`EventStore` follow. The invariant is `IInv /\ SeatInv /\ AnswerInv`. The argument:

* The abstract seats are those in memory, but for the seats a writer has still to write,
  which count as its own. The mapping picks that writer with a CHOOSE; `SeatsRule` says
  that it is unique (`Alone`), and the rest of the proof uses the rule only.
* Most steps are silent: taking a lock, the walk to a node, the check loop, and each write
  of the write loop, which writes what the abstract state has already.
* A step is visible where the operation takes effect: the link of a CREATE, the step in
  which a RESERVE takes its id, a refusal, the count of a LIST, each seat of a SHOW, the
  answers. The event that `get_event` returns is the only one with its id, and it
  returns none only if there is none (`FoundIs`).
* A RESERVE is refused only where the store may refuse it: at that step the event does not
  exist, or a seat asked for is out of bounds or taken (`ReserveRefused`).
* The abstract reservations of an event are the number of owners of its seats, in the code
  a counter: `OwnersCounted` shows with `AllOrNothing` that they are the same.

### A session

`SessionProofs` proves, for any sets of commands, answers and words and any bounds that
satisfy the ASSUMEs of `Session`:

* `SessionTyped`: `Spec => []TypeOK`;
* `RequestsExecutedAsSent`: `Spec => []ExecutedAsSent`;
* `SessionReturnsTrue`: `Spec => []ReturnsTrue`;
* `SessionInStep`: `Spec => []InStep`;
* `SessionNeverStuck`: `Spec => []NeverBothWait`.

Two invariants relate what one process did to what the other has still to do. `SentInv` is
about the request pipe: as long as the worker reads, the pipe holds, in order and without a
gap, exactly the fields from the one the worker waits for to the last one the client wrote
(`PipeInv`), and what was executed so far are the requests in order, each with all its
fields. `SyncInv` is about the response pipe: while the output file can be written and the
worker has not hung up, what the client has read of the current answer, followed by what is
in the pipe, followed by what the worker has still to write, is the answer the worker gave
to the request the client is at (`BeingAnswered`). A read of so many words then takes what
was written for it, also where the writes and the reads are cut differently. Neither holds
without its condition: `desync` shows what happens when the output fails.

`SessionNeverStuck` uses both: if the worker waits for a request and the request pipe is
empty, the last request has been executed (`AllExecuted`, from `PipeInv`); so what the
client has not read of its answer is in the response pipe (`AllAnswered`), and it is long
enough for every read of `api.c` (`HeaderComes`).

### The store of Part 1

`EmsLocalProofs` proves of the store of Part 1, for any number of threads, any ids,
sizes and seat lists, and any size of the buffer:

* `TypeCorrect`: `Spec => []TypeOK`;
* `NoLockIsLeft`: `Spec => []NoLockLeft`;
* `RollbackIsComplete`: `Spec => []RollbackComplete`;
* `ReservationIsHonoured`: `Spec => []ReservationHonoured`;
* `PiecesStayTogether`: `Spec => []PiecesTogether`;
* `ShowIsPrintedWhole`: `Spec => []ShowWhole`;
* `ListIsPrintedWhole`: `Spec => []ListWhole`.

The assumptions are those of `EmsLocal`: no thread is the owner of a free lock, ids are
numbers, sizes pairs of numbers, a RESERVE names at least one seat. The invariant of the
types and locks (`IInv`) says at which places a thread may hold which lock (`LockInv`),
that its event is one of the list (`CallInv`), and that the reservation in the making is
the last one counted (`CountInv`), without which the rollback's `reservations--` could
fall below 0. `SeatInv` adds that no seat is owned by a reservation that is not counted
(`BoundInv`), that each counted one owns a seat or is being made (`OwnInv`), that the one
being made owns exactly the seats before the loop counter (`WriterInv`), and that a
reservation made keeps its seats (`GrantInv`). The rollback frees the seats of the
writer, which by `WriterInv` are its own, and takes back the last id, which by
`BoundInv` no other seat has. `PieceInv` says that a thread that has written in its call
holds `file_Lock` until the call returns, so the last piece is its own (`LastInv`).

What SHOW and LIST print is spread over the output file and the buffer, and read at
different times. `TextInv` adds that who walks the list or the seats holds the lock, and
that a writer's lock has no readers (`HoldInv`), so while a SHOW reads, a reservation in
the making has written no seat yet. `Seating` is the seats after the first *m*
reservations, all of them made (`Settled`); later ones never change it, because they take
free seats and give back none but their own (`OthersSeats`). `ShowInv` and `ListInv` say
that the text of the call so far, in the file and in the buffer (`Sent`), is the first seats
of a `Seating`, or the first ids of the list. A flush moves the buffer to the file and
leaves `Sent` as it is, whatever the size of the buffer. The text is the concatenation of
the call's pieces: `Flatten` proves of the community modules' `FlattenSeq` that it keeps
types, that a piece appended at the end is appended to the text (`FlattenAppend`), and that
an empty piece adds nothing.

`NeverDeadlocked`, `Spec => []NoDeadlock`, is proved from `IInv` alone, lock by lock from the
last to the first: the holder of the file runs, that of the seats waits for nothing but
the file, that of the events for nothing but the seats, that of the list for nothing but
the events or the file. The places that `LockInv` allows a holder are what makes this an
order, although `operations.c` releases the locks in another one and `ems_create` takes the
list twice.

### The connection pool

`ServerPoolProofs` proves, for any number of workers and clients, any length of the
queue and any bounds on faults and signals:

* `TypeCorrect`: `Spec => []TypeOK`;
* `NoWakeupIsLost`: `Spec => []NobodySleepsOnWork`;
* `SessionsAreDrained`: `Spec => []SessionsDrained`;
* `EveryoneHasOneOwner`: `Spec => []OneOwner`;
* `ServedInOrder`: `Spec => FirstComeFirstServed`.

It assumes that `Nobody` is no client, that the main thread is no worker and neither is
the owner of a free lock, and that the bounds are numbers. `TypeOK` and
`NobodySleepsOnWork` are inductive. `SessionsDrained` speaks of the exit only; `DrainInv`
says that a client whose session has begun is with a worker or rejected, so when main
has joined the workers there is none left. `OneOwner` counts the places of a client;
`OwnerInv` says that the five places are disjoint, that nobody is twice in a queue or
with two workers, that a new client is in none of them and a client with a session in
one. A step then moves one client from one place to another (`MainMoves`, `WorkerMoves`,
`ClientMoves`), and `Counts` turns disjoint places into the count. The order of the
clients is that of the queue followed by main's buffer and the pipe, of which every step
keeps, extends or shortens one end (`HeadFirst`, `TailFirst`).

### The threads of a job file

`JobThreadsProofs` proves, for any number of threads and any job file:

* `BarriersHold`: `Spec => []BarrierSeparates`;
* `CommandsRunOnce`: `Spec => []EachCommandOnce`;
* `RoundsJoined`: `Spec => []NoThreadLeft`;
* `TypeCorrect` and `DelaysAreTaken`: `TypeOK` and `NoStaleDelay`, of every state.

It assumes a positive number of threads (which `main` checks) and job files that are
sequences of commands. The inductive invariant adds that threads run only between
their creation and their join (`PhaseInv`), that nothing is read while the flag is up
(`FlagInv`), and that the commands before every barrier read so far have run, but for
the barrier of the flag (`PassedInv`). A new round lowers the flag when no thread
runs, so by then every command read has run.

### The parser

`JobParserProofs` proves, for any job files, any `MAX_RESERVATION_SIZE` above 0 and any
`UINT_MAX`:

* `TypeCorrect`: `Spec => []TypeOK`;
* `LinesAreKept`: `Spec => []LineStart`;
* `CommandsRunFromOneLine`: `Spec => []RunFromOneLine`;
* `CorrectLinesAreRun`: `Spec => []CorrectLinesRun`.

The provers know nothing of strings. `StringsAssumption` says what is used of them: lengths
are numbers, a character of a file is not empty, a digit is the text of a number, no
keyword begins like another, a comment or an empty line, or holds the end of a line, and a
piece of a file that is a keyword has the characters of that piece. `CmdsAssumption` gives
the commands of `CorrectLinesRun` numbers up to `UINT_MAX` as arguments. TLC evaluates both
on the files and keywords of `parser`.

The invariant `ReadInv` says that the reader is in its file, at the start of a line, and
that every command has arguments its operation expects. Its proof follows a parse:
`Literal` and `Number` keep a position in the file, numbers in their range as long as all is
as expected, and a last character that is one of those allowed (`LiteralParses`,
`NumberParses`). A command is accepted only after the end of a line or of the file, and
otherwise `cleanup` gets to one (`CleanupEnds`), so every parse ends at the start of a line
(`CreateReads`, `ReserveReads`, ..., `NextReads`). The loop of `parse_reserve` adds two
numbers for each seat, and stops at `MAX_RESERVATION_SIZE` seats (`LoopSeats`).

`RowsInv` adds to it that the two properties hold of every entry of `ran`. Each `parse_*`
function has a lemma for each direction: if it accepts, the line reads as what it returns
(`CreateWas`, `ShowWas`, `ReserveWas`, ...), and if a line reads as its command, it accepts
and returns it (`CreateIs`, `ShowIs`, `ReserveIs`, ...; the last for a list that is not
full). A line that spells a command reads as it. `ReadsAsBy` and `Starts` take a line
apart into the places of its arguments. The loop of `parse_reserve` is followed seat by
seat: after *n* turns the parse has reached the place of the next seat with the numbers
before it (`Reached`), where `SeatWas` and `SeatIs` add one seat. That a command never takes
a piece of the next line follows from the places: none before its end holds an end of line,
so its end is the first one, which is where `cleanup` would have stopped. `NextWhole` and
`NextRuns` put the functions together, and `RowsStep` shows that a step adds an entry of
which both are true. The value of a number, the places of the arguments and the loop are
recursive functions: that they exist, and what they return, is proved by induction.

A few texts have a name of their own in the proofs (`Space`, `Comma`, `CreateWord`, ...),
because the translation for the SMT solver takes no string with a space or a comma.

### Induction over data

The library's induction theorems take an operator as a parameter and cannot be used with
these provers. `Flatten` derives `Induction` from the well-foundedness of the naturals, for
a *set* of naturals in the place of the operator: a set with 0 and with the successor of
each member is all of them. `FlattenSeq` and the recursive functions of `JobParser` are
reasoned about with it.

### Only model-checked

* Liveness (`CallsReturn`, `EveryClientServed`, `JobCompletes`, `CommandsEnd`,
  `SessionEnds`), and ENABLED, are out of the prover's reach. The absence of deadlock that
  the first, the fourth and the last rest on is proved.
* The runs that show a violation: `show`, `join`, `sigpipe`, `twice`, `desync`.

## 5. Where the documents and the code disagree

The runs `show`, `join`, `sigpipe`, `twice` and `desync` each show a behaviour that a
document or a comment of the repository excludes. The following disagreements are plain
from the code and have no run of their own; the models follow the code, and the
properties speak of the lines and seats about which both agree.

* **Rows and columns.** `ems_reserve` takes the first number of a seat as its row and the
  second as its column (`Part2/src/server/operations.c:143`, `Part1/src/operations.c:162`);
  `api.h:39` and `operations.h` agree ("Array of rows of the seats to reserve"). Both
  READMEs (`Part2/README.md:37`, `Part1/README.md:47`) give x in 1..num_cols and y in
  1..num_rows. In an event of one row and two columns, seat (1,2) is granted, which by
  the READMEs does not exist, and (2,1), which they allow, is refused. `RefinesEventStore`
  is the promise of `api.h`.
* **The space in a seat.** The READMEs write a seat as `(<x1>, <y1>)` (`Part2/README.md:21`,
  `Part1/README.md:30`); HELP and the example job files have no space after the comma, and
  the parsers refuse it (`client/parser.c:148`: the number is empty, and a space is no `)`).
* **A number that is left out.** `parse_uint` and `read_uint` do not ask whether there was a
  digit, so `SHOW ` is run as `SHOW 0`, and `CREATE  2 2` creates event 0. `io.h:10` says "0
  if the integer was read successfully", and the READMEs ask for a `uint`.
* **A full list.** `parse_reserve` takes `num_coords == max` for a list that is too long
  (`client/parser.c:166`, `Part1/src/parser.c:213`). A RESERVE of exactly
  `MAX_RESERVATION_SIZE` seats is refused, which `parser.h:33` ("Maximum number of
  coordinates to read") and the READMEs allow.
* **A last line without a newline.** The callers accept the end of the file for the end of a
  line, but `parse_uint` leaves its buffer without a terminator there (`io.c:16`), so a
  command with a number may be run with another one or be refused; a RESERVE is refused,
  because its last `read` returns no character.
* **The thread of a WAIT.** Part 1's README allows `thread_id` from 0 to `max_threads`
  (`Part1/README.md:49`); `inject_wait` refuses that number (`threaded.c:34`): threads are counted from 0.
  In `JobThreads` such a WAIT changes nothing; no property speaks of it.

## 6. Not modelled

* The fork loop of Part 1 (`main.c`): the children share nothing but their number, and
  the limit on it has no effect, because `current_processes` is set to 0 for every
  file (`main.c:149`) and the loop that waits for a free place is never entered. The
  output path is cut at the first `.` of the whole path (`utils.c:13`), so the jobs of
  a directory whose own name has a dot write to one file. The access delay is read
  from the argument for the number of threads (`main.c:117`).
* Start-up failures of the server and of Part 1's `process_job`, which exit at once;
  the client's are one step of `Session`.
* `ems_terminate` and `free_list`, which run when every thread has been joined.
* Use of freed memory after a thread of Part 1 fails, writes past a parser's buffer,
  and arithmetic at the width of `size_t`: undefined, or beyond any instance.
* Formatting of the output, messages on stderr, real time.

## 7. Plan

1. *Done*: the server with its abstract specification, the pool, the session, the store
   and the threads of Part 1, the parser; the proofs of section 4.
2. *Done*: the proofs of every safety property, of the action properties and of the
   refinement, and that neither store nor a session can reach a deadlock.
3. Left: liveness, which stays with TLC, and an abstract specification of the store of
   Part 1. `EventStore` is not one: two threads of Part 1 can create the same event
   (`twice`), so what its store promises about ids has to be weaker.
