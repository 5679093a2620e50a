------------------------------ MODULE EmsLocal ------------------------------
(***************************************************************************)
(* The event manager of one process of Part 1: Part1/src/operations.c and  *)
(* eventlist.c.  The threads of a job file share one list of events and    *)
(* one output file.  Three global readers-writer locks guard the list, the *)
(* events and the seats of all events; a mutex guards the output file.     *)
(*                                                                         *)
(* Unlike the server, ems_reserve writes seats while it checks them and    *)
(* takes them back if it fails, ems_create lets go of the list between the *)
(* test for an existing event and the append, and SHOW and LIST write in   *)
(* pieces when their text is longer than the buffer.                       *)
(*                                                                         *)
(* A step takes a lock, or makes one access to what the locks guard; a     *)
(* release is folded into the step before it.                              *)
(***************************************************************************)
EXTENDS Integers, Sequences, SequencesExt

CONSTANTS
  Threads,    \* the threads of the process
  NoThread,   \* the owner of a free lock
  EventIds, Sizes, SeatLists,  \* what occurs in the commands
  BufferSize, \* seats or ids that fill the buffer up to BUFFER_FLUSH_THOLD
  MaxCalls    \* bound: commands a thread runs (a job file is finite)

ASSUME ThreadsAssumption == NoThread \notin Threads
ASSUME IdsAssumption == EventIds \subseteq Nat
ASSUME SizesAssumption == Sizes \subseteq Nat \X Nat
\* parse_reserve hands a RESERVE on only if it has at least one seat.
ASSUME SeatsAssumption == \A s \in SeatLists : s \in Seq(Nat \X Nat) /\ s # << >>
ASSUME BoundsAssumption == BufferSize \in Nat \ {0} /\ MaxCalls \in Nat

NULL == 0
Locks == {"list", "event", "seat"}

NoRequest == [op |-> "none"]
Requests ==
  [op : {"create"}, id : EventIds, size : Sizes]
    \cup [op : {"reserve"}, id : EventIds, seats : SeatLists]
    \cup [op : {"show"}, id : EventIds] \cup [op : {"list"}]

VARIABLES
  list,         \* event_list, head to tail: id, rows, cols of each struct Event
  reservations, \* event->reservations
  data,         \* event->data, from seat index to reservation id
  rd,           \* the threads that hold each rwlock for reading
  wr,           \* the thread that holds each rwlock for writing
  file,         \* the thread that holds file_Lock
  output,       \* the writes to the output file: by whom, in which call, what
  pc,           \* where each thread is
  req,          \* the command it runs
  ev,           \* the struct Event* (or the current node) it works on
  idx,          \* its loop counter
  rid,          \* reservation_id
  buffer,       \* what it has not written yet
  status,       \* the return value of the operation
  calls         \* the commands it has begun

events == <<list, reservations, data>>
rwlocks == <<rd, wr>>
vars == <<events, rwlocks, file, output, pc, req, ev, idx, rid, buffer, status, calls>>

Positions == 1 .. Len(list)
SeatsOf(e) == 0 .. list[e].rows * list[e].cols - 1
SeatIndex(e, seat) == (seat[1] - 1) * list[e].cols + seat[2] - 1
InBounds(e, seat) == seat[1] \in 1 .. list[e].rows /\ seat[2] \in 1 .. list[e].cols

\* get_event: the first node with this id, or NULL.
GetEvent(id) ==
  IF \E e \in Positions : list[e].id = id
  THEN CHOOSE e \in Positions : /\ list[e].id = id
                                /\ \A d \in 1 .. e - 1 : list[d].id # id
  ELSE NULL

Init ==
  /\ list = << >> /\ reservations = << >> /\ data = << >>
  /\ rd = [l \in Locks |-> {}] /\ wr = [l \in Locks |-> NoThread]
  /\ file = NoThread /\ output = << >>
  /\ pc     = [t \in Threads |-> "idle"]
  /\ req    = [t \in Threads |-> NoRequest]
  /\ ev     = [t \in Threads |-> NULL]
  /\ idx    = [t \in Threads |-> 0]
  /\ rid    = [t \in Threads |-> 0]
  /\ buffer = [t \in Threads |-> << >>]
  /\ status = [t \in Threads |-> 0]
  /\ calls  = [t \in Threads |-> 0]

----------------------------------------------------------------------------
(* Steps of a thread.                                                      *)

At(t, label)   == pc[t] = label
Goto(t, label) == pc' = [pc EXCEPT ![t] = label]
Return(t, s)   == Goto(t, "done") /\ status' = [status EXCEPT ![t] = s]

ReadLock(l, t)  == wr[l] = NoThread /\ rd' = [rd EXCEPT ![l] = @ \cup {t}]
\* Mutant: a writer does not wait for the readers.
WriteLockHasty(l, t) == wr[l] = NoThread /\ wr' = [wr EXCEPT ![l] = t]

WriteLock(l, t) == wr[l] = NoThread /\ rd[l] = {} /\ wr' = [wr EXCEPT ![l] = t]
\* Thread t lets go of the locks L, however it holds them.
Unlock(L, t) ==
  /\ rd' = [l \in Locks |-> IF l \in L THEN rd[l] \ {t} ELSE rd[l]]
  /\ wr' = [l \in Locks |-> IF l \in L /\ wr[l] = t THEN NoThread ELSE wr[l]]

Call(t) ==
  /\ At(t, "idle") /\ calls[t] < MaxCalls
  /\ \E r \in Requests : req' = [req EXCEPT ![t] = r]
  /\ calls' = [calls EXCEPT ![t] = @ + 1]
  /\ Goto(t, "lock_list")
  /\ UNCHANGED <<events, rwlocks, file, output, ev, idx, rid, buffer, status>>

\* The locals of the operation die with it.
Finish(t) ==
  /\ At(t, "done") /\ Goto(t, "idle")
  /\ req' = [req EXCEPT ![t] = NoRequest]
  /\ ev'  = [ev EXCEPT ![t] = NULL]
  /\ idx' = [idx EXCEPT ![t] = 0]
  /\ rid' = [rid EXCEPT ![t] = 0]
  /\ buffer' = [buffer EXCEPT ![t] = << >>]
  /\ status' = [status EXCEPT ![t] = 0]
  /\ UNCHANGED <<events, rwlocks, file, output, calls>>

----------------------------------------------------------------------------
(* The lookup that create, reserve and show begin with.                    *)

LockList(t) ==
  /\ At(t, "lock_list") /\ ReadLock("list", t)
  /\ \/ req[t].op # "list" /\ Goto(t, "lock_event") /\ UNCHANGED ev
     \/ req[t].op = "list" /\ Goto(t, "list") /\ ev' = [ev EXCEPT ![t] = 1]
  /\ UNCHANGED <<events, wr, file, output, req, idx, rid, buffer, status, calls>>

LockEvent(t) ==
  /\ At(t, "lock_event") /\ ReadLock("event", t) /\ Goto(t, "find")
  /\ UNCHANGED <<events, wr, file, output, req, ev, idx, rid, buffer, status, calls>>

\* Mutant: a CREATE goes for the write lock with the read lock in its hand.
FindUpgrades(t) ==
  /\ At(t, "find")
  /\ Unlock(IF req[t].op = "create" THEN {"event"} ELSE {"list", "event"}, t)
  /\ ev' = [ev EXCEPT ![t] = GetEvent(req[t].id)]
  /\ IF (req[t].op = "create") = (ev'[t] = NULL)
     THEN Goto(t, req[t].op) /\ UNCHANGED status
     ELSE Return(t, 1)
  /\ UNCHANGED <<events, file, output, req, idx, rid, buffer, calls>>

\* Only a CREATE goes on without an event.
Find(t) ==
  /\ At(t, "find") /\ Unlock({"list", "event"}, t)
  /\ ev' = [ev EXCEPT ![t] = GetEvent(req[t].id)]
  /\ IF (req[t].op = "create") = (ev'[t] = NULL)
     THEN Goto(t, req[t].op) /\ UNCHANGED status
     ELSE Return(t, 1)
  /\ UNCHANGED <<events, file, output, req, idx, rid, buffer, calls>>

----------------------------------------------------------------------------
(* The rest of ems_create.                                                 *)

\* The event and its seats are allocated, or malloc fails, before the thread
\* goes for the list again: who waits for it has its memory and cannot fail.
CreateAlloc(t) ==
  /\ At(t, "create")
  /\ \/ Return(t, 1)
     \/ Goto(t, "lock_append") /\ UNCHANGED status
  /\ UNCHANGED <<events, rwlocks, file, output, req, ev, idx, rid, buffer, calls>>

CreateLock(t) ==
  /\ At(t, "lock_append") /\ WriteLock("list", t) /\ Goto(t, "append")
  /\ UNCHANGED <<events, rd, file, output, req, ev, idx, rid, buffer, status, calls>>

\* append_to_list, which fails if it gets no memory.
CreateAppend(t) ==
  LET rows == req[t].size[1]
      cols == req[t].size[2]
  IN /\ At(t, "append") /\ Unlock({"list"}, t)
     /\ \/ Return(t, 1) /\ UNCHANGED events
        \/ /\ list' = Append(list, [id |-> req[t].id, rows |-> rows, cols |-> cols])
           /\ reservations' = Append(reservations, 0)
           /\ data' = Append(data, [i \in 0 .. rows * cols - 1 |-> 0])
           /\ Return(t, 0)
     /\ UNCHANGED <<file, output, req, ev, idx, rid, buffer, calls>>

----------------------------------------------------------------------------
(* The rest of ems_reserve.                                                *)

Seat(t) == SeatIndex(ev[t], req[t].seats[idx[t]])
WriteSeat(t, r) == data' = [data EXCEPT ![ev[t]][Seat(t)] = r]

\* Mutant: the reservation is not counted.
ReserveIdUncounted(t) ==
  /\ At(t, "reserve") /\ WriteLock("event", t) /\ Goto(t, "lock_seat")
  /\ rid' = [rid EXCEPT ![t] = reservations[ev[t]] + 1]
  /\ UNCHANGED <<events, rd, file, output, req, ev, idx, buffer, status, calls>>

ReserveId(t) ==
  /\ At(t, "reserve") /\ WriteLock("event", t) /\ Goto(t, "lock_seat")
  /\ reservations' = [reservations EXCEPT ![ev[t]] = @ + 1]
  /\ rid' = [rid EXCEPT ![t] = reservations'[ev[t]]]
  /\ UNCHANGED <<list, data, rd, file, output, req, ev, idx, buffer, status, calls>>

ReserveLock(t) ==
  /\ At(t, "lock_seat") /\ WriteLock("seat", t) /\ Goto(t, "seats")
  /\ idx' = [idx EXCEPT ![t] = 1]
  /\ UNCHANGED <<events, rd, file, output, req, ev, rid, buffer, status, calls>>

\* Mutant: a seat is only looked at, not tested.
FreeAlways(t) == InBounds(ev[t], req[t].seats[idx[t]])

\* The next seat exists and is free.
Free(t) == InBounds(ev[t], req[t].seats[idx[t]]) /\ data[ev[t]][Seat(t)] = 0

ReserveSeat(t) ==
  /\ At(t, "seats") /\ idx[t] <= Len(req[t].seats) /\ Free(t)
  /\ WriteSeat(t, rid[t])
  /\ idx' = [idx EXCEPT ![t] = @ + 1]
  /\ UNCHANGED <<list, reservations, rwlocks, file, output, pc, req, ev, rid, buffer, status, calls>>

\* Event e with the first n - 1 seats of the request given back.
Cleared(t, n) ==
  [data EXCEPT ![ev[t]] = [i \in SeatsOf(ev[t]) |->
     IF \E j \in 1 .. n - 1 : i = SeatIndex(ev[t], req[t].seats[j]) THEN 0 ELSE @[i]]]

\* Mutant: the last seat that was written is forgotten.
GiveUpOneShort(t) ==
  /\ At(t, "seats") /\ idx[t] <= Len(req[t].seats) /\ ~Free(t)
  /\ reservations' = [reservations EXCEPT ![ev[t]] = @ - 1]
  /\ data' = Cleared(t, idx[t] - 1)
  /\ Unlock({"event", "seat"}, t) /\ Return(t, 1)
  /\ UNCHANGED <<list, file, output, req, ev, idx, rid, buffer, calls>>

\* The reservation fails: its id and the seats before this one are given back.
\* Nobody else may touch a seat, so the loop over them is one step.
GiveUp(t) ==
  /\ At(t, "seats") /\ idx[t] <= Len(req[t].seats) /\ ~Free(t)
  /\ reservations' = [reservations EXCEPT ![ev[t]] = @ - 1]
  /\ data' = Cleared(t, idx[t])
  /\ Unlock({"event", "seat"}, t) /\ Return(t, 1)
  /\ UNCHANGED <<list, file, output, req, ev, idx, rid, buffer, calls>>

ReserveEnd(t) ==
  /\ At(t, "seats") /\ idx[t] > Len(req[t].seats)
  /\ Unlock({"event", "seat"}, t) /\ Return(t, 0)
  /\ UNCHANGED <<events, file, output, req, ev, idx, rid, buffer, calls>>

----------------------------------------------------------------------------
(* The rest of ems_show, and ems_list_events.                              *)

\* Mutant: seat_Lock is not taken.
ShowNoLock(t) ==
  /\ At(t, "show") /\ Goto(t, "show_seats")
  /\ UNCHANGED <<events, rwlocks, file, output, req, ev, idx, rid, buffer, status, calls>>

ShowLock(t) ==
  /\ At(t, "show") /\ ReadLock("seat", t) /\ Goto(t, "show_seats")
  /\ UNCHANGED <<events, wr, file, output, req, ev, idx, rid, buffer, status, calls>>

Full(t) == Len(buffer[t]) = BufferSize
Put(t, x) == buffer' = [buffer EXCEPT ![t] = Append(@, x)]

ShowSeat(t) ==
  /\ At(t, "show_seats") /\ ~Full(t) /\ idx[t] \in SeatsOf(ev[t])
  /\ Put(t, data[ev[t]][idx[t]])
  /\ idx' = [idx EXCEPT ![t] = @ + 1]
  /\ UNCHANGED <<events, rwlocks, file, output, pc, req, ev, rid, status, calls>>

ListEvent(t) ==
  /\ At(t, "list") /\ ~Full(t) /\ ev[t] \in Positions
  /\ Put(t, list[ev[t]].id)
  /\ ev' = [ev EXCEPT ![t] = @ + 1]
  /\ UNCHANGED <<events, rwlocks, file, output, pc, req, idx, rid, status, calls>>

\* Mutant: file_Lock is not waited for.
LockFileNoWait(t) == file' = t

\* file_Lock, unless an earlier flush of this call has taken it.
LockFile(t) == file \in {NoThread, t} /\ file' = t

Written(t) == Append(output, [by |-> t, call |-> calls[t], text |-> buffer[t]])

\* The buffer is written in the middle of the text; the mutex is kept.
Flush(t) ==
  /\ At(t, "show_seats") \/ At(t, "list")
  /\ Full(t) /\ LockFile(t)
  /\ output' = Written(t)
  /\ buffer' = [buffer EXCEPT ![t] = << >>]
  /\ UNCHANGED <<events, rwlocks, pc, req, ev, idx, rid, status, calls>>

\* safe_write fails: the operation returns without the rest.
FlushFail(t) ==
  /\ At(t, "show_seats") \/ At(t, "list")
  /\ Full(t) /\ file \in {NoThread, t} /\ file' = NoThread
  /\ Unlock({"list", "seat"}, t)
  /\ Return(t, 1)
  /\ UNCHANGED <<events, output, req, ev, idx, rid, buffer, calls>>

\* The seats are let go before the text is written, the list is not.
ShowEnd(t) ==
  /\ At(t, "show_seats") /\ ~Full(t) /\ idx[t] \notin SeatsOf(ev[t])
  /\ Unlock({"seat"}, t) /\ Goto(t, "write")
  /\ UNCHANGED <<events, file, output, req, ev, idx, rid, buffer, status, calls>>

ListEnd(t) ==
  /\ At(t, "list") /\ ~Full(t) /\ ev[t] \notin Positions
  /\ Goto(t, "write")
  /\ UNCHANGED <<events, rwlocks, file, output, req, ev, idx, rid, buffer, status, calls>>

\* What is left of the text is written, or safe_write fails.
Write(t) ==
  /\ At(t, "write") /\ file \in {NoThread, t} /\ file' = NoThread
  /\ Unlock({"list"}, t)
  /\ \/ output' = Written(t) /\ Return(t, 0)
     \/ UNCHANGED output /\ Return(t, 1)
  /\ UNCHANGED <<events, req, ev, idx, rid, buffer, calls>>

----------------------------------------------------------------------------

Lookup(t)  == LockList(t) \/ LockEvent(t) \/ Find(t)
Create(t)  == CreateAlloc(t) \/ CreateLock(t) \/ CreateAppend(t)
Reserve(t) == \/ ReserveId(t) \/ ReserveLock(t) \/ ReserveSeat(t)
              \/ GiveUp(t) \/ ReserveEnd(t)
Answer(t)  == \/ ShowLock(t) \/ ShowSeat(t) \/ ShowEnd(t) \/ ListEvent(t) \/ ListEnd(t)
              \/ Flush(t) \/ FlushFail(t) \/ Write(t)
Run(t)     == Lookup(t) \/ Create(t) \/ Reserve(t) \/ Answer(t) \/ Finish(t)

\* The bounds are used up: no command is running and none will come.
Quiet == (\A t \in Threads : At(t, "idle") /\ calls[t] = MaxCalls) /\ UNCHANGED vars

Next == (\E t \in Threads : Call(t) \/ Run(t)) \/ Quiet

Spec == Init /\ [][Next]_vars

\* A thread inside an operation is scheduled again.
Fairness == \A t \in Threads : WF_vars(Run(t))
FairSpec == Spec /\ Fairness

----------------------------------------------------------------------------
(* Properties.                                                             *)

Labels == {"idle", "done", "lock_list", "lock_event", "find", "create", "lock_append",
           "append", "reserve", "lock_seat", "seats", "show", "show_seats", "list",
           "write"}

EventsOK ==
  /\ list \in Seq([id : EventIds, rows : Nat, cols : Nat])
  /\ reservations \in Seq(Nat) /\ Len(reservations) = Len(list)
  /\ DOMAIN data = Positions /\ \A e \in Positions : data[e] \in [SeatsOf(e) -> Nat]

ControlOK ==
  /\ rd \in [Locks -> SUBSET Threads] /\ wr \in [Locks -> Threads \cup {NoThread}]
  /\ file \in Threads \cup {NoThread}
  /\ pc \in [Threads -> Labels] /\ req \in [Threads -> Requests \cup {NoRequest}]
  /\ status \in [Threads -> {0, 1}] /\ calls \in [Threads -> Nat]

LocalsOK ==
  /\ ev \in [Threads -> Nat] /\ idx \in [Threads -> Nat] /\ rid \in [Threads -> Nat]
  /\ buffer \in [Threads -> Seq(Nat)]
  /\ output \in Seq([by : Threads, call : Nat, text : Seq(Nat)])

\* Every variable holds a value of its C type, and every index is inside the
\* array it is used on.
TypeOK == EventsOK /\ ControlOK /\ LocalsOK

\* The ids of the reservations that own seats of event e.
Owners(e) == {data[e][i] : i \in SeatsOf(e)} \ {0}

\* While no thread may write seats, the seats of an event are owned by exactly
\* the reservations it has counted: the rollback of a RESERVE that fails on a
\* later seat gives back all its seats, none of another, and its id.
RollbackComplete ==
  \A e \in Positions :
    wr["event"] = NoThread => Owners(e) = 1 .. reservations[e]

\* A RESERVE that succeeded owns all the seats it asked for and no other,
\* whatever the other threads did since.
ReservationHonoured ==
  \A t \in Threads : At(t, "done") /\ req[t].op = "reserve" /\ status[t] = 0 =>
    {i \in SeatsOf(ev[t]) : data[ev[t]][i] = rid[t]}
      = {SeatIndex(ev[t], req[t].seats[j]) : j \in 1 .. Len(req[t].seats)}

\* What thread t has written to the output file in its current call.
Pieces(t) == [j \in 1 .. Len(output) |->
                IF output[j].by = t /\ output[j].call = calls[t] THEN output[j].text ELSE << >>]
Text(t) == FlattenSeq(Pieces(t))

Printed(t, op) == At(t, "done") /\ req[t].op = op /\ status[t] = 0

\* A SHOW prints the seating of its event after some number m of its
\* reservations, whole, although the seats are let go before the last write.
ShowWhole ==
  \A t \in Threads : Printed(t, "show") =>
    \E m \in 0 .. reservations[ev[t]] :
      Text(t) = [j \in 1 .. list[ev[t]].rows * list[ev[t]].cols |->
                   IF data[ev[t]][j - 1] <= m THEN data[ev[t]][j - 1] ELSE 0]

\* A LIST prints every event there is when its text goes to the file, each node
\* once, in order: no CREATE comes between the walk and the last write.
ListWhole ==
  \A t \in Threads : At(t, "write") /\ req[t].op = "list" =>
    Text(t) \o buffer[t] = [j \in Positions |-> list[j].id]

\* The pieces of one SHOW or LIST follow each other in the output file: no
\* other thread writes between them.
PiecesTogether ==
  \A i, j, k \in 1 .. Len(output) :
    /\ i < j /\ j < k
    /\ output[i].by = output[k].by /\ output[i].call = output[k].call
    => output[j].by = output[i].by /\ output[j].call = output[i].call

\* No two events have the same id: ems_create reports "Event already exists".
UniqueIds == \A d, e \in Positions : list[d].id = list[e].id => d = e

\* A thread between two commands holds no lock: no path through an operation,
\* a failed write or allocation included, returns with one of the four.
NoLockLeft ==
  \A t \in Threads : pc[t] \in {"idle", "done"} =>
    file # t /\ \A l \in Locks : t \notin rd[l] /\ wr[l] # t

\* Thread t waits for one of the locks that others hold.
Blocked(t) ==
  \/ At(t, "lock_list") /\ wr["list"] # NoThread
  \/ At(t, "lock_append") /\ (wr["list"] # NoThread \/ rd["list"] # {})
  \/ At(t, "lock_event") /\ wr["event"] # NoThread
  \/ At(t, "reserve") /\ (wr["event"] # NoThread \/ rd["event"] # {})
  \/ At(t, "lock_seat") /\ (wr["seat"] # NoThread \/ rd["seat"] # {})
  \/ At(t, "show") /\ wr["seat"] # NoThread
  \/ /\ At(t, "write") \/ (pc[t] \in {"show_seats", "list"} /\ Full(t))
     /\ file \notin {NoThread, t}

\* The threads never all wait for each other, although a thread keeps the list
\* while it takes the events or the file, and the events or the seats while it
\* takes the seats or the file.
NoDeadlock ==
  \A t \in Threads : Blocked(t) => \E u \in Threads : ~At(u, "idle") /\ ~Blocked(u)

\* Every command ends: the locks are taken in orders that cannot deadlock, and
\* no path, a failed write included, returns with one of them.
CommandsEnd == \A t \in Threads : ~At(t, "idle") ~> At(t, "idle")

=============================================================================
