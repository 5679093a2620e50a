----------------------------- MODULE EmsServer -----------------------------
(***************************************************************************)
(* The event store of the EMS server: Part2/src/server/operations.c and    *)
(* eventlist.c.  Worker threads run the four client operations against one *)
(* shared list of events, and the main thread prints every event when it   *)
(* handles SIGUSR1.  The list is guarded by a readers-writer lock          *)
(* (event_list->rwl), the seats of one event by its mutex.                 *)
(*                                                                         *)
(* A step of the model is what a thread does between two points where      *)
(* another thread can interfere: taking a lock, one access to shared       *)
(* memory, one write to the response pipe.  A release is folded into the   *)
(* step before it.  List nodes are never unlinked while the threads run,   *)
(* so a position in the list stands for a pointer to the event or node.    *)
(***************************************************************************)
EXTENDS Integers, Sequences

CONSTANTS
  Workers,    \* the worker threads, one client request each at a time
  Main,       \* the main thread, which runs ems_sigusr1_action
  NoThread,   \* the owner of a free lock
  EventIds,   \* event ids that occur in requests
  Sizes,      \* <<rows, cols>> that occur in CREATE requests
  SeatLists,  \* sequences of <<row, col>> that occur in RESERVE requests
  MaxCalls,   \* bound: requests a worker receives (a .jobs file is finite)
  MaxDumps    \* bound: SIGUSR1 signals the main thread handles

Threads == Workers \cup {Main}
NULL    == 0

ASSUME ThreadsAssumption == /\ Main \notin Workers
                            /\ NoThread \notin Workers \cup {Main}
ASSUME IdsAssumption == EventIds \subseteq Nat
ASSUME SizesAssumption == Sizes \subseteq Nat \X Nat
\* parse_reserve hands a RESERVE on only if it has at least one seat.
ASSUME SeatsAssumption == \A s \in SeatLists : s \in Seq(Nat \X Nat) /\ s # << >>
ASSUME BoundsAssumption == MaxCalls \in Nat /\ MaxDumps \in Nat

NoRequest == [op |-> "none"]
CreateRequests  == [op : {"create"}, id : EventIds, size : Sizes]
ReserveRequests == [op : {"reserve"}, id : EventIds, seats : SeatLists]
ShowRequests    == [op : {"show"}, id : EventIds]
ListRequests    == [op : {"list"}]
Requests == CreateRequests \cup ReserveRequests \cup ShowRequests \cup ListRequests

VARIABLES
  list,         \* event_list, head to tail: id, rows, cols of each struct Event
  reservations, \* event->reservations
  data,         \* event->data, from seat index to reservation id
  mutex,        \* event->mutex: the thread that holds it
  event_num,    \* event_list->event_num
  readers,      \* threads that hold event_list->rwl for reading
  writer,       \* thread that holds event_list->rwl for writing
  pc,           \* where each thread is
  req,          \* the request a worker is executing
  ev,           \* per thread: the struct Event* (or current node) it works on
  last,         \* per thread: `to`, the tail captured before a walk
  idx,          \* per thread: loop counter
  rid,          \* per thread: reservation_id
  out,          \* per thread: what it has written to the pipe (Main: to stdout)
  status,       \* per thread: the return value of the operation
  calls,        \* requests begun by each worker
  dumps         \* SIGUSR1 actions begun

events == <<list, reservations, data, mutex, event_num>>
rwl    == <<readers, writer>>
locals == <<req, ev, last, idx, rid, out, status>>
budget == <<calls, dumps>>
vars   == <<events, rwl, pc, locals, budget>>

----------------------------------------------------------------------------
(* The event list.                                                         *)

Positions == 1 .. Len(list)
SizeOf(e) == list[e].rows * list[e].cols
SeatsOf(e) == 0 .. SizeOf(e) - 1

\* seat_index: position of seat (row, col) in event->data.
SeatIndex(cols, row, col) == (row - 1) * cols + col - 1

\* Mutant: the column is not tested.
InBoundsRow(e, seat) == seat[1] \in 1 .. list[e].rows

InBounds(e, seat) == seat[1] \in 1 .. list[e].rows /\ seat[2] \in 1 .. list[e].cols

\* The seats of event e that the first n entries of a RESERVE ask for.
Wanted(e, seats, n) ==
  {SeatIndex(list[e].cols, seats[j][1], seats[j][2]) : j \in 1 .. n}

\* Mutant: the walk does not stop at the last node.
GetEventPastTail(id) ==
  LET found == {e \in Positions : list[e].id = id}
  IN IF found = {} THEN Len(list) + 1 ELSE CHOOSE e \in found : TRUE

\* get_event: the first node with this id, or NULL.
GetEvent(id) ==
  IF \E e \in Positions : list[e].id = id
  THEN CHOOSE e \in Positions : /\ list[e].id = id
                                /\ \A d \in 1 .. e - 1 : list[d].id # id
  ELSE NULL

Init ==
  /\ list = << >> /\ reservations = << >> /\ data = << >> /\ mutex = << >>
  /\ event_num = 0
  /\ readers = {} /\ writer = NoThread
  /\ pc     = [t \in Threads |-> "idle"]
  /\ req    = [t \in Threads |-> NoRequest]
  /\ ev     = [t \in Threads |-> NULL]
  /\ last   = [t \in Threads |-> NULL]
  /\ idx    = [t \in Threads |-> 0]
  /\ rid    = [t \in Threads |-> 0]
  /\ out    = [t \in Threads |-> << >>]
  /\ status = [t \in Threads |-> 0]
  /\ calls  = [w \in Workers |-> 0]
  /\ dumps  = 0

At(t, l)     == pc[t] = l
Goto(t, l)   == pc' = [pc EXCEPT ![t] = l]
Set(f, t, v) == [f EXCEPT ![t] = v]
Finish(t, s) == Goto(t, "done") /\ status' = Set(status, t, s)
Send(t, v)   == out' = [out EXCEPT ![t] = @ \o v]

ReadLock(t)    == writer = NoThread /\ readers' = readers \cup {t} /\ UNCHANGED writer
\* Mutant: a path that returns with the lock held.
ReadUnlockLost(t) == UNCHANGED rwl
ReadUnlock(t)  == readers' = readers \ {t} /\ UNCHANGED writer
WriteLock(t)   == writer = NoThread /\ readers = {} /\ writer' = t /\ UNCHANGED readers
WriteUnlock(t) == writer' = NoThread /\ UNCHANGED readers

\* Mutant: the event is used without waiting for its mutex.
LockEventNoWait(t, e) == mutex' = Set(mutex, e, t)
LockEvent(t, e) == mutex[e] = NoThread /\ mutex' = Set(mutex, e, t)
UnlockEvent(e)  == mutex' = Set(mutex, e, NoThread)

----------------------------------------------------------------------------
(* A request reaches handle_requests, and its return value is sent back.   *)

Call(w) ==
  /\ At(w, "idle") /\ calls[w] < MaxCalls
  /\ \E r \in Requests : req' = Set(req, w, r) /\ Goto(w, r.op)
  /\ calls' = [calls EXCEPT ![w] = @ + 1]
  /\ UNCHANGED <<events, rwl, ev, last, idx, rid, out, status, dumps>>

\* The thread's locals die with the call.
Clear(t) ==
  /\ Goto(t, "idle")
  /\ req' = Set(req, t, NoRequest)
  /\ ev' = Set(ev, t, NULL) /\ last' = Set(last, t, NULL)
  /\ idx' = Set(idx, t, 0) /\ rid' = Set(rid, t, 0)
  /\ out' = Set(out, t, << >>) /\ status' = Set(status, t, 0)

Reply(w) == At(w, "done") /\ Clear(w) /\ UNCHANGED <<events, rwl, budget>>

----------------------------------------------------------------------------
(* ems_create                                                              *)

CreateLock(w) ==
  /\ At(w, "create") /\ WriteLock(w) /\ Goto(w, "create_find")
  /\ UNCHANGED <<events, locals, budget>>

CreateFind(w) ==
  /\ At(w, "create_find")
  /\ \/ /\ GetEvent(req[w].id) # NULL
        /\ WriteUnlock(w) /\ Finish(w, 1)
     \/ /\ GetEvent(req[w].id) = NULL
        /\ Goto(w, "create_append") /\ UNCHANGED <<rwl, status>>
  /\ UNCHANGED <<events, req, ev, last, idx, rid, out, budget>>

\* malloc, calloc or pthread_mutex_init fails, or append_to_list does.
CreateFail(w) ==
  /\ At(w, "create_append") /\ WriteUnlock(w) /\ Finish(w, 1)
  /\ UNCHANGED <<events, req, ev, last, idx, rid, out, budget>>

\* append_to_list links the node ...
CreateLink(w) ==
  LET rows == req[w].size[1]
      cols == req[w].size[2]
  IN /\ At(w, "create_append") /\ Goto(w, "create_count")
     /\ list' = Append(list, [id |-> req[w].id, rows |-> rows, cols |-> cols])
     /\ reservations' = Append(reservations, 0)
     /\ data' = Append(data, [i \in 0 .. rows * cols - 1 |-> 0])
     /\ mutex' = Append(mutex, NoThread)
     /\ UNCHANGED <<event_num, rwl, locals, budget>>

\* ... and counts it.
CreateCount(w) ==
  /\ At(w, "create_count")
  /\ event_num' = event_num + 1
  /\ WriteUnlock(w) /\ Finish(w, 0)
  /\ UNCHANGED <<list, reservations, data, mutex, req, ev, last, idx, rid, out, budget>>

----------------------------------------------------------------------------
(* ems_reserve                                                             *)

ReserveLock(w) ==
  /\ At(w, "reserve") /\ ReadLock(w) /\ Goto(w, "reserve_find")
  /\ UNCHANGED <<events, locals, budget>>

ReserveFind(w) ==
  /\ At(w, "reserve_find") /\ ReadUnlock(w)
  /\ ev' = Set(ev, w, GetEvent(req[w].id))
  /\ \/ ev'[w] = NULL /\ Finish(w, 1)
     \/ ev'[w] # NULL /\ Goto(w, "reserve_lock") /\ UNCHANGED status
  /\ UNCHANGED <<events, req, last, idx, rid, out, budget>>

ReserveMutex(w) ==
  /\ At(w, "reserve_lock") /\ LockEvent(w, ev[w]) /\ Goto(w, "reserve_bounds")
  /\ UNCHANGED <<list, reservations, data, event_num, rwl, locals, budget>>

AllInBounds(w) ==
  \A j \in 1 .. Len(req[w].seats) : InBounds(ev[w], req[w].seats[j])

\* Mutant: the refusal returns with the event's mutex locked.
ReserveBoundsKeeps(w) ==
  /\ At(w, "reserve_bounds")
  /\ \/ ~AllInBounds(w) /\ Finish(w, 1)
     \/ AllInBounds(w) /\ Goto(w, "reserve_check") /\ UNCHANGED status
  /\ UNCHANGED <<events, rwl, req, ev, last, idx, rid, out, budget>>

ReserveBounds(w) ==
  /\ At(w, "reserve_bounds")
  /\ \/ ~AllInBounds(w) /\ UnlockEvent(ev[w]) /\ Finish(w, 1)
     \/ AllInBounds(w) /\ Goto(w, "reserve_check") /\ UNCHANGED <<mutex, status>>
  /\ UNCHANGED <<list, reservations, data, event_num, rwl>>
  /\ UNCHANGED <<req, ev, last, idx, rid, out, budget>>

\* Mutant: only the first seat of the request is looked at.
TakenFirst(w) ==
  idx[w] \in Wanted(ev[w], req[w].seats, 1) /\ data[ev[w]][idx[w]] # 0

\* One turn of the check loop: seat idx is wanted and taken, or it is passed.
Taken(w) ==
  /\ idx[w] \in Wanted(ev[w], req[w].seats, Len(req[w].seats))
  /\ data[ev[w]][idx[w]] # 0

ReserveCheck(w) ==
  /\ At(w, "reserve_check") /\ idx[w] \in SeatsOf(ev[w])
  /\ \/ Taken(w) /\ UnlockEvent(ev[w]) /\ Finish(w, 1) /\ UNCHANGED idx
     \/ ~Taken(w) /\ idx' = [idx EXCEPT ![w] = @ + 1] /\ UNCHANGED <<mutex, pc, status>>
  /\ UNCHANGED <<list, reservations, data, event_num, rwl>>
  /\ UNCHANGED <<req, ev, last, rid, out, budget>>

ReserveId(w) ==
  /\ At(w, "reserve_check") /\ idx[w] \notin SeatsOf(ev[w])
  /\ reservations' = [reservations EXCEPT ![ev[w]] = @ + 1]
  /\ rid' = Set(rid, w, reservations[ev[w]] + 1)
  /\ idx' = Set(idx, w, 1)
  /\ Goto(w, "reserve_write")
  /\ UNCHANGED <<list, data, mutex, event_num, rwl, req, ev, last, out, status, budget>>

ReserveWrite(w) ==
  LET seat == req[w].seats[idx[w]]
  IN /\ At(w, "reserve_write") /\ idx[w] <= Len(req[w].seats)
     /\ data' = [data EXCEPT ![ev[w]][SeatIndex(list[ev[w]].cols, seat[1], seat[2])] = rid[w]]
     /\ idx' = [idx EXCEPT ![w] = @ + 1]
     /\ UNCHANGED <<list, reservations, mutex, event_num, rwl, pc>>
     /\ UNCHANGED <<req, ev, last, rid, out, status, budget>>

ReserveUnlock(w) ==
  /\ At(w, "reserve_write") /\ idx[w] > Len(req[w].seats)
  /\ UnlockEvent(ev[w]) /\ Finish(w, 0)
  /\ UNCHANGED <<list, reservations, data, event_num, rwl>>
  /\ UNCHANGED <<req, ev, last, idx, rid, out, budget>>

----------------------------------------------------------------------------
(* ems_show: the seats are written to the pipe without event->mutex.       *)

ShowLock(w) ==
  /\ At(w, "show") /\ ReadLock(w) /\ Goto(w, "show_find")
  /\ UNCHANGED <<events, locals, budget>>

\* A failed write of the size of an unknown event is reported, no more.
ShowFind(w) ==
  /\ At(w, "show_find") /\ ReadUnlock(w)
  /\ ev' = Set(ev, w, GetEvent(req[w].id))
  /\ \/ ev'[w] = NULL /\ Finish(w, 1) /\ (Send(w, <<0, 0>>) \/ UNCHANGED out)
     \/ ev'[w] # NULL /\ Goto(w, "show_size") /\ UNCHANGED <<out, status>>
  /\ UNCHANGED <<events, req, last, idx, rid, budget>>

ShowSize(w) ==
  /\ At(w, "show_size")
  /\ Send(w, <<list[ev[w]].rows, list[ev[w]].cols>>) /\ Goto(w, "show_data")
  /\ UNCHANGED <<events, rwl, req, ev, last, idx, rid, status, budget>>

ShowSeat(w) ==
  /\ At(w, "show_data") /\ idx[w] \in SeatsOf(ev[w])
  /\ Send(w, <<data[ev[w]][idx[w]]>>)
  /\ idx' = [idx EXCEPT ![w] = @ + 1]
  /\ UNCHANGED <<events, rwl, pc, req, ev, last, rid, status, budget>>

ShowEnd(w) ==
  /\ At(w, "show_data") /\ idx[w] \notin SeatsOf(ev[w]) /\ Finish(w, 0)
  /\ UNCHANGED <<events, rwl, req, ev, last, idx, rid, out, budget>>

\* The client has closed the response pipe.
ShowFail(w) ==
  /\ \/ At(w, "show_size")
     \/ At(w, "show_data") /\ idx[w] \in SeatsOf(ev[w])
  /\ Finish(w, 1)
  /\ UNCHANGED <<events, rwl, req, ev, last, idx, rid, out, budget>>

----------------------------------------------------------------------------
(* ems_list_events: the read lock is held over every write to the pipe.    *)

ListLock(w) ==
  /\ At(w, "list") /\ ReadLock(w) /\ Goto(w, "list_count")
  /\ UNCHANGED <<events, locals, budget>>

ListCount(w) ==
  /\ At(w, "list_count") /\ Send(w, <<event_num>>)
  /\ \/ /\ event_num = 0
        /\ ReadUnlock(w) /\ Finish(w, 0) /\ UNCHANGED <<ev, last>>
     \/ /\ event_num # 0
        /\ ev' = Set(ev, w, 1) /\ last' = Set(last, w, Len(list))
        /\ Goto(w, "list_ids") /\ UNCHANGED <<rwl, status>>
  /\ UNCHANGED <<events, req, idx, rid, budget>>

ListId(w) ==
  /\ At(w, "list_ids") /\ Send(w, <<list[ev[w]].id>>)
  /\ \/ /\ ev[w] = last[w]
        /\ ReadUnlock(w) /\ Finish(w, 0) /\ UNCHANGED ev
     \/ /\ ev[w] # last[w]
        /\ ev' = [ev EXCEPT ![w] = @ + 1] /\ UNCHANGED <<rwl, pc, status>>
  /\ UNCHANGED <<events, req, last, idx, rid, budget>>

\* The client has closed the response pipe.
ListFail(w) ==
  /\ At(w, "list_count") \/ At(w, "list_ids")
  /\ ReadUnlock(w) /\ Finish(w, 1)
  /\ UNCHANGED <<events, req, ev, last, idx, rid, out, budget>>

----------------------------------------------------------------------------
(* ems_sigusr1_action, run by the main thread.                             *)

DumpLock ==
  /\ At(Main, "idle") /\ dumps < MaxDumps
  /\ ReadLock(Main) /\ Goto(Main, "dump_start")
  /\ dumps' = dumps + 1
  /\ UNCHANGED <<events, locals, calls>>

DumpEmpty ==
  /\ At(Main, "dump_start") /\ list = << >>
  /\ ReadUnlock(Main) /\ Clear(Main)
  /\ UNCHANGED <<events, budget>>

DumpStart ==
  /\ At(Main, "dump_start") /\ list # << >>
  /\ ev' = Set(ev, Main, 1) /\ last' = Set(last, Main, Len(list))
  /\ Goto(Main, "dump_lock")
  /\ UNCHANGED <<events, rwl, req, idx, rid, out, status, budget>>

DumpMutex ==
  /\ At(Main, "dump_lock") /\ LockEvent(Main, ev[Main])
  /\ idx' = Set(idx, Main, 0) /\ out' = Set(out, Main, << >>)
  /\ Goto(Main, "dump_seats")
  /\ UNCHANGED <<list, reservations, data, event_num, rwl>>
  /\ UNCHANGED <<req, ev, last, rid, status, budget>>

DumpSeat ==
  /\ At(Main, "dump_seats") /\ idx[Main] \in SeatsOf(ev[Main])
  /\ Send(Main, <<data[ev[Main]][idx[Main]]>>)
  /\ idx' = [idx EXCEPT ![Main] = @ + 1]
  /\ UNCHANGED <<events, rwl, pc, req, ev, last, rid, status, budget>>

DumpNext ==
  /\ At(Main, "dump_seats") /\ idx[Main] \notin SeatsOf(ev[Main])
  /\ UnlockEvent(ev[Main])
  /\ \/ /\ ev[Main] = last[Main]
        /\ ReadUnlock(Main) /\ Clear(Main)
     \/ /\ ev[Main] # last[Main]
        /\ ev' = [ev EXCEPT ![Main] = @ + 1] /\ Goto(Main, "dump_lock")
        /\ UNCHANGED <<rwl, req, last, idx, rid, out, status>>
  /\ UNCHANGED <<list, reservations, data, event_num, budget>>

----------------------------------------------------------------------------

Create(w)  == CreateLock(w) \/ CreateFind(w) \/ CreateFail(w) \/ CreateLink(w) \/ CreateCount(w)
Reserve(w) == \/ ReserveLock(w) \/ ReserveFind(w) \/ ReserveMutex(w) \/ ReserveBounds(w)
              \/ ReserveCheck(w) \/ ReserveId(w) \/ ReserveWrite(w) \/ ReserveUnlock(w)
Show(w)    == \/ ShowLock(w) \/ ShowFind(w) \/ ShowSize(w) \/ ShowSeat(w)
              \/ ShowEnd(w) \/ ShowFail(w)
List(w)    == ListLock(w) \/ ListCount(w) \/ ListId(w) \/ ListFail(w)
Dump       == DumpLock \/ DumpEmpty \/ DumpStart \/ DumpMutex \/ DumpSeat \/ DumpNext

Run(w) == Create(w) \/ Reserve(w) \/ Show(w) \/ List(w) \/ Reply(w)

\* The bounds are used up: no request is running and none will come.
Quiet ==
  /\ \A t \in Threads : At(t, "idle")
  /\ \A w \in Workers : calls[w] = MaxCalls
  /\ dumps = MaxDumps
  /\ UNCHANGED vars

Next == (\E w \in Workers : Call(w) \/ Run(w)) \/ Dump \/ Quiet

Spec == Init /\ [][Next]_vars

\* A thread inside an operation is scheduled again; requests and signals need
\* not come.  A client that neither reads its pipe nor dies is excluded.
Fairness == (\A w \in Workers : WF_vars(Run(w))) /\ WF_vars(Dump)
FairSpec == Spec /\ Fairness

----------------------------------------------------------------------------
(* Properties.                                                             *)

CreateLabels  == {"create", "create_find", "create_append", "create_count"}
ReserveLabels == {"reserve", "reserve_find", "reserve_lock", "reserve_bounds",
                  "reserve_check", "reserve_write"}
ShowLabels    == {"show", "show_find", "show_size", "show_data"}
ListLabels    == {"list", "list_count", "list_ids"}
DumpLabels    == {"dump_start", "dump_lock", "dump_seats"}
Labels == {"idle", "done"} \cup CreateLabels \cup ReserveLabels \cup ShowLabels
            \cup ListLabels \cup DumpLabels

\* The parts of a struct Event exist for exactly the nodes of the list.
EventsOK ==
  /\ list \in Seq([id : EventIds, rows : Nat, cols : Nat])
  /\ reservations \in Seq(Nat)
  /\ mutex \in Seq(Threads \cup {NoThread})
  /\ Len(reservations) = Len(list) /\ Len(mutex) = Len(list)
  /\ DOMAIN data = Positions
  /\ \A e \in Positions : data[e] \in [SeatsOf(e) -> Nat]
  /\ event_num \in Nat

ControlOK ==
  /\ readers \subseteq Threads /\ writer \in Threads \cup {NoThread}
  /\ pc \in [Threads -> Labels]
  /\ req \in [Threads -> Requests \cup {NoRequest}]
  /\ status \in [Threads -> {0, 1}]
  /\ calls \in [Workers -> Nat] /\ dumps \in Nat

LocalsOK ==
  /\ ev \in [Threads -> {NULL} \cup Positions]
  /\ last \in [Threads -> {NULL} \cup Positions]
  /\ idx \in [Threads -> Nat] /\ rid \in [Threads -> Nat]
  /\ out \in [Threads -> Seq(Nat)]

\* Every variable holds a value of its C type, and every pointer NULL or a node.
TypeOK == EventsOK /\ ControlOK /\ LocalsOK

\* No two events of the list have the same id: ems_create's test for an
\* existing event and its append are one step for the other clients.
UniqueIds == \A d, e \in Positions : list[d].id = list[e].id => d = e

\* The ids of the reservations that own seats of event e.
Owners(e) == {data[e][i] : i \in SeatsOf(e)} \ {0}

\* While nobody is inside the critical section of an event, its seats are owned
\* by exactly the reservations it has counted: a RESERVE that is refused leaves
\* no seat behind, one that is granted never steals the seats of another.
AllOrNothing ==
  \A e \in Positions : mutex[e] = NoThread => Owners(e) = 1 .. reservations[e]

\* A client that is told its RESERVE succeeded owns all the seats it asked for
\* and no other, whatever the other clients did since.
ReservationHonoured ==
  \A w \in Workers : At(w, "done") /\ req[w].op = "reserve" /\ status[w] = 0 =>
    {i \in SeatsOf(ev[w]) : data[ev[w]][i] = rid[w]}
      = Wanted(ev[w], req[w].seats, Len(req[w].seats))

\* A seat that is reserved keeps its reservation for ever.
SeatsAreFinal ==
  [][\A e \in Positions : \A i \in SeatsOf(e) :
       data[e][i] # 0 => data'[e][i] = data[e][i]]_vars

\* The seats SHOW has sent so far: nothing it sends as reserved is ever
\* contradicted, although it reads the seats without the event's mutex.
ShowSound ==
  \A w \in Workers : At(w, "show_data") =>
    \A i \in 0 .. idx[w] - 1 : out[w][i + 3] \in {0, data[ev[w]][i]}

\* A completed SHOW is the seating of the event after some number m of its
\* reservations: the event's data is protected by its mutex, says eventlist.h.
ShowWhole ==
  \A w \in Workers : At(w, "done") /\ req[w].op = "show" /\ status[w] = 0 =>
    \E m \in 0 .. reservations[ev[w]] : \A i \in SeatsOf(ev[w]) :
      out[w][i + 3] = IF data[ev[w]][i] <= m THEN data[ev[w]][i] ELSE 0

\* The LIST that the client reads is framed: the count announced first is the
\* number of ids that follow, and the ids are all those of the list, in order.
ListWhole ==
  \A w \in Workers : At(w, "done") /\ req[w].op = "list" /\ status[w] = 0 =>
    /\ Len(out[w]) = out[w][1] + 1
    /\ \A j \in 1 .. out[w][1] : out[w][j + 1] = list[j].id

\* The seats the main thread prints of an event on SIGUSR1 hold whole
\* reservations, those granted so far.
DumpWhole ==
  At(Main, "dump_seats") /\ idx[Main] \notin SeatsOf(ev[Main]) =>
    {out[Main][j] : j \in 1 .. Len(out[Main])} \ {0} = 1 .. reservations[ev[Main]]

\* Thread t waits for the list lock or for the mutex of its event.
Blocked(t) ==
  \/ At(t, "create") /\ (writer # NoThread \/ readers # {})
  \/ pc[t] \in {"reserve", "show", "list"} /\ writer # NoThread
  \/ pc[t] \in {"reserve_lock", "dump_lock"} /\ mutex[ev[t]] # NoThread

\* The threads never all wait for each other: the SIGUSR1 action waits for a
\* mutex with the list lock held, but no holder of a mutex waits for the list,
\* and no path leaves a lock behind it.
NoDeadlock ==
  \A t \in Threads : Blocked(t) => \E u \in Threads : ~At(u, "idle") /\ ~Blocked(u)

\* Every request is answered and every SIGUSR1 action ends: no thread waits
\* for ever for the list lock or for the mutex of an event.
CallsReturn == \A t \in Threads : ~At(t, "idle") ~> At(t, "idle")

=============================================================================
