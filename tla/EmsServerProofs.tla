-------------------------- MODULE EmsServerProofs ---------------------------
(***************************************************************************)
(* Proofs about EmsServer, for any number of workers, events, seats and    *)
(* requests: its types, locks and list; then its seats, a reservation is   *)
(* granted whole or not at all, keeps its seats and is what the client was *)
(* told; then what SHOW, LIST and the SIGUSR1 dump have sent of them.      *)
(***************************************************************************)
EXTENDS EmsServer, SequenceTheorems, TLAPS

----------------------------------------------------------------------------
(* The inductive invariant.                                                *)

\* The data of an event is a sequence element too: the form Append needs.
SeatMaps == UNION {[0 .. n - 1 -> Nat] : n \in Nat}
Typed == TypeOK /\ data \in Seq(SeatMaps)

\* Which locks a thread holds follows from where it is.
WriteHeld == {"create_find", "create_append", "create_count"}
ReadHeld  == {"reserve_find", "show_find", "list_count", "list_ids"} \cup DumpLabels
MutexHeld == {"reserve_bounds", "reserve_check", "reserve_write", "dump_seats"}

RwlInv ==
  /\ \A t \in Threads : pc[t] \in WriteHeld <=> writer = t
  /\ \A t \in Threads : pc[t] \in ReadHeld <=> t \in readers
  /\ writer # NoThread => readers = {}

MutexInv ==
  \A t \in Threads : \A e \in Positions :
    mutex[e] = t <=> pc[t] \in MutexHeld /\ ev[t] = e

\* A thread works on the request it received, on an event it has found.
HasEvent == MutexHeld \cup {"reserve_lock", "show_size", "show_data", "list_ids", "dump_lock"}
Walking  == {"list_ids", "dump_lock", "dump_seats"}

CallInv ==
  /\ \A w \in Workers : pc[w] \notin DumpLabels
  /\ pc[Main] \in DumpLabels \cup {"idle"}
  /\ \A w \in Workers :
       /\ pc[w] \in CreateLabels => req[w] \in CreateRequests
       /\ pc[w] \in ReserveLabels => req[w] \in ReserveRequests
       /\ pc[w] \in ShowLabels => req[w] \in ShowRequests
  /\ \A t \in Threads :
       /\ pc[t] \in HasEvent => ev[t] # NULL
       /\ pc[t] \in Walking => last[t] # NULL /\ ev[t] <= last[t]

\* event_num lags behind the list only inside append_to_list.
CountInv == Len(list) = event_num + (IF \E w \in Workers : At(w, "create_count") THEN 1 ELSE 0)

\* A CREATE that has looked for its id may append it.
NewIdInv ==
  \A w \in Workers : At(w, "create_append") =>
    \A e \in Positions : list[e].id # req[w].id

ListInv == CountInv /\ UniqueIds /\ NewIdInv

IInv == Typed /\ RwlInv /\ MutexInv /\ CallInv /\ ListInv

----------------------------------------------------------------------------
(* Facts the steps rest on.                                                *)

USE DEF At, Goto, Set, Finish, Send, Clear, ReadLock, ReadUnlock, WriteLock,
        WriteUnlock, LockEvent, UnlockEvent, events, rwl, locals, budget

\* The domains of the variables.
LEMMA Basics ==
  ASSUME TypeOK
  PROVE  /\ DOMAIN pc = Threads /\ DOMAIN req = Threads /\ DOMAIN status = Threads
         /\ DOMAIN ev = Threads /\ DOMAIN last = Threads /\ DOMAIN idx = Threads
         /\ DOMAIN rid = Threads /\ DOMAIN out = Threads
         /\ Workers \subseteq Threads /\ Main \in Threads /\ Main \notin Workers
         /\ NoThread \notin Threads
         /\ Len(list) \in Nat /\ NULL = 0
BY ThreadsAssumption DEF TypeOK, EventsOK, ControlOK, LocalsOK, Threads, NULL

\* The values of a thread's locals.
LEMMA LocalTypes ==
  ASSUME TypeOK, NEW t \in Threads
  PROVE  /\ ev[t] \in {0} \cup Positions /\ last[t] \in {0} \cup Positions
         /\ idx[t] \in Nat /\ rid[t] \in Nat /\ out[t] \in Seq(Nat)
BY DEF TypeOK, LocalsOK, NULL

\* A node of the list.
LEMMA NodeTypes ==
  ASSUME TypeOK, NEW e \in Positions
  PROVE  /\ list[e] \in [id : EventIds, rows : Nat, cols : Nat]
         /\ reservations[e] \in Nat /\ mutex[e] \in Threads \cup {NoThread}
         /\ data[e] \in [SeatsOf(e) -> Nat]
BY ElementOfSeq DEF TypeOK, EventsOK, Positions

\* get_event returns NULL or an event with the id asked for, NULL only if
\* there is none.
LEMMA GetEventFinds ==
  ASSUME TypeOK, UniqueIds, NEW id
  PROVE  /\ GetEvent(id) \in {NULL} \cup Positions
         /\ GetEvent(id) # NULL => list[GetEvent(id)].id = id
         /\ GetEvent(id) = NULL => \A e \in Positions : list[e].id # id
<1> DEFINE First(e) == list[e].id = id /\ \A d \in 1 .. e - 1 : list[d].id # id
<1>1. CASE \A e \in Positions : list[e].id # id
  BY <1>1 DEF GetEvent
<1>2. CASE \E e \in Positions : list[e].id = id
  <2>1. PICK e \in Positions : list[e].id = id
    BY <1>2
  <2>2. First(e)
    <3>1. Len(list) \in Nat
      BY Basics
    <3>2. \A d \in 1 .. e - 1 : d \in Positions /\ d # e
      BY <3>1 DEF Positions
    <3> QED
      BY <2>1, <3>2 DEF UniqueIds
  <2>3. GetEvent(id) = CHOOSE d \in Positions : First(d)
    BY <1>2 DEF GetEvent
  <2>4. GetEvent(id) \in Positions /\ First(GetEvent(id))
    BY <2>2, <2>3
  <2>5. NULL \notin Positions
    BY DEF NULL, Positions
  <2> QED
    BY <2>4, <2>5
<1> QED
  BY <1>1, <1>2

\* Locking or unlocking an event changes nothing else of the list.
LEMMA MutexSet ==
  ASSUME EventsOK, NEW e \in Positions, NEW t \in Threads \cup {NoThread},
         mutex' = [mutex EXCEPT ![e] = t]
  PROVE  /\ mutex' \in Seq(Threads \cup {NoThread}) /\ Len(mutex') = Len(mutex)
         /\ \A d \in Positions : mutex'[d] = IF d = e THEN t ELSE mutex[d]
BY ExceptSeq DEF EventsOK, Positions

\* The list is as it was, but for the mutexes.
LEMMA MutexEvents ==
  ASSUME EventsOK, UNCHANGED <<list, reservations, data, event_num>>,
         mutex' \in Seq(Threads \cup {NoThread}), Len(mutex') = Len(mutex)
  PROVE  EventsOK'
BY DEF EventsOK, Positions, SeatsOf, SizeOf

\* A step outside the critical sections leaves the mutexes with their holders.
LEMMA MutexInvStays ==
  ASSUME TypeOK, MutexInv, UNCHANGED <<list, mutex>>,
         NEW w \in Threads, pc[w] \notin MutexHeld, pc'[w] \notin MutexHeld,
         \A t \in Threads \ {w} : pc'[t] = pc[t] /\ ev'[t] = ev[t]
  PROVE  MutexInv'
<1> SUFFICES ASSUME NEW t \in Threads, NEW e \in Positions
             PROVE  mutex[e] = t <=> pc'[t] \in MutexHeld /\ ev'[t] = e
  BY DEF MutexInv, Positions
<1>1. mutex[e] = t <=> (pc[t] \in MutexHeld /\ ev[t] = e)
  BY DEF MutexInv
<1>2. CASE t = w
  BY <1>1, <1>2
<1>3. CASE t # w
  BY <1>1, <1>3
<1> QED
  BY <1>2, <1>3

\* Only ems_create touches what ListInv speaks of.
LEMMA ListInvStays ==
  ASSUME ListInv, UNCHANGED <<list, event_num>>,
         \A w \in Workers : /\ At(w, "create_count")' <=> At(w, "create_count")
                            /\ At(w, "create_append")' => At(w, "create_append") /\ req'[w] = req[w]
  PROVE  ListInv'
BY DEF ListInv, CountInv, UniqueIds, NewIdInv, Positions

\* A request says which operation it is.
LEMMA RequestKinds ==
  ASSUME NEW r \in Requests
  PROVE  \/ r \in CreateRequests /\ r.op = "create"
         \/ r \in ReserveRequests /\ r.op = "reserve"
         \/ r \in ShowRequests /\ r.op = "show"
         \/ r \in ListRequests /\ r.op = "list"
<1>1. r \in CreateRequests => r.op = "create"
  BY DEF CreateRequests
<1>2. r \in ReserveRequests => r.op = "reserve"
  BY DEF ReserveRequests
<1>3. r \in ShowRequests => r.op = "show"
  BY DEF ShowRequests
<1>4. r \in ListRequests => r.op = "list"
  BY DEF ListRequests
<1> QED
  BY <1>1, <1>2, <1>3, <1>4 DEF Requests

\* What CreateLink does to the list.
LEMMA Linked ==
  ASSUME IInv, NEW w \in Workers, CreateLink(w)
  PROVE  /\ EventsOK' /\ data' \in Seq(SeatMaps)
         /\ Positions' = Positions \cup {Len(list) + 1} /\ Len(list') = Len(list) + 1
         /\ list'[Len(list) + 1].id = req[w].id
         /\ mutex'[Len(list) + 1] = NoThread
         /\ \A e \in Positions' \ Positions :
              reservations'[e] = 0 /\ \A i \in SeatsOf(e)' : data'[e][i] = 0
         /\ \A e \in Positions : /\ list'[e] = list[e] /\ mutex'[e] = mutex[e]
                               /\ reservations'[e] = reservations[e] /\ data'[e] = data[e]
<1> DEFINE rows == req[w].size[1]
           cols == req[w].size[2]
           node == [id |-> req[w].id, rows |-> rows, cols |-> cols]
           free == [i \in 0 .. rows * cols - 1 |-> 0]
<1>1. req[w] \in CreateRequests
  BY DEF IInv, CallInv, CreateLink, CreateLabels
<1>2. rows \in Nat /\ cols \in Nat /\ req[w].id \in EventIds
  BY <1>1, SizesAssumption DEF CreateRequests
<1>3. rows * cols \in Nat
  BY <1>2
<1>4. node \in [id : EventIds, rows : Nat, cols : Nat]
  BY <1>2
<1>5. free \in [0 .. rows * cols - 1 -> Nat] /\ free \in SeatMaps
  BY <1>3 DEF SeatMaps
<1> HIDE DEF free, rows, cols
<1>6. /\ list' = Append(list, node) /\ reservations' = Append(reservations, 0)
      /\ data' = Append(data, free) /\ mutex' = Append(mutex, NoThread)
      /\ event_num' = event_num
  BY DEF CreateLink, node, free, rows, cols
<1>7. /\ list' \in Seq([id : EventIds, rows : Nat, cols : Nat]) /\ Len(list') = Len(list) + 1
      /\ \A e \in Positions : list'[e] = list[e]
      /\ list'[Len(list) + 1] = node
  BY <1>4, <1>6, Basics, AppendProperties DEF IInv, Typed, EventsOK, TypeOK, Positions
<1>8. /\ reservations' \in Seq(Nat) /\ Len(reservations') = Len(list')
      /\ \A e \in Positions : reservations'[e] = reservations[e]
      /\ reservations'[Len(list) + 1] = 0
  <2>1. reservations \in Seq(Nat) /\ Len(reservations) = Len(list) /\ Len(list) \in Nat
    BY Basics DEF IInv, Typed, TypeOK, EventsOK
  <2> QED
    BY <1>6, <1>7, <2>1, AppendProperties DEF Positions
<1>9. /\ mutex' \in Seq(Threads \cup {NoThread}) /\ Len(mutex') = Len(list')
      /\ \A e \in Positions : mutex'[e] = mutex[e]
      /\ mutex'[Len(list) + 1] = NoThread
  BY <1>6, <1>7, Basics, AppendProperties DEF IInv, Typed, EventsOK, TypeOK, Positions
<1>10. /\ Len(data) = Len(list) /\ data \in Seq(SeatMaps)
  <2>1. data \in Seq(SeatMaps) /\ DOMAIN data = 1 .. Len(list) /\ Len(list) \in Nat
    BY Basics DEF IInv, Typed, TypeOK, EventsOK, Positions
  <2>2. Len(data) \in Nat /\ DOMAIN data = 1 .. Len(data)
    BY <2>1, LenProperties
  <2> QED
    BY <2>1, <2>2
<1>11. /\ data' \in Seq(SeatMaps) /\ Len(data') = Len(list')
       /\ \A e \in Positions : data'[e] = data[e]
       /\ data'[Len(list) + 1] = free
  BY <1>5, <1>6, <1>7, <1>10, Basics, AppendProperties, SMTT(30) DEF Positions
<1>12. DOMAIN data' = Positions'
  BY <1>11, LenProperties DEF Positions
<1>13. Positions' = Positions \cup {Len(list) + 1}
  BY <1>7, Basics DEF IInv, Typed, Positions
<1>14. \A e \in Positions : data'[e] \in [SeatsOf(e)' -> Nat]
  BY <1>7, <1>11 DEF IInv, Typed, TypeOK, EventsOK, SeatsOf, SizeOf
<1>15. \A e \in Positions' \ Positions : SeatsOf(e)' = 0 .. rows * cols - 1
  BY <1>7, <1>13 DEF SeatsOf, SizeOf, node
<1>16. \A e \in Positions' \ Positions :
         /\ data'[e] \in [SeatsOf(e)' -> Nat] /\ reservations'[e] = 0
         /\ \A i \in SeatsOf(e)' : data'[e][i] = 0
  <2>1. \A e \in Positions' \ Positions : e = Len(list) + 1
    BY <1>13
  <2>2. \A i \in 0 .. rows * cols - 1 : free[i] = 0
    BY DEF free
  <2> QED
    BY <1>5, <1>8, <1>11, <1>15, <2>1, <2>2
<1>17. event_num' \in Nat
  BY <1>6 DEF IInv, Typed, TypeOK, EventsOK
<1>18. EventsOK'
  BY <1>7, <1>8, <1>9, <1>12, <1>14, <1>16, <1>17 DEF EventsOK
<1> QED
  BY <1>7, <1>8, <1>9, <1>11, <1>13, <1>16, <1>18 DEF node

\* A thread that uses an event has one.
LEMMA EventInUse ==
  ASSUME IInv, NEW t \in Threads, pc[t] \in HasEvent
  PROVE  ev[t] \in Positions
BY Basics, LocalTypes DEF IInv, Typed, CallInv

\* Sending numbers leaves sequences of numbers.
LEMMA SendType ==
  ASSUME NEW f \in [Threads -> Seq(Nat)], NEW t \in Threads, NEW s \in Seq(Nat)
  PROVE  [f EXCEPT ![t] = @ \o s] \in [Threads -> Seq(Nat)]
<1>1. f[t] \o s \in Seq(Nat)
  BY ConcatProperties
<1> QED
  BY <1>1

----------------------------------------------------------------------------
(* Every step preserves the invariant.                                     *)

\* ems_create, alone in the list under the write lock: only there does the list
\* grow, by an event whose id was looked for under the same lock.
LEMMA CreateStep ==
  ASSUME IInv, NEW w \in Workers, Create(w)
  PROVE  IInv'
<1>0. TypeOK /\ UniqueIds
  BY DEF IInv, Typed, ListInv
<1> USE <1>0, Basics
<1>1. CASE CreateLock(w)
  <2>1. EventsOK' /\ data' \in Seq(SeatMaps)
    BY <1>1 DEF IInv, Typed, TypeOK, CreateLock, EventsOK, Positions, SeatsOf, SizeOf
  <2>2. ControlOK'
    BY <1>1 DEF IInv, Typed, TypeOK, CreateLock, ControlOK, Labels, CreateLabels,
       ReserveLabels, ShowLabels, ListLabels, DumpLabels
  <2>3. LocalsOK'
    BY <1>1 DEF IInv, Typed, TypeOK, CreateLock, LocalsOK, Positions
  <2>4. RwlInv'
    BY <1>1 DEF IInv, Typed, TypeOK, CreateLock, RwlInv, WriteHeld, ReadHeld, DumpLabels
  <2>5. MutexInv'
    BY <1>1, LocalTypes DEF IInv, Typed, TypeOK, CreateLock, MutexInv, MutexHeld,
       Positions
  <2>6. CallInv'
    BY <1>1, LocalTypes DEF IInv, Typed, TypeOK, CreateLock, CallInv, CreateLabels,
       ReserveLabels, ShowLabels, DumpLabels, HasEvent, MutexHeld, Walking, Positions
  <2>7. ListInv'
    BY <1>1 DEF IInv, Typed, TypeOK, CreateLock, ListInv, CountInv, UniqueIds, NewIdInv,
       Positions
  <2> QED
    BY <2>1, <2>2, <2>3, <2>4, <2>5, <2>6, <2>7 DEF IInv, Typed, TypeOK
<1>2. CASE CreateFind(w)
  <2>1. EventsOK' /\ data' \in Seq(SeatMaps)
    BY <1>2 DEF IInv, Typed, TypeOK, CreateFind, EventsOK, Positions, SeatsOf, SizeOf
  <2>2. ControlOK'
    BY <1>2 DEF IInv, Typed, TypeOK, CreateFind, ControlOK, Labels, CreateLabels,
       ReserveLabels, ShowLabels, ListLabels, DumpLabels
  <2>3. LocalsOK'
    BY <1>2 DEF IInv, Typed, TypeOK, CreateFind, LocalsOK, Positions
  <2>4. RwlInv'
    <3>1. RwlInv /\ pc[w] = "create_find"
      BY <1>2 DEF IInv, CreateFind
    <3>2. CASE GetEvent(req[w].id) # NULL
      <4>1. pc' = [pc EXCEPT ![w] = "done"] /\ writer' = NoThread /\ readers' = readers
        BY <1>2, <3>2 DEF CreateFind
      <4> QED
        BY <3>1, <4>1 DEF RwlInv, WriteHeld, ReadHeld, DumpLabels
    <3>3. CASE GetEvent(req[w].id) = NULL
      <4>1. pc' = [pc EXCEPT ![w] = "create_append"] /\ writer' = writer /\ readers' = readers
        BY <1>2, <3>3 DEF CreateFind
      <4> QED
        BY <3>1, <4>1 DEF RwlInv, WriteHeld, ReadHeld, DumpLabels
    <3> QED
      BY <3>2, <3>3
  <2>5. MutexInv'
    BY <1>2, LocalTypes DEF IInv, Typed, TypeOK, CreateFind, MutexInv, MutexHeld,
       Positions
  <2>6. CallInv'
    BY <1>2, LocalTypes DEF IInv, Typed, TypeOK, CreateFind, CallInv, CreateLabels,
       ReserveLabels, ShowLabels, DumpLabels, HasEvent, MutexHeld, Walking, Positions
  <2>7. ListInv'
    <3>1. CASE GetEvent(req[w].id) # NULL
      <4>1. /\ pc' = [pc EXCEPT ![w] = "done"] /\ pc[w] = "create_find"
            /\ UNCHANGED <<list, event_num, req>>
        BY <1>2, <3>1 DEF CreateFind
      <4> QED
        BY <4>1, ListInvStays DEF IInv
    <3>2. CASE GetEvent(req[w].id) = NULL
      <4>1. \A e \in Positions : list[e].id # req[w].id
        BY <3>2, GetEventFinds
      <4>2. /\ pc' = [pc EXCEPT ![w] = "create_append"] /\ pc[w] = "create_find"
            /\ UNCHANGED <<list, event_num, req>>
        BY <1>2, <3>2 DEF CreateFind
      <4>3. ListInv
        BY DEF IInv
      <4> QED
        BY <4>1, <4>2, <4>3 DEF ListInv, CountInv, UniqueIds, NewIdInv, Positions
    <3> QED
      BY <3>1, <3>2
  <2> QED
    BY <2>1, <2>2, <2>3, <2>4, <2>5, <2>6, <2>7 DEF IInv, Typed, TypeOK
<1>3. CASE CreateFail(w)
  <2>1. EventsOK' /\ data' \in Seq(SeatMaps)
    BY <1>3 DEF IInv, Typed, TypeOK, CreateFail, EventsOK, Positions, SeatsOf, SizeOf
  <2>2. ControlOK'
    BY <1>3 DEF IInv, Typed, TypeOK, CreateFail, ControlOK, Labels, CreateLabels,
       ReserveLabels, ShowLabels, ListLabels, DumpLabels
  <2>3. LocalsOK'
    BY <1>3 DEF IInv, Typed, TypeOK, CreateFail, LocalsOK, Positions
  <2>4. RwlInv'
    BY <1>3 DEF IInv, Typed, TypeOK, CreateFail, RwlInv, WriteHeld, ReadHeld, DumpLabels
  <2>5. MutexInv'
    BY <1>3, LocalTypes DEF IInv, Typed, TypeOK, CreateFail, MutexInv, MutexHeld,
       Positions
  <2>6. CallInv'
    BY <1>3, LocalTypes DEF IInv, Typed, TypeOK, CreateFail, CallInv, CreateLabels,
       ReserveLabels, ShowLabels, DumpLabels, HasEvent, MutexHeld, Walking, Positions
  <2>7. ListInv'
    BY <1>3 DEF IInv, Typed, TypeOK, CreateFail, ListInv, CountInv, UniqueIds, NewIdInv,
       Positions
  <2> QED
    BY <2>1, <2>2, <2>3, <2>4, <2>5, <2>6, <2>7 DEF IInv, Typed, TypeOK
<1>4. CASE CreateLink(w)
  <2>1. EventsOK' /\ data' \in Seq(SeatMaps)
    <3> QED
      BY <1>4, Linked
  <2>2. ControlOK'
    BY <1>4 DEF IInv, Typed, TypeOK, CreateLink, ControlOK, Labels, CreateLabels,
       ReserveLabels, ShowLabels, ListLabels, DumpLabels
  <2>3. LocalsOK'
    <3>1. Positions \subseteq Positions'
      BY <1>4, Linked
    <3> QED
      BY <1>4, <3>1 DEF TypeOK, LocalsOK, CreateLink
  <2>4. RwlInv'
    BY <1>4 DEF IInv, Typed, TypeOK, CreateLink, RwlInv, WriteHeld, ReadHeld, DumpLabels
  <2>5. MutexInv'
    <3>1. /\ Positions' = Positions \cup {Len(list) + 1}
          /\ mutex'[Len(list) + 1] = NoThread
          /\ \A e \in Positions : mutex'[e] = mutex[e]
      BY <1>4, Linked
    <3>2. /\ pc[w] = "create_append" /\ pc' = [pc EXCEPT ![w] = "create_count"]
          /\ ev' = ev
      BY <1>4 DEF CreateLink
    <3>3. ASSUME NEW t \in Threads PROVE ev[t] # Len(list) + 1
      <4>1. ev[t] \in {0} \cup Positions
        BY LocalTypes
      <4> QED
        BY <4>1 DEF Positions
    <3>4. MutexInv
      BY DEF IInv
    <3> QED
      BY <3>1, <3>2, <3>3, <3>4 DEF MutexInv, MutexHeld
  <2>6. CallInv'
    BY <1>4, LocalTypes DEF IInv, Typed, TypeOK, CreateLink, CallInv, CreateLabels,
       ReserveLabels, ShowLabels, DumpLabels, HasEvent, MutexHeld, Walking, Positions
  <2>7. ListInv'
    <3>1. /\ Positions' = Positions \cup {Len(list) + 1} /\ Len(list') = Len(list) + 1
          /\ list'[Len(list) + 1].id = req[w].id
          /\ \A e \in Positions : list'[e] = list[e]
      BY <1>4, Linked
    <3>2. /\ pc[w] = "create_append" /\ pc' = [pc EXCEPT ![w] = "create_count"]
          /\ req' = req /\ event_num' = event_num
      BY <1>4 DEF CreateLink
    <3>3. \A v \in Workers : pc[v] \in WriteHeld => v = w
      BY <3>2 DEF IInv, RwlInv, WriteHeld
    <3>4. \A e \in Positions : list[e].id # req[w].id
      BY <3>2 DEF IInv, ListInv, NewIdInv
    <3>5. CountInv'
      <4>1. ~ \E v \in Workers : pc[v] = "create_count"
        BY <3>2, <3>3 DEF WriteHeld
      <4>2. Len(list) = event_num
        BY <4>1 DEF IInv, ListInv, CountInv, TypeOK, EventsOK
      <4>3. pc'[w] = "create_count"
        BY <3>2
      <4> QED
        BY <3>1, <3>2, <4>2, <4>3 DEF CountInv
    <3>6. UniqueIds'
      BY <3>1, <3>4 DEF UniqueIds
    <3>7. NewIdInv'
      BY <3>2, <3>3 DEF NewIdInv, WriteHeld
    <3> QED
      BY <3>5, <3>6, <3>7 DEF ListInv
  <2> QED
    BY <2>1, <2>2, <2>3, <2>4, <2>5, <2>6, <2>7 DEF IInv, Typed, TypeOK
<1>5. CASE CreateCount(w)
  <2>1. EventsOK' /\ data' \in Seq(SeatMaps)
    BY <1>5 DEF IInv, Typed, TypeOK, CreateCount, EventsOK, Positions, SeatsOf, SizeOf
  <2>2. ControlOK'
    BY <1>5 DEF IInv, Typed, TypeOK, CreateCount, ControlOK, Labels, CreateLabels,
       ReserveLabels, ShowLabels, ListLabels, DumpLabels
  <2>3. LocalsOK'
    BY <1>5 DEF IInv, Typed, TypeOK, CreateCount, LocalsOK, Positions
  <2>4. RwlInv'
    BY <1>5 DEF IInv, Typed, TypeOK, CreateCount, RwlInv, WriteHeld, ReadHeld, DumpLabels
  <2>5. MutexInv'
    BY <1>5, LocalTypes DEF IInv, Typed, TypeOK, CreateCount, MutexInv, MutexHeld,
       Positions
  <2>6. CallInv'
    BY <1>5, LocalTypes DEF IInv, Typed, TypeOK, CreateCount, CallInv, CreateLabels,
       ReserveLabels, ShowLabels, DumpLabels, HasEvent, MutexHeld, Walking, Positions
  <2>7. ListInv'
    <3>1. /\ pc[w] = "create_count" /\ pc' = [pc EXCEPT ![w] = "done"]
          /\ req' = req /\ event_num' = event_num + 1 /\ list' = list
      BY <1>5 DEF CreateCount
    <3>2. \A v \in Workers : pc[v] \in WriteHeld => v = w
      BY <3>1 DEF IInv, RwlInv, WriteHeld
    <3>3. CountInv'
      <4>1. Len(list) = event_num + 1 /\ event_num \in Nat
        BY <3>1 DEF IInv, ListInv, CountInv, TypeOK, EventsOK
      <4>2. \A v \in Workers : pc'[v] # "create_count"
        BY <3>1, <3>2 DEF WriteHeld
      <4> QED
        BY <3>1, <4>1, <4>2 DEF CountInv
    <3>4. UniqueIds'
      BY <3>1 DEF UniqueIds, Positions
    <3>5. NewIdInv'
      BY <3>1, <3>2 DEF NewIdInv, WriteHeld
    <3> QED
      BY <3>3, <3>4, <3>5 DEF ListInv
  <2> QED
    BY <2>1, <2>2, <2>3, <2>4, <2>5, <2>6, <2>7 DEF IInv, Typed, TypeOK
<1> QED
  BY <1>1, <1>2, <1>3, <1>4, <1>5 DEF Create

\* ems_reserve holds the read lock while it looks the event up, then the mutex
\* of that event only, until its seats are written.
LEMMA ReserveStep ==
  ASSUME IInv, NEW w \in Workers, Reserve(w)
  PROVE  IInv'
<1>0. TypeOK /\ UniqueIds
  BY DEF IInv, Typed, ListInv
<1> USE <1>0, Basics
<1>1. CASE ReserveLock(w)
  <2>1. EventsOK' /\ data' \in Seq(SeatMaps)
    BY <1>1 DEF IInv, Typed, TypeOK, ReserveLock, EventsOK, Positions, SeatsOf, SizeOf
  <2>2. ControlOK'
    BY <1>1 DEF IInv, Typed, TypeOK, ReserveLock, ControlOK, Labels, CreateLabels,
       ReserveLabels, ShowLabels, ListLabels, DumpLabels
  <2>3. LocalsOK'
    BY <1>1 DEF IInv, Typed, TypeOK, ReserveLock, LocalsOK, Positions
  <2>4. RwlInv'
    BY <1>1 DEF IInv, Typed, TypeOK, ReserveLock, RwlInv, WriteHeld, ReadHeld, DumpLabels
  <2>5. MutexInv'
    BY <1>1, LocalTypes DEF IInv, Typed, TypeOK, ReserveLock, MutexInv, MutexHeld,
       Positions
  <2>6. CallInv'
    BY <1>1, LocalTypes DEF IInv, Typed, TypeOK, ReserveLock, CallInv, CreateLabels,
       ReserveLabels, ShowLabels, DumpLabels, HasEvent, MutexHeld, Walking, Positions
  <2>7. ListInv'
    BY <1>1, ListInvStays DEF IInv, ReserveLock
  <2> QED
    BY <2>1, <2>2, <2>3, <2>4, <2>5, <2>6, <2>7 DEF IInv, Typed, TypeOK
<1>2. CASE ReserveFind(w)
  <2>1. EventsOK' /\ data' \in Seq(SeatMaps)
    BY <1>2 DEF IInv, Typed, TypeOK, ReserveFind, EventsOK, Positions, SeatsOf, SizeOf
  <2>2. ControlOK'
    BY <1>2 DEF IInv, Typed, TypeOK, ReserveFind, ControlOK, Labels, CreateLabels,
       ReserveLabels, ShowLabels, ListLabels, DumpLabels
  <2>3. LocalsOK'
    <3>1. GetEvent(req[w].id) \in {NULL} \cup Positions
      BY GetEventFinds
    <3>2. out' \in [Threads -> Seq(Nat)]
      BY <1>2, SendType DEF IInv, Typed, TypeOK, LocalsOK, ReserveFind
    <3> QED
      BY <1>2, <3>1, <3>2 DEF IInv, Typed, TypeOK, ReserveFind, LocalsOK, Positions
  <2>4. RwlInv'
    BY <1>2 DEF IInv, Typed, TypeOK, ReserveFind, RwlInv, WriteHeld, ReadHeld, DumpLabels
  <2>5. MutexInv'
    BY <1>2, LocalTypes DEF IInv, Typed, TypeOK, ReserveFind, MutexInv, MutexHeld,
       Positions
  <2>6. CallInv'
    BY <1>2, LocalTypes DEF IInv, Typed, TypeOK, ReserveFind, CallInv, CreateLabels,
       ReserveLabels, ShowLabels, DumpLabels, HasEvent, MutexHeld, Walking, Positions
  <2>7. ListInv'
    BY <1>2, ListInvStays DEF IInv, ReserveFind
  <2> QED
    BY <2>1, <2>2, <2>3, <2>4, <2>5, <2>6, <2>7 DEF IInv, Typed, TypeOK
<1>3. CASE ReserveMutex(w)
  <2>1. EventsOK' /\ data' \in Seq(SeatMaps)
    <3>1. ev[w] \in Positions
      BY <1>3, EventInUse DEF ReserveMutex, HasEvent, MutexHeld
    <3>2. mutex' \in Seq(Threads \cup {NoThread}) /\ Len(mutex') = Len(mutex)
      BY <1>3, <3>1, MutexSet DEF IInv, Typed, TypeOK, ReserveMutex
    <3> QED
      BY <1>3, <3>2, MutexEvents DEF IInv, Typed, TypeOK, ReserveMutex
  <2>2. ControlOK'
    BY <1>3 DEF IInv, Typed, TypeOK, ReserveMutex, ControlOK, Labels, CreateLabels,
       ReserveLabels, ShowLabels, ListLabels, DumpLabels
  <2>3. LocalsOK'
    BY <1>3 DEF IInv, Typed, TypeOK, ReserveMutex, LocalsOK, Positions
  <2>4. RwlInv'
    BY <1>3 DEF IInv, Typed, TypeOK, ReserveMutex, RwlInv, WriteHeld, ReadHeld, DumpLabels
  <2>5. MutexInv'
    <3>1. ev[w] \in Positions
      BY <1>3, EventInUse DEF ReserveMutex, HasEvent, MutexHeld
    <3>2. \A d \in Positions : mutex'[d] = IF d = ev[w] THEN w ELSE mutex[d]
      <4>1. mutex' = [mutex EXCEPT ![ev[w]] = w]
        BY <1>3 DEF ReserveMutex
      <4> QED
        BY <3>1, <4>1, MutexSet DEF TypeOK
    <3> QED
      BY <1>3, <3>1, <3>2 DEF IInv, ReserveMutex, MutexInv, MutexHeld, Positions
  <2>6. CallInv'
    BY <1>3, LocalTypes DEF IInv, Typed, TypeOK, ReserveMutex, CallInv, CreateLabels,
       ReserveLabels, ShowLabels, DumpLabels, HasEvent, MutexHeld, Walking, Positions
  <2>7. ListInv'
    BY <1>3, ListInvStays DEF IInv, ReserveMutex
  <2> QED
    BY <2>1, <2>2, <2>3, <2>4, <2>5, <2>6, <2>7 DEF IInv, Typed, TypeOK
<1>4. CASE ReserveBounds(w)
  <2>1. EventsOK' /\ data' \in Seq(SeatMaps)
    <3>1. ev[w] \in Positions
      BY <1>4, EventInUse DEF ReserveBounds, HasEvent, MutexHeld
    <3>2. CASE mutex' = [mutex EXCEPT ![ev[w]] = NoThread]
      <4>1. mutex' \in Seq(Threads \cup {NoThread}) /\ Len(mutex') = Len(mutex)
        BY <3>1, <3>2, MutexSet DEF TypeOK
      <4> QED
        BY <1>4, <4>1, MutexEvents DEF IInv, Typed, TypeOK, ReserveBounds
    <3>3. CASE UNCHANGED mutex
      BY <1>4, <3>3 DEF IInv, Typed, TypeOK, EventsOK, Positions, SeatsOf, SizeOf,
         ReserveBounds
    <3> QED
      BY <1>4, <3>2, <3>3 DEF ReserveBounds
  <2>2. ControlOK'
    BY <1>4 DEF IInv, Typed, TypeOK, ReserveBounds, ControlOK, Labels, CreateLabels,
       ReserveLabels, ShowLabels, ListLabels, DumpLabels
  <2>3. LocalsOK'
    BY <1>4 DEF IInv, Typed, TypeOK, ReserveBounds, LocalsOK, Positions
  <2>4. RwlInv'
    BY <1>4 DEF IInv, Typed, TypeOK, ReserveBounds, RwlInv, WriteHeld, ReadHeld,
       DumpLabels
  <2>5. MutexInv'
    <3>1. ev[w] \in Positions
      BY <1>4, EventInUse DEF ReserveBounds, HasEvent, MutexHeld
    <3>2. CASE mutex' = [mutex EXCEPT ![ev[w]] = NoThread] /\ pc'[w] \notin MutexHeld
      <4>1. \A d \in Positions : mutex'[d] = IF d = ev[w] THEN NoThread ELSE mutex[d]
        BY <3>1, <3>2, MutexSet DEF TypeOK
      <4>2. \A u \in Threads \ {w} : pc'[u] = pc[u] /\ ev'[u] = ev[u]
        BY <1>4 DEF ReserveBounds
      <4>3. list' = list
        BY <1>4 DEF ReserveBounds
      <4>4. \A u \in Threads : \A d \in Positions : mutex[d] = u <=> pc[u] \in MutexHeld /\ ev[u] = d
        BY DEF IInv, MutexInv
      <4>5. Positions' = Positions /\ pc[w] \in MutexHeld
        BY <1>4, <4>3 DEF Positions, MutexHeld, ReserveBounds
      <4> QED
        BY <3>1, <3>2, <4>1, <4>2, <4>4, <4>5 DEF MutexInv
    <3>3. CASE UNCHANGED mutex /\ pc'[w] \in MutexHeld
      BY <1>4, <3>3 DEF IInv, MutexInv, MutexHeld, Positions, ReserveBounds
    <3> QED
      BY <1>4, <3>2, <3>3 DEF ReserveBounds, MutexHeld
  <2>6. CallInv'
    BY <1>4, LocalTypes DEF IInv, Typed, TypeOK, ReserveBounds, CallInv, CreateLabels,
       ReserveLabels, ShowLabels, DumpLabels, HasEvent, MutexHeld, Walking, Positions
  <2>7. ListInv'
    BY <1>4, ListInvStays DEF IInv, ReserveBounds
  <2> QED
    BY <2>1, <2>2, <2>3, <2>4, <2>5, <2>6, <2>7 DEF IInv, Typed, TypeOK
<1>5. CASE ReserveCheck(w)
  <2>1. EventsOK' /\ data' \in Seq(SeatMaps)
    <3>1. ev[w] \in Positions
      BY <1>5, EventInUse DEF ReserveCheck, HasEvent, MutexHeld
    <3>2. CASE mutex' = [mutex EXCEPT ![ev[w]] = NoThread]
      <4>1. mutex' \in Seq(Threads \cup {NoThread}) /\ Len(mutex') = Len(mutex)
        BY <3>1, <3>2, MutexSet DEF TypeOK
      <4> QED
        BY <1>5, <4>1, MutexEvents DEF IInv, Typed, TypeOK, ReserveCheck
    <3>3. CASE UNCHANGED mutex
      BY <1>5, <3>3 DEF IInv, Typed, TypeOK, EventsOK, Positions, SeatsOf, SizeOf,
         ReserveCheck
    <3> QED
      BY <1>5, <3>2, <3>3 DEF ReserveCheck
  <2>2. ControlOK'
    BY <1>5 DEF IInv, Typed, TypeOK, ReserveCheck, ControlOK, Labels, CreateLabels,
       ReserveLabels, ShowLabels, ListLabels, DumpLabels
  <2>3. LocalsOK'
    <3>1. idx' = [idx EXCEPT ![w] = idx[w] + 1] \/ idx' = idx
      BY <1>5 DEF ReserveCheck
    <3>2. UNCHANGED <<list, ev, last, rid, out>>
      BY <1>5 DEF ReserveCheck
    <3>3. idx' \in [Threads -> Nat]
      BY <3>1 DEF TypeOK, LocalsOK
    <3> QED
      BY <3>2, <3>3 DEF TypeOK, LocalsOK, Positions
  <2>4. RwlInv'
    BY <1>5 DEF IInv, Typed, TypeOK, ReserveCheck, RwlInv, WriteHeld, ReadHeld, DumpLabels
  <2>5. MutexInv'
    <3>1. ev[w] \in Positions
      BY <1>5, EventInUse DEF ReserveCheck, HasEvent, MutexHeld
    <3>2. CASE mutex' = [mutex EXCEPT ![ev[w]] = NoThread] /\ pc'[w] \notin MutexHeld
      <4>1. \A d \in Positions : mutex'[d] = IF d = ev[w] THEN NoThread ELSE mutex[d]
        BY <3>1, <3>2, MutexSet DEF TypeOK
      <4>2. \A u \in Threads \ {w} : pc'[u] = pc[u] /\ ev'[u] = ev[u]
        BY <1>5 DEF ReserveCheck
      <4>3. list' = list
        BY <1>5 DEF ReserveCheck
      <4>4. \A u \in Threads : \A d \in Positions : mutex[d] = u <=> pc[u] \in MutexHeld /\ ev[u] = d
        BY DEF IInv, MutexInv
      <4>5. Positions' = Positions /\ pc[w] \in MutexHeld
        BY <1>5, <4>3 DEF Positions, MutexHeld, ReserveCheck
      <4> QED
        BY <3>1, <3>2, <4>1, <4>2, <4>4, <4>5 DEF MutexInv
    <3>3. CASE UNCHANGED mutex /\ pc'[w] \in MutexHeld
      BY <1>5, <3>3 DEF IInv, MutexInv, MutexHeld, Positions, ReserveCheck
    <3> QED
      BY <1>5, <3>2, <3>3 DEF ReserveCheck, MutexHeld
  <2>6. CallInv'
    BY <1>5, LocalTypes DEF IInv, Typed, TypeOK, ReserveCheck, CallInv, CreateLabels,
       ReserveLabels, ShowLabels, DumpLabels, HasEvent, MutexHeld, Walking, Positions
  <2>7. ListInv'
    BY <1>5, ListInvStays DEF IInv, ReserveCheck
  <2> QED
    BY <2>1, <2>2, <2>3, <2>4, <2>5, <2>6, <2>7 DEF IInv, Typed, TypeOK
<1>6. CASE ReserveId(w)
  <2>1. EventsOK' /\ data' \in Seq(SeatMaps)
    <3>1. ev[w] \in 1 .. Len(reservations)
      BY <1>6, EventInUse DEF ReserveId, HasEvent, MutexHeld, TypeOK, EventsOK, Positions
    <3>2. reservations \in Seq(Nat)
      BY DEF TypeOK, EventsOK
    <3>3. reservations[ev[w]] + 1 \in Nat
      BY <3>1, <3>2, ElementOfSeq
    <3>4. reservations' = [reservations EXCEPT ![ev[w]] = reservations[ev[w]] + 1]
      BY <1>6 DEF ReserveId
    <3>5. reservations' \in Seq(Nat) /\ Len(reservations') = Len(reservations)
      BY <3>1, <3>2, <3>3, <3>4, ExceptSeq
    <3> QED
      BY <1>6, <3>5 DEF IInv, Typed, TypeOK, EventsOK, ReserveId, Positions, SeatsOf,
         SizeOf
  <2>2. ControlOK'
    BY <1>6 DEF IInv, Typed, TypeOK, ReserveId, ControlOK, Labels, CreateLabels,
       ReserveLabels, ShowLabels, ListLabels, DumpLabels
  <2>3. LocalsOK'
    <3>1. ev[w] \in Positions
      BY <1>6, EventInUse DEF ReserveId, HasEvent, MutexHeld
    <3>2. reservations[ev[w]] \in Nat
      BY <3>1, NodeTypes
    <3> QED
      BY <1>6, <3>2 DEF TypeOK, ReserveId, LocalsOK, Positions
  <2>4. RwlInv'
    BY <1>6 DEF IInv, Typed, TypeOK, ReserveId, RwlInv, WriteHeld, ReadHeld, DumpLabels
  <2>5. MutexInv'
    BY <1>6, LocalTypes DEF IInv, Typed, TypeOK, ReserveId, MutexInv, MutexHeld, Positions
  <2>6. CallInv'
    BY <1>6, LocalTypes DEF IInv, Typed, TypeOK, ReserveId, CallInv, CreateLabels,
       ReserveLabels, ShowLabels, DumpLabels, HasEvent, MutexHeld, Walking, Positions
  <2>7. ListInv'
    BY <1>6, ListInvStays DEF IInv, ReserveId
  <2> QED
    BY <2>1, <2>2, <2>3, <2>4, <2>5, <2>6, <2>7 DEF IInv, Typed, TypeOK
<1>7. CASE ReserveWrite(w)
  <2>1. EventsOK' /\ data' \in Seq(SeatMaps)
    <3> DEFINE e == ev[w]
               seat == req[w].seats[idx[w]]
               i == SeatIndex(list[e].cols, seat[1], seat[2])
    <3>1. e \in Positions
      BY <1>7, EventInUse DEF ReserveWrite, HasEvent, MutexHeld
    <3>2. data' = [data EXCEPT ![e] = [data[e] EXCEPT ![i] = rid[w]]]
      BY <1>7 DEF ReserveWrite
    <3>3. UNCHANGED <<list, reservations, mutex, event_num>>
      BY <1>7 DEF ReserveWrite
    <3> HIDE DEF i, e
    <3>4. PICK n \in Nat : data[e] \in [0 .. n - 1 -> Nat]
      <4>1. DOMAIN data = Positions /\ data \in Seq(SeatMaps)
        BY DEF IInv, Typed, TypeOK, EventsOK
      <4>2. data[e] \in SeatMaps
        BY <3>1, <4>1, LenProperties, ElementOfSeq
      <4> QED
        BY <4>2 DEF SeatMaps
    <3>5. [data[e] EXCEPT ![i] = rid[w]] \in [0 .. n - 1 -> Nat]
      BY <3>4, LocalTypes
    <3>6. [data[e] EXCEPT ![i] = rid[w]] \in SeatMaps
      BY <3>5 DEF SeatMaps
    <3>7. data' \in Seq(SeatMaps)
      <4>1. DOMAIN data = Positions /\ data \in Seq(SeatMaps)
        BY DEF IInv, Typed, TypeOK, EventsOK
      <4>2. e \in 1 .. Len(data)
        BY <3>1, <4>1, LenProperties
      <4> QED
        BY <3>2, <3>6, <4>1, <4>2, ExceptSeq
    <3>8. DOMAIN data' = Positions'
      BY <3>2, <3>3 DEF TypeOK, EventsOK, Positions
    <3>9. \A d \in Positions : data'[d] \in [SeatsOf(d)' -> Nat]
      <4>1. \A d \in Positions : SeatsOf(d)' = SeatsOf(d)
        BY <3>3 DEF SeatsOf, SizeOf
      <4>2. \A d \in Positions : data[d] \in [SeatsOf(d) -> Nat]
        BY DEF TypeOK, EventsOK
      <4>3. DOMAIN data = Positions
        BY DEF TypeOK, EventsOK
      <4>4. rid[w] \in Nat
        BY LocalTypes
      <4> QED
        BY <3>1, <3>2, <4>1, <4>2, <4>3, <4>4
    <3> QED
      BY <3>3, <3>7, <3>8, <3>9 DEF TypeOK, EventsOK, Positions
  <2>2. ControlOK'
    BY <1>7 DEF IInv, Typed, TypeOK, ReserveWrite, ControlOK, Labels, CreateLabels,
       ReserveLabels, ShowLabels, ListLabels, DumpLabels
  <2>3. LocalsOK'
    <3>1. idx' = [idx EXCEPT ![w] = idx[w] + 1] /\ UNCHANGED <<list, ev, last, rid, out>>
      BY <1>7 DEF ReserveWrite
    <3> QED
      BY <3>1 DEF TypeOK, LocalsOK, Positions
  <2>4. RwlInv'
    BY <1>7 DEF IInv, Typed, TypeOK, ReserveWrite, RwlInv, WriteHeld, ReadHeld, DumpLabels
  <2>5. MutexInv'
    BY <1>7, LocalTypes DEF IInv, Typed, TypeOK, ReserveWrite, MutexInv, MutexHeld,
       Positions
  <2>6. CallInv'
    BY <1>7, LocalTypes DEF IInv, Typed, TypeOK, ReserveWrite, CallInv, CreateLabels,
       ReserveLabels, ShowLabels, DumpLabels, HasEvent, MutexHeld, Walking, Positions
  <2>7. ListInv'
    BY <1>7, ListInvStays DEF IInv, ReserveWrite
  <2> QED
    BY <2>1, <2>2, <2>3, <2>4, <2>5, <2>6, <2>7 DEF IInv, Typed, TypeOK
<1>8. CASE ReserveUnlock(w)
  <2>1. EventsOK' /\ data' \in Seq(SeatMaps)
    <3>1. ev[w] \in Positions
      BY <1>8, EventInUse DEF ReserveUnlock, HasEvent, MutexHeld
    <3>2. mutex' \in Seq(Threads \cup {NoThread}) /\ Len(mutex') = Len(mutex)
      BY <1>8, <3>1, MutexSet DEF IInv, Typed, TypeOK, ReserveUnlock
    <3> QED
      BY <1>8, <3>2, MutexEvents DEF IInv, Typed, TypeOK, ReserveUnlock
  <2>2. ControlOK'
    BY <1>8 DEF IInv, Typed, TypeOK, ReserveUnlock, ControlOK, Labels, CreateLabels,
       ReserveLabels, ShowLabels, ListLabels, DumpLabels
  <2>3. LocalsOK'
    BY <1>8 DEF IInv, Typed, TypeOK, ReserveUnlock, LocalsOK, Positions
  <2>4. RwlInv'
    BY <1>8 DEF IInv, Typed, TypeOK, ReserveUnlock, RwlInv, WriteHeld, ReadHeld,
       DumpLabels
  <2>5. MutexInv'
    <3>1. ev[w] \in Positions
      BY <1>8, EventInUse DEF ReserveUnlock, HasEvent, MutexHeld
    <3>2. \A d \in Positions : mutex'[d] = IF d = ev[w] THEN NoThread ELSE mutex[d]
      <4>1. mutex' = [mutex EXCEPT ![ev[w]] = NoThread]
        BY <1>8 DEF ReserveUnlock
      <4> QED
        BY <3>1, <4>1, MutexSet DEF TypeOK
    <3> QED
      BY <1>8, <3>1, <3>2 DEF IInv, ReserveUnlock, MutexInv, MutexHeld, Positions
  <2>6. CallInv'
    BY <1>8, LocalTypes DEF IInv, Typed, TypeOK, ReserveUnlock, CallInv, CreateLabels,
       ReserveLabels, ShowLabels, DumpLabels, HasEvent, MutexHeld, Walking, Positions
  <2>7. ListInv'
    BY <1>8, ListInvStays DEF IInv, ReserveUnlock
  <2> QED
    BY <2>1, <2>2, <2>3, <2>4, <2>5, <2>6, <2>7 DEF IInv, Typed, TypeOK
<1> QED
  BY <1>1, <1>2, <1>3, <1>4, <1>5, <1>6, <1>7, <1>8 DEF Reserve

\* ems_show holds the read lock while it looks the event up, and no lock after.
LEMMA ShowStep ==
  ASSUME IInv, NEW w \in Workers, Show(w)
  PROVE  IInv'
<1>0. TypeOK /\ UniqueIds
  BY DEF IInv, Typed, ListInv
<1> USE <1>0, Basics
<1>1. CASE ShowLock(w)
  <2>1. EventsOK' /\ data' \in Seq(SeatMaps)
    BY <1>1 DEF IInv, Typed, TypeOK, ShowLock, EventsOK, Positions, SeatsOf, SizeOf
  <2>2. ControlOK'
    BY <1>1 DEF IInv, Typed, TypeOK, ShowLock, ControlOK, Labels, CreateLabels,
       ReserveLabels, ShowLabels, ListLabels, DumpLabels
  <2>3. LocalsOK'
    BY <1>1 DEF IInv, Typed, TypeOK, ShowLock, LocalsOK, Positions
  <2>4. RwlInv'
    BY <1>1 DEF IInv, Typed, TypeOK, ShowLock, RwlInv, WriteHeld, ReadHeld, DumpLabels
  <2>5. MutexInv'
    BY <1>1, LocalTypes DEF IInv, Typed, TypeOK, ShowLock, MutexInv, MutexHeld, Positions
  <2>6. CallInv'
    BY <1>1, LocalTypes DEF IInv, Typed, TypeOK, ShowLock, CallInv, CreateLabels,
       ReserveLabels, ShowLabels, DumpLabels, HasEvent, MutexHeld, Walking, Positions
  <2>7. ListInv'
    BY <1>1, ListInvStays DEF IInv, ShowLock
  <2> QED
    BY <2>1, <2>2, <2>3, <2>4, <2>5, <2>6, <2>7 DEF IInv, Typed, TypeOK
<1>2. CASE ShowFind(w)
  <2>1. EventsOK' /\ data' \in Seq(SeatMaps)
    BY <1>2 DEF IInv, Typed, TypeOK, ShowFind, EventsOK, Positions, SeatsOf, SizeOf
  <2>2. ControlOK'
    BY <1>2 DEF IInv, Typed, TypeOK, ShowFind, ControlOK, Labels, CreateLabels,
       ReserveLabels, ShowLabels, ListLabels, DumpLabels
  <2>3. LocalsOK'
    <3>1. /\ GetEvent(req[w].id) \in {NULL} \cup Positions
          /\ ev' = [ev EXCEPT ![w] = GetEvent(req[w].id)]
          /\ UNCHANGED <<list, last, idx, rid>>
      BY <1>2, GetEventFinds DEF ShowFind
    <3>2. out \in [Threads -> Seq(Nat)] /\ <<0, 0>> \in Seq(Nat)
      BY DEF TypeOK, LocalsOK
    <3>3. out' = [out EXCEPT ![w] = out[w] \o <<0, 0>>] \/ out' = out
      BY <1>2 DEF ShowFind
    <3>4. out' \in [Threads -> Seq(Nat)]
      <4>1. CASE out' = [out EXCEPT ![w] = out[w] \o <<0, 0>>]
        BY <3>2, <4>1, SendType
      <4> QED
        BY <3>2, <3>3, <4>1
    <3> QED
      BY <3>1, <3>4 DEF TypeOK, LocalsOK, Positions
  <2>4. RwlInv'
    BY <1>2 DEF IInv, Typed, TypeOK, ShowFind, RwlInv, WriteHeld, ReadHeld, DumpLabels
  <2>5. MutexInv'
    BY <1>2, LocalTypes DEF IInv, Typed, TypeOK, ShowFind, MutexInv, MutexHeld, Positions
  <2>6. CallInv'
    BY <1>2, LocalTypes DEF IInv, Typed, TypeOK, ShowFind, CallInv, CreateLabels,
       ReserveLabels, ShowLabels, DumpLabels, HasEvent, MutexHeld, Walking, Positions
  <2>7. ListInv'
    BY <1>2, ListInvStays DEF IInv, ShowFind
  <2> QED
    BY <2>1, <2>2, <2>3, <2>4, <2>5, <2>6, <2>7 DEF IInv, Typed, TypeOK
<1>3. CASE ShowSize(w)
  <2>1. EventsOK' /\ data' \in Seq(SeatMaps)
    BY <1>3 DEF IInv, Typed, TypeOK, ShowSize, EventsOK, Positions, SeatsOf, SizeOf
  <2>2. ControlOK'
    BY <1>3 DEF IInv, Typed, TypeOK, ShowSize, ControlOK, Labels, CreateLabels,
       ReserveLabels, ShowLabels, ListLabels, DumpLabels
  <2>3. LocalsOK'
    <3>1. <<list[ev[w]].rows, list[ev[w]].cols>> \in Seq(Nat)
      <4>1. ev[w] \in Positions
        BY <1>3, EventInUse DEF ShowSize, HasEvent, MutexHeld
      <4>2. list[ev[w]].rows \in Nat /\ list[ev[w]].cols \in Nat
        BY <4>1, NodeTypes
      <4> QED
        BY <4>2
    <3>2. out' \in [Threads -> Seq(Nat)]
      BY <1>3, <3>1, SendType DEF TypeOK, LocalsOK, ShowSize
    <3> QED
      BY <1>3, <3>2 DEF IInv, Typed, TypeOK, ShowSize, LocalsOK, Positions
  <2>4. RwlInv'
    BY <1>3 DEF IInv, Typed, TypeOK, ShowSize, RwlInv, WriteHeld, ReadHeld, DumpLabels
  <2>5. MutexInv'
    <3>1. /\ pc[w] \notin MutexHeld /\ pc'[w] \notin MutexHeld /\ UNCHANGED <<list, mutex>>
          /\ \A t \in Threads \ {w} : pc'[t] = pc[t] /\ ev'[t] = ev[t]
      BY <1>3 DEF ShowSize, MutexHeld
    <3> QED
      BY <3>1, MutexInvStays DEF IInv
  <2>6. CallInv'
    BY <1>3, LocalTypes DEF IInv, Typed, TypeOK, ShowSize, CallInv, CreateLabels,
       ReserveLabels, ShowLabels, DumpLabels, HasEvent, MutexHeld, Walking, Positions
  <2>7. ListInv'
    BY <1>3, ListInvStays DEF IInv, ShowSize
  <2> QED
    BY <2>1, <2>2, <2>3, <2>4, <2>5, <2>6, <2>7 DEF IInv, Typed, TypeOK
<1>4. CASE ShowSeat(w)
  <2>1. EventsOK' /\ data' \in Seq(SeatMaps)
    BY <1>4 DEF IInv, Typed, TypeOK, ShowSeat, EventsOK, Positions, SeatsOf, SizeOf
  <2>2. ControlOK'
    BY <1>4 DEF IInv, Typed, TypeOK, ShowSeat, ControlOK, Labels, CreateLabels,
       ReserveLabels, ShowLabels, ListLabels, DumpLabels
  <2>3. LocalsOK'
    <3>1. <<data[ev[w]][idx[w]]>> \in Seq(Nat)
      <4>1. ev[w] \in Positions
        BY <1>4, EventInUse DEF ShowSeat, HasEvent, MutexHeld
      <4>2. data[ev[w]][idx[w]] \in Nat
        BY <1>4, <4>1, NodeTypes DEF ShowSeat
      <4> QED
        BY <4>2
    <3>2. out' \in [Threads -> Seq(Nat)]
      BY <1>4, <3>1, SendType DEF TypeOK, LocalsOK, ShowSeat
    <3> QED
      BY <1>4, <3>2 DEF IInv, Typed, TypeOK, ShowSeat, LocalsOK, Positions
  <2>4. RwlInv'
    BY <1>4 DEF IInv, Typed, TypeOK, ShowSeat, RwlInv, WriteHeld, ReadHeld, DumpLabels
  <2>5. MutexInv'
    BY <1>4, LocalTypes DEF IInv, Typed, TypeOK, ShowSeat, MutexInv, MutexHeld, Positions
  <2>6. CallInv'
    BY <1>4, LocalTypes DEF IInv, Typed, TypeOK, ShowSeat, CallInv, CreateLabels,
       ReserveLabels, ShowLabels, DumpLabels, HasEvent, MutexHeld, Walking, Positions
  <2>7. ListInv'
    BY <1>4, ListInvStays DEF IInv, ShowSeat
  <2> QED
    BY <2>1, <2>2, <2>3, <2>4, <2>5, <2>6, <2>7 DEF IInv, Typed, TypeOK
<1>5. CASE ShowEnd(w)
  <2>1. EventsOK' /\ data' \in Seq(SeatMaps)
    BY <1>5 DEF IInv, Typed, TypeOK, ShowEnd, EventsOK, Positions, SeatsOf, SizeOf
  <2>2. ControlOK'
    BY <1>5 DEF IInv, Typed, TypeOK, ShowEnd, ControlOK, Labels, CreateLabels,
       ReserveLabels, ShowLabels, ListLabels, DumpLabels
  <2>3. LocalsOK'
    BY <1>5 DEF IInv, Typed, TypeOK, ShowEnd, LocalsOK, Positions
  <2>4. RwlInv'
    BY <1>5 DEF IInv, Typed, TypeOK, ShowEnd, RwlInv, WriteHeld, ReadHeld, DumpLabels
  <2>5. MutexInv'
    BY <1>5, LocalTypes DEF IInv, Typed, TypeOK, ShowEnd, MutexInv, MutexHeld, Positions
  <2>6. CallInv'
    BY <1>5, LocalTypes DEF IInv, Typed, TypeOK, ShowEnd, CallInv, CreateLabels,
       ReserveLabels, ShowLabels, DumpLabels, HasEvent, MutexHeld, Walking, Positions
  <2>7. ListInv'
    BY <1>5, ListInvStays DEF IInv, ShowEnd
  <2> QED
    BY <2>1, <2>2, <2>3, <2>4, <2>5, <2>6, <2>7 DEF IInv, Typed, TypeOK
<1>6. CASE ShowFail(w)
  <2>1. EventsOK' /\ data' \in Seq(SeatMaps)
    BY <1>6 DEF IInv, Typed, TypeOK, ShowFail, EventsOK, Positions, SeatsOf, SizeOf
  <2>2. ControlOK'
    BY <1>6 DEF IInv, Typed, TypeOK, ShowFail, ControlOK, Labels, CreateLabels,
       ReserveLabels, ShowLabels, ListLabels, DumpLabels
  <2>3. LocalsOK'
    BY <1>6 DEF IInv, Typed, TypeOK, ShowFail, LocalsOK, Positions
  <2>4. RwlInv'
    BY <1>6 DEF IInv, Typed, TypeOK, ShowFail, RwlInv, WriteHeld, ReadHeld, DumpLabels
  <2>5. MutexInv'
    BY <1>6, LocalTypes DEF IInv, Typed, TypeOK, ShowFail, MutexInv, MutexHeld, Positions
  <2>6. CallInv'
    BY <1>6, LocalTypes DEF IInv, Typed, TypeOK, ShowFail, CallInv, CreateLabels,
       ReserveLabels, ShowLabels, DumpLabels, HasEvent, MutexHeld, Walking, Positions
  <2>7. ListInv'
    BY <1>6, ListInvStays DEF IInv, ShowFail
  <2> QED
    BY <2>1, <2>2, <2>3, <2>4, <2>5, <2>6, <2>7 DEF IInv, Typed, TypeOK
<1> QED
  BY <1>1, <1>2, <1>3, <1>4, <1>5, <1>6 DEF Show

\* ems_list_events walks from the head to the tail it captured, under the read
\* lock.
LEMMA ListStep ==
  ASSUME IInv, NEW w \in Workers, List(w)
  PROVE  IInv'
<1>0. TypeOK /\ UniqueIds
  BY DEF IInv, Typed, ListInv
<1> USE <1>0, Basics
<1>1. CASE ListLock(w)
  <2>1. EventsOK' /\ data' \in Seq(SeatMaps)
    BY <1>1 DEF IInv, Typed, TypeOK, ListLock, EventsOK, Positions, SeatsOf, SizeOf
  <2>2. ControlOK'
    BY <1>1 DEF IInv, Typed, TypeOK, ListLock, ControlOK, Labels, CreateLabels,
       ReserveLabels, ShowLabels, ListLabels, DumpLabels
  <2>3. LocalsOK'
    BY <1>1 DEF IInv, Typed, TypeOK, ListLock, LocalsOK, Positions
  <2>4. RwlInv'
    BY <1>1 DEF IInv, Typed, TypeOK, ListLock, RwlInv, WriteHeld, ReadHeld, DumpLabels
  <2>5. MutexInv'
    BY <1>1, LocalTypes DEF IInv, Typed, TypeOK, ListLock, MutexInv, MutexHeld, Positions
  <2>6. CallInv'
    BY <1>1, LocalTypes DEF IInv, Typed, TypeOK, ListLock, CallInv, CreateLabels,
       ReserveLabels, ShowLabels, DumpLabels, HasEvent, MutexHeld, Walking, Positions
  <2>7. ListInv'
    BY <1>1, ListInvStays DEF IInv, ListLock
  <2> QED
    BY <2>1, <2>2, <2>3, <2>4, <2>5, <2>6, <2>7 DEF IInv, Typed, TypeOK
<1>2. CASE ListCount(w)
  <2>1. EventsOK' /\ data' \in Seq(SeatMaps)
    BY <1>2 DEF IInv, Typed, TypeOK, ListCount, EventsOK, Positions, SeatsOf, SizeOf
  <2>2. ControlOK'
    <3>1. /\ pc' = [pc EXCEPT ![w] = "done"] \/ pc' = [pc EXCEPT ![w] = "list_ids"]
          /\ status' = [status EXCEPT ![w] = 0] \/ status' = status
          /\ readers' \subseteq readers /\ writer' = writer
          /\ UNCHANGED <<req, calls, dumps>>
      BY <1>2 DEF ListCount
    <3> QED
      BY <3>1 DEF TypeOK, ControlOK, Labels, CreateLabels, ReserveLabels, ShowLabels,
         ListLabels, DumpLabels
  <2>3. LocalsOK'
    <3>1. out' = [out EXCEPT ![w] = out[w] \o <<event_num>>] /\ UNCHANGED <<list, idx, rid>>
      BY <1>2 DEF ListCount
    <3>2. out' \in [Threads -> Seq(Nat)]
      <4>1. <<event_num>> \in Seq(Nat) /\ out \in [Threads -> Seq(Nat)]
        BY DEF TypeOK, EventsOK, LocalsOK
      <4> QED
        BY <3>1, <4>1, SendType
    <3>3. CASE event_num = 0
      <4>1. UNCHANGED <<ev, last>>
        BY <1>2, <3>3 DEF ListCount
      <4> QED
        BY <3>1, <3>2, <4>1 DEF TypeOK, LocalsOK, Positions
    <3>4. CASE event_num # 0
      <4>1. Len(list) > 0
        BY <3>4 DEF IInv, TypeOK, EventsOK, ListInv, CountInv
      <4>2. 1 \in Positions /\ Len(list) \in Positions
        BY <4>1 DEF Positions
      <4>3. ev' = [ev EXCEPT ![w] = 1] /\ last' = [last EXCEPT ![w] = Len(list)]
        BY <1>2, <3>4 DEF ListCount
      <4> QED
        BY <3>1, <3>2, <4>2, <4>3 DEF TypeOK, LocalsOK, Positions
    <3> QED
      BY <3>3, <3>4
  <2>4. RwlInv'
    <3>1. CASE event_num = 0
      BY <1>2, <3>1 DEF IInv, Typed, TypeOK, ListCount, RwlInv, WriteHeld, ReadHeld,
         DumpLabels
    <3>2. CASE event_num # 0
      BY <1>2, <3>2 DEF IInv, Typed, TypeOK, ListCount, RwlInv, WriteHeld, ReadHeld,
         DumpLabels
    <3> QED
      BY <3>1, <3>2
  <2>5. MutexInv'
    BY <1>2, LocalTypes DEF IInv, Typed, TypeOK, ListCount, MutexInv, MutexHeld, Positions
  <2>6. CallInv'
    <3>1. /\ req' = req /\ pc[w] = "list_count"
      BY <1>2 DEF ListCount
    <3>2. CASE event_num = 0
      <4>1. pc' = [pc EXCEPT ![w] = "done"] /\ UNCHANGED <<ev, last>>
        BY <1>2, <3>2 DEF ListCount
      <4> QED
        BY <3>1, <4>1 DEF IInv, CallInv, CreateLabels, ReserveLabels, ShowLabels,
           DumpLabels, HasEvent, MutexHeld, Walking, Positions
    <3>3. CASE event_num # 0
      <4>1. Len(list) > 0
        BY <3>3 DEF IInv, ListInv, CountInv, TypeOK, EventsOK
      <4>2. /\ pc' = [pc EXCEPT ![w] = "list_ids"]
            /\ ev' = [ev EXCEPT ![w] = 1] /\ last' = [last EXCEPT ![w] = Len(list)]
        BY <1>2, <3>3 DEF ListCount
      <4> QED
        BY <3>1, <4>1, <4>2 DEF IInv, CallInv, CreateLabels, ReserveLabels, ShowLabels,
           DumpLabels, HasEvent, MutexHeld, Walking, Positions
    <3> QED
      BY <3>2, <3>3
  <2>7. ListInv'
    BY <1>2, ListInvStays DEF IInv, ListCount
  <2> QED
    BY <2>1, <2>2, <2>3, <2>4, <2>5, <2>6, <2>7 DEF IInv, Typed, TypeOK
<1>3. CASE ListId(w)
  <2>1. EventsOK' /\ data' \in Seq(SeatMaps)
    BY <1>3 DEF IInv, Typed, TypeOK, ListId, EventsOK, Positions, SeatsOf, SizeOf
  <2>2. ControlOK'
    <3>1. /\ pc' = [pc EXCEPT ![w] = "done"] \/ pc' = pc
          /\ status' = [status EXCEPT ![w] = 0] \/ status' = status
          /\ readers' \subseteq readers /\ writer' = writer
          /\ UNCHANGED <<req, calls, dumps>>
      BY <1>3 DEF ListId
    <3> QED
      BY <3>1 DEF TypeOK, ControlOK, Labels, CreateLabels, ReserveLabels, ShowLabels,
         ListLabels, DumpLabels
  <2>3. LocalsOK'
    <3>1. ev[w] \in Positions /\ last[w] \in Positions /\ ev[w] <= last[w]
      <4>1. pc[w] = "list_ids"
        BY <1>3 DEF ListId
      <4>2. ev[w] # 0 /\ last[w] # 0 /\ ev[w] <= last[w]
        BY <4>1 DEF IInv, CallInv, HasEvent, Walking
      <4> QED
        BY <4>2, LocalTypes
    <3>2. /\ out' = [out EXCEPT ![w] = out[w] \o <<list[ev[w]].id>>]
          /\ UNCHANGED <<list, last, idx, rid>>
      BY <1>3 DEF ListId
    <3>3. ev' = ev \/ (ev[w] # last[w] /\ ev' = [ev EXCEPT ![w] = ev[w] + 1])
      <4>1. CASE ev[w] = last[w]
        BY <1>3, <4>1 DEF ListId
      <4>2. CASE ev[w] # last[w]
        BY <1>3, <4>2 DEF ListId
      <4> QED
        BY <4>1, <4>2
    <3>4. out' \in [Threads -> Seq(Nat)]
      <4>1. list[ev[w]].id \in Nat
        BY <3>1, NodeTypes, IdsAssumption
      <4>2. <<list[ev[w]].id>> \in Seq(Nat) /\ out \in [Threads -> Seq(Nat)]
        BY <4>1 DEF TypeOK, LocalsOK
      <4> QED
        BY <3>2, <4>2, SendType
    <3>5. ev' \in [Threads -> {NULL} \cup Positions]
      <4>1. ev[w] # last[w] => ev[w] + 1 \in Positions
        BY <3>1 DEF Positions
      <4> QED
        BY <3>3, <4>1 DEF TypeOK, LocalsOK
    <3> QED
      BY <3>2, <3>4, <3>5 DEF TypeOK, LocalsOK, Positions
  <2>4. RwlInv'
    <3>1. CASE ev[w] = last[w]
      BY <1>3, <3>1 DEF IInv, Typed, TypeOK, ListId, RwlInv, WriteHeld, ReadHeld,
         DumpLabels
    <3>2. CASE ev[w] # last[w]
      BY <1>3, <3>2 DEF IInv, Typed, TypeOK, ListId, RwlInv, WriteHeld, ReadHeld,
         DumpLabels
    <3> QED
      BY <3>1, <3>2
  <2>5. MutexInv'
    <3>1. /\ pc[w] \notin MutexHeld /\ pc'[w] \notin MutexHeld /\ UNCHANGED <<list, mutex>>
          /\ \A t \in Threads \ {w} : pc'[t] = pc[t] /\ ev'[t] = ev[t]
      BY <1>3 DEF ListId, MutexHeld
    <3> QED
      BY <3>1, MutexInvStays DEF IInv
  <2>6. CallInv'
    <3>1. /\ pc[w] = "list_ids" /\ UNCHANGED <<req, last>>
          /\ \/ pc' = [pc EXCEPT ![w] = "done"] /\ ev' = ev
             \/ pc' = pc /\ ev[w] # last[w] /\ ev' = [ev EXCEPT ![w] = ev[w] + 1]
      BY <1>3 DEF ListId
    <3>2. CASE ev' = ev
      BY <3>1, <3>2 DEF IInv, CallInv, CreateLabels, ReserveLabels, ShowLabels,
         DumpLabels, HasEvent, MutexHeld, Walking, Positions
    <3>3. CASE pc' = pc /\ ev[w] # last[w] /\ ev' = [ev EXCEPT ![w] = ev[w] + 1]
      <4>1. ev[w] <= last[w] /\ ev[w] \in Nat /\ last[w] \in Nat
        BY <3>1, LocalTypes DEF IInv, CallInv, Walking, Positions
      <4>2. ev'[w] <= last[w] /\ ev'[w] # 0
        BY <3>3, <4>1
      <4> QED
        BY <3>1, <3>3, <4>2 DEF IInv, CallInv, CreateLabels, ReserveLabels, ShowLabels,
           DumpLabels, HasEvent, MutexHeld, Walking, Positions
    <3> QED
      BY <3>1, <3>2, <3>3
  <2>7. ListInv'
    BY <1>3, ListInvStays DEF IInv, ListId
  <2> QED
    BY <2>1, <2>2, <2>3, <2>4, <2>5, <2>6, <2>7 DEF IInv, Typed, TypeOK
<1>4. CASE ListFail(w)
  <2>1. EventsOK' /\ data' \in Seq(SeatMaps)
    BY <1>4 DEF IInv, Typed, TypeOK, ListFail, EventsOK, Positions, SeatsOf, SizeOf
  <2>2. ControlOK'
    BY <1>4 DEF IInv, Typed, TypeOK, ListFail, ControlOK, Labels, CreateLabels,
       ReserveLabels, ShowLabels, ListLabels, DumpLabels
  <2>3. LocalsOK'
    BY <1>4 DEF IInv, Typed, TypeOK, ListFail, LocalsOK, Positions
  <2>4. RwlInv'
    BY <1>4 DEF IInv, Typed, TypeOK, ListFail, RwlInv, WriteHeld, ReadHeld, DumpLabels
  <2>5. MutexInv'
    BY <1>4, LocalTypes DEF IInv, Typed, TypeOK, ListFail, MutexInv, MutexHeld, Positions
  <2>6. CallInv'
    BY <1>4, LocalTypes DEF IInv, Typed, TypeOK, ListFail, CallInv, CreateLabels,
       ReserveLabels, ShowLabels, DumpLabels, HasEvent, MutexHeld, Walking, Positions
  <2>7. ListInv'
    BY <1>4, ListInvStays DEF IInv, ListFail
  <2> QED
    BY <2>1, <2>2, <2>3, <2>4, <2>5, <2>6, <2>7 DEF IInv, Typed, TypeOK
<1> QED
  BY <1>1, <1>2, <1>3, <1>4 DEF List

\* ems_sigusr1_action walks in the same way, one event mutex at a time.
LEMMA DumpStep ==
  ASSUME IInv, Dump
  PROVE  IInv'
<1>0. TypeOK /\ UniqueIds
  BY DEF IInv, Typed, ListInv
<1> USE <1>0, Basics
<1>1. CASE DumpLock
  <2>1. EventsOK' /\ data' \in Seq(SeatMaps)
    BY <1>1 DEF IInv, Typed, TypeOK, DumpLock, EventsOK, Positions, SeatsOf, SizeOf
  <2>2. ControlOK'
    BY <1>1 DEF IInv, Typed, TypeOK, DumpLock, ControlOK, Labels, CreateLabels,
       ReserveLabels, ShowLabels, ListLabels, DumpLabels
  <2>3. LocalsOK'
    BY <1>1 DEF IInv, Typed, TypeOK, DumpLock, LocalsOK, Positions
  <2>4. RwlInv'
    BY <1>1 DEF IInv, Typed, TypeOK, DumpLock, RwlInv, WriteHeld, ReadHeld, DumpLabels
  <2>5. MutexInv'
    BY <1>1, LocalTypes DEF IInv, Typed, TypeOK, DumpLock, MutexInv, MutexHeld, Positions
  <2>6. CallInv'
    BY <1>1, LocalTypes DEF IInv, Typed, TypeOK, DumpLock, CallInv, CreateLabels,
       ReserveLabels, ShowLabels, DumpLabels, HasEvent, MutexHeld, Walking, Positions
  <2>7. ListInv'
    BY <1>1, ListInvStays DEF IInv, DumpLock
  <2> QED
    BY <2>1, <2>2, <2>3, <2>4, <2>5, <2>6, <2>7 DEF IInv, Typed, TypeOK
<1>2. CASE DumpEmpty
  <2>1. EventsOK' /\ data' \in Seq(SeatMaps)
    BY <1>2 DEF IInv, Typed, TypeOK, DumpEmpty, EventsOK, Positions, SeatsOf, SizeOf
  <2>2. ControlOK'
    BY <1>2 DEF IInv, Typed, TypeOK, DumpEmpty, ControlOK, Labels, CreateLabels,
       ReserveLabels, ShowLabels, ListLabels, DumpLabels
  <2>3. LocalsOK'
    BY <1>2 DEF IInv, Typed, TypeOK, DumpEmpty, LocalsOK, Positions
  <2>4. RwlInv'
    BY <1>2 DEF IInv, Typed, TypeOK, DumpEmpty, RwlInv, WriteHeld, ReadHeld, DumpLabels
  <2>5. MutexInv'
    BY <1>2, LocalTypes DEF IInv, Typed, TypeOK, DumpEmpty, MutexInv, MutexHeld, Positions
  <2>6. CallInv'
    BY <1>2, LocalTypes DEF IInv, Typed, TypeOK, DumpEmpty, CallInv, CreateLabels,
       ReserveLabels, ShowLabels, DumpLabels, HasEvent, MutexHeld, Walking, Positions
  <2>7. ListInv'
    BY <1>2, ListInvStays DEF IInv, DumpEmpty
  <2> QED
    BY <2>1, <2>2, <2>3, <2>4, <2>5, <2>6, <2>7 DEF IInv, Typed, TypeOK
<1>3. CASE DumpStart
  <2>1. EventsOK' /\ data' \in Seq(SeatMaps)
    BY <1>3 DEF IInv, Typed, TypeOK, DumpStart, EventsOK, Positions, SeatsOf, SizeOf
  <2>2. ControlOK'
    BY <1>3 DEF IInv, Typed, TypeOK, DumpStart, ControlOK, Labels, CreateLabels,
       ReserveLabels, ShowLabels, ListLabels, DumpLabels
  <2>3. LocalsOK'
    BY <1>3 DEF IInv, Typed, TypeOK, DumpStart, LocalsOK, Positions
  <2>4. RwlInv'
    BY <1>3 DEF IInv, Typed, TypeOK, DumpStart, RwlInv, WriteHeld, ReadHeld, DumpLabels
  <2>5. MutexInv'
    <3>1. /\ pc[Main] \notin MutexHeld /\ pc'[Main] \notin MutexHeld /\ UNCHANGED <<list, mutex>>
          /\ \A t \in Threads \ {Main} : pc'[t] = pc[t] /\ ev'[t] = ev[t]
      BY <1>3 DEF DumpStart, MutexHeld
    <3> QED
      BY <3>1, MutexInvStays DEF IInv
  <2>6. CallInv'
    BY <1>3, LocalTypes DEF IInv, Typed, TypeOK, DumpStart, CallInv, CreateLabels,
       ReserveLabels, ShowLabels, DumpLabels, HasEvent, MutexHeld, Walking, Positions
  <2>7. ListInv'
    BY <1>3, ListInvStays DEF IInv, DumpStart
  <2> QED
    BY <2>1, <2>2, <2>3, <2>4, <2>5, <2>6, <2>7 DEF IInv, Typed, TypeOK
<1>4. CASE DumpMutex
  <2>1. EventsOK' /\ data' \in Seq(SeatMaps)
    <3>1. ev[Main] \in Positions
      BY <1>4, EventInUse DEF DumpMutex, HasEvent, MutexHeld
    <3>2. mutex' \in Seq(Threads \cup {NoThread}) /\ Len(mutex') = Len(mutex)
      BY <1>4, <3>1, MutexSet DEF IInv, Typed, TypeOK, DumpMutex
    <3> QED
      BY <1>4, <3>2, MutexEvents DEF IInv, Typed, TypeOK, DumpMutex
  <2>2. ControlOK'
    BY <1>4 DEF IInv, Typed, TypeOK, DumpMutex, ControlOK, Labels, CreateLabels,
       ReserveLabels, ShowLabels, ListLabels, DumpLabels
  <2>3. LocalsOK'
    BY <1>4 DEF IInv, Typed, TypeOK, DumpMutex, LocalsOK, Positions
  <2>4. RwlInv'
    BY <1>4 DEF IInv, Typed, TypeOK, DumpMutex, RwlInv, WriteHeld, ReadHeld, DumpLabels
  <2>5. MutexInv'
    <3>1. ev[Main] \in Positions
      BY <1>4, EventInUse DEF DumpMutex, HasEvent, MutexHeld
    <3>2. \A d \in Positions : mutex'[d] = IF d = ev[Main] THEN Main ELSE mutex[d]
      <4>1. mutex' = [mutex EXCEPT ![ev[Main]] = Main]
        BY <1>4 DEF DumpMutex
      <4> QED
        BY <3>1, <4>1, MutexSet DEF TypeOK
    <3> QED
      BY <1>4, <3>1, <3>2 DEF IInv, DumpMutex, MutexInv, MutexHeld, Positions
  <2>6. CallInv'
    BY <1>4, LocalTypes DEF IInv, Typed, TypeOK, DumpMutex, CallInv, CreateLabels,
       ReserveLabels, ShowLabels, DumpLabels, HasEvent, MutexHeld, Walking, Positions
  <2>7. ListInv'
    BY <1>4, ListInvStays DEF IInv, DumpMutex
  <2> QED
    BY <2>1, <2>2, <2>3, <2>4, <2>5, <2>6, <2>7 DEF IInv, Typed, TypeOK
<1>5. CASE DumpSeat
  <2>1. EventsOK' /\ data' \in Seq(SeatMaps)
    BY <1>5 DEF IInv, Typed, TypeOK, DumpSeat, EventsOK, Positions, SeatsOf, SizeOf
  <2>2. ControlOK'
    BY <1>5 DEF IInv, Typed, TypeOK, DumpSeat, ControlOK, Labels, CreateLabels,
       ReserveLabels, ShowLabels, ListLabels, DumpLabels
  <2>3. LocalsOK'
    <3>1. <<data[ev[Main]][idx[Main]]>> \in Seq(Nat)
      <4>1. ev[Main] \in Positions
        BY <1>5, EventInUse DEF DumpSeat, HasEvent, MutexHeld
      <4>2. data[ev[Main]][idx[Main]] \in Nat
        BY <1>5, <4>1, NodeTypes DEF DumpSeat
      <4> QED
        BY <4>2
    <3>2. out' \in [Threads -> Seq(Nat)]
      BY <1>5, <3>1, SendType DEF TypeOK, LocalsOK, DumpSeat
    <3> QED
      BY <1>5, <3>2 DEF IInv, Typed, TypeOK, DumpSeat, LocalsOK, Positions
  <2>4. RwlInv'
    BY <1>5 DEF IInv, Typed, TypeOK, DumpSeat, RwlInv, WriteHeld, ReadHeld, DumpLabels
  <2>5. MutexInv'
    BY <1>5, LocalTypes DEF IInv, Typed, TypeOK, DumpSeat, MutexInv, MutexHeld, Positions
  <2>6. CallInv'
    BY <1>5, LocalTypes DEF IInv, Typed, TypeOK, DumpSeat, CallInv, CreateLabels,
       ReserveLabels, ShowLabels, DumpLabels, HasEvent, MutexHeld, Walking, Positions
  <2>7. ListInv'
    BY <1>5, ListInvStays DEF IInv, DumpSeat
  <2> QED
    BY <2>1, <2>2, <2>3, <2>4, <2>5, <2>6, <2>7 DEF IInv, Typed, TypeOK
<1>6. CASE DumpNext
  <2>1. EventsOK' /\ data' \in Seq(SeatMaps)
    <3>1. ev[Main] \in Positions
      BY <1>6, EventInUse DEF DumpNext, HasEvent, MutexHeld
    <3>2. mutex' \in Seq(Threads \cup {NoThread}) /\ Len(mutex') = Len(mutex)
      BY <1>6, <3>1, MutexSet DEF IInv, Typed, TypeOK, DumpNext
    <3> QED
      BY <1>6, <3>2, MutexEvents DEF IInv, Typed, TypeOK, DumpNext
  <2>2. ControlOK'
    <3>1. /\ pc' = [pc EXCEPT ![Main] = "idle"] \/ pc' = [pc EXCEPT ![Main] = "dump_lock"]
          /\ status' = [status EXCEPT ![Main] = 0] \/ status' = status
          /\ req' = [req EXCEPT ![Main] = NoRequest] \/ req' = req
          /\ readers' \subseteq readers /\ writer' = writer
          /\ UNCHANGED <<calls, dumps>>
      BY <1>6 DEF DumpNext
    <3> QED
      BY <3>1 DEF TypeOK, ControlOK, Labels, CreateLabels, ReserveLabels, ShowLabels,
         ListLabels, DumpLabels
  <2>3. LocalsOK'
    <3>1. ev[Main] \in Positions /\ last[Main] \in Positions /\ ev[Main] <= last[Main]
      <4>1. pc[Main] = "dump_seats"
        BY <1>6 DEF DumpNext
      <4>2. ev[Main] # 0 /\ last[Main] # 0 /\ ev[Main] <= last[Main]
        BY <4>1 DEF IInv, CallInv, HasEvent, MutexHeld, Walking
      <4> QED
        BY <4>2, LocalTypes
    <3>2. list' = list
      BY <1>6 DEF DumpNext
    <3>3. CASE ev[Main] = last[Main]
      <4>1. /\ ev' = [ev EXCEPT ![Main] = NULL] /\ last' = [last EXCEPT ![Main] = NULL]
            /\ idx' = [idx EXCEPT ![Main] = 0] /\ rid' = [rid EXCEPT ![Main] = 0]
            /\ out' = [out EXCEPT ![Main] = << >>] /\ << >> \in Seq(Nat)
        BY <1>6, <3>3 DEF DumpNext
      <4> QED
        BY <3>2, <4>1 DEF TypeOK, LocalsOK, Positions
    <3>4. CASE ev[Main] # last[Main]
      <4>1. ev' = [ev EXCEPT ![Main] = ev[Main] + 1] /\ UNCHANGED <<last, idx, rid, out>>
        BY <1>6, <3>4 DEF DumpNext
      <4>2. ev[Main] + 1 \in Positions
        BY <3>1, <3>4 DEF Positions
      <4> QED
        BY <3>2, <4>1, <4>2 DEF TypeOK, LocalsOK, Positions
    <3> QED
      BY <3>3, <3>4
  <2>4. RwlInv'
    <3>1. CASE ev[Main] = last[Main]
      BY <1>6, <3>1 DEF IInv, Typed, TypeOK, DumpNext, RwlInv, WriteHeld, ReadHeld,
         DumpLabels
    <3>2. CASE ev[Main] # last[Main]
      BY <1>6, <3>2 DEF IInv, Typed, TypeOK, DumpNext, RwlInv, WriteHeld, ReadHeld,
         DumpLabels
    <3> QED
      BY <3>1, <3>2
  <2>5. MutexInv'
    <3>1. ev[Main] \in Positions
      BY <1>6, EventInUse DEF DumpNext, HasEvent, MutexHeld
    <3>2. \A d \in Positions : mutex'[d] = IF d = ev[Main] THEN NoThread ELSE mutex[d]
      <4>1. mutex' = [mutex EXCEPT ![ev[Main]] = NoThread]
        BY <1>6 DEF DumpNext
      <4> QED
        BY <3>1, <4>1, MutexSet DEF TypeOK
    <3>3. \A u \in Threads \ {Main} : pc'[u] = pc[u] /\ ev'[u] = ev[u]
      BY <1>6 DEF DumpNext
    <3>4. /\ Positions' = Positions /\ pc[Main] \in MutexHeld
          /\ pc'[Main] \notin MutexHeld
      BY <1>6 DEF DumpNext, MutexHeld, Positions
    <3>5. \A u \in Threads : \A d \in Positions : mutex[d] = u <=> pc[u] \in MutexHeld /\ ev[u] = d
      BY DEF IInv, MutexInv
    <3> QED
      BY <3>1, <3>2, <3>3, <3>4, <3>5 DEF MutexInv
  <2>6. CallInv'
    <3>1. pc[Main] = "dump_seats" /\ (ev[Main] = last[Main] \/ ev[Main] # last[Main])
      BY <1>6 DEF DumpNext
    <3>2. CASE ev[Main] = last[Main]
      <4>1. /\ pc' = [pc EXCEPT ![Main] = "idle"] /\ req' = [req EXCEPT ![Main] = NoRequest]
            /\ ev' = [ev EXCEPT ![Main] = NULL] /\ last' = [last EXCEPT ![Main] = NULL]
        BY <1>6, <3>2 DEF DumpNext
      <4> QED
        BY <3>1, <4>1 DEF IInv, CallInv, CreateLabels, ReserveLabels, ShowLabels,
           DumpLabels, HasEvent, MutexHeld, Walking, Positions
    <3>3. CASE ev[Main] # last[Main]
      <4>1. /\ pc' = [pc EXCEPT ![Main] = "dump_lock"] /\ UNCHANGED <<req, last>>
            /\ ev' = [ev EXCEPT ![Main] = ev[Main] + 1]
        BY <1>6, <3>3 DEF DumpNext
      <4>2. ev[Main] <= last[Main] /\ last[Main] # 0 /\ ev[Main] \in Nat /\ last[Main] \in Nat
        BY <3>1, LocalTypes DEF IInv, CallInv, Walking, Positions
      <4>3. ev'[Main] <= last[Main] /\ ev'[Main] # 0
        BY <3>3, <4>1, <4>2
      <4> QED
        BY <3>1, <4>1, <4>2, <4>3 DEF IInv, CallInv, CreateLabels, ReserveLabels,
           ShowLabels, DumpLabels, HasEvent, MutexHeld, Walking, Positions
    <3> QED
      BY <3>2, <3>3
  <2>7. ListInv'
    BY <1>6, ListInvStays DEF IInv, DumpNext
  <2> QED
    BY <2>1, <2>2, <2>3, <2>4, <2>5, <2>6, <2>7 DEF IInv, Typed, TypeOK
<1> QED
  BY <1>1, <1>2, <1>3, <1>4, <1>5, <1>6 DEF Dump

\* A worker that receives a request holds no lock yet.
LEMMA CallStep ==
  ASSUME IInv, NEW w \in Workers, Call(w)
  PROVE  IInv'
<1>0. TypeOK /\ UniqueIds
  BY DEF IInv, Typed, ListInv
<1> USE <1>0, Basics
<1>1. PICK r \in Requests : /\ req' = [req EXCEPT ![w] = r] /\ pc' = [pc EXCEPT ![w] = r.op]
                           /\ pc[w] = "idle"
  BY DEF Call
<1>2. /\ UNCHANGED <<events, readers, writer, ev, last, idx, rid, out, status, dumps>>
      /\ calls' = [calls EXCEPT ![w] = calls[w] + 1]
  BY DEF Call
<1>3. \/ r \in CreateRequests /\ r.op = "create"
      \/ r \in ReserveRequests /\ r.op = "reserve"
      \/ r \in ShowRequests /\ r.op = "show"
      \/ r \in ListRequests /\ r.op = "list"
  BY RequestKinds
<1>4. EventsOK' /\ data' \in Seq(SeatMaps)
  BY <1>2 DEF IInv, Typed, TypeOK, EventsOK, Positions, SeatsOf, SizeOf
<1>5. ControlOK'
  BY <1>1, <1>2, <1>3 DEF TypeOK, ControlOK, Labels, CreateLabels, ReserveLabels,
                          ShowLabels, ListLabels, DumpLabels
<1>6. LocalsOK'
  BY <1>2 DEF TypeOK, LocalsOK, Positions
<1>7. RwlInv'
  BY <1>1, <1>2, <1>3 DEF IInv, RwlInv, WriteHeld, ReadHeld, DumpLabels
<1>8. MutexInv'
  BY <1>1, <1>2, <1>3, LocalTypes DEF IInv, MutexInv, MutexHeld, Positions
<1>9. CallInv'
  BY <1>1, <1>2, <1>3, LocalTypes DEF IInv, CallInv, CreateLabels, ReserveLabels,
       ShowLabels, DumpLabels, HasEvent, MutexHeld, Walking, Positions
<1>10. ListInv'
  BY <1>1, <1>2, <1>3, ListInvStays DEF IInv
<1> QED
  BY <1>4, <1>5, <1>6, <1>7, <1>8, <1>9, <1>10 DEF IInv, Typed, TypeOK

\* A worker that has answered has given every lock back.
LEMMA ReplyStep ==
  ASSUME IInv, NEW w \in Workers, Reply(w)
  PROVE  IInv'
<1>0. TypeOK /\ UniqueIds
  BY DEF IInv, Typed, ListInv
<1> USE <1>0, Basics
<1>1. CASE Reply(w)
  <2>1. EventsOK' /\ data' \in Seq(SeatMaps)
    BY <1>1 DEF IInv, Typed, TypeOK, Reply, EventsOK, Positions, SeatsOf, SizeOf
  <2>2. ControlOK'
    BY <1>1 DEF IInv, Typed, TypeOK, Reply, ControlOK, Labels, CreateLabels,
       ReserveLabels, ShowLabels, ListLabels, DumpLabels
  <2>3. LocalsOK'
    BY <1>1 DEF IInv, Typed, TypeOK, Reply, LocalsOK, Positions
  <2>4. RwlInv'
    BY <1>1 DEF IInv, Typed, TypeOK, Reply, RwlInv, WriteHeld, ReadHeld, DumpLabels
  <2>5. MutexInv'
    BY <1>1, LocalTypes DEF IInv, Typed, TypeOK, Reply, MutexInv, MutexHeld, Positions
  <2>6. CallInv'
    BY <1>1, LocalTypes DEF IInv, Typed, TypeOK, Reply, CallInv, CreateLabels,
       ReserveLabels, ShowLabels, DumpLabels, HasEvent, MutexHeld, Walking, Positions
  <2>7. ListInv'
    BY <1>1, ListInvStays DEF IInv, Reply
  <2> QED
    BY <2>1, <2>2, <2>3, <2>4, <2>5, <2>6, <2>7 DEF IInv, Typed, TypeOK
<1> QED
  BY <1>1 DEF Reply

----------------------------------------------------------------------------
(* The theorems.                                                           *)

\* create_list and ems_init establish the invariant.
LEMMA InitInv == Init => IInv
<1> SUFFICES ASSUME Init PROVE IInv
  OBVIOUS
<1>1. Positions = {} /\ data \in Seq(SeatMaps)
  BY DEF Init, Positions
<1>2. Main \in Threads /\ Workers \subseteq Threads /\ NoThread \notin Threads
  BY ThreadsAssumption DEF Threads
<1>3. EventsOK
  BY <1>1 DEF Init, EventsOK
<1>4. ControlOK
  BY <1>2 DEF Init, ControlOK, Labels
<1>5. LocalsOK
  <2>1. << >> \in Seq(Nat)
    OBVIOUS
  <2> QED
    BY <2>1 DEF Init, LocalsOK, NULL
<1>6. RwlInv /\ MutexInv
  BY <1>1, <1>2 DEF Init, RwlInv, MutexInv, WriteHeld, ReadHeld, DumpLabels
<1>7. CallInv
  BY <1>2 DEF Init, CallInv, CreateLabels, ReserveLabels, ShowLabels, DumpLabels,
              HasEvent, MutexHeld, Walking
<1>8. ListInv
  BY <1>1, <1>2 DEF Init, ListInv, CountInv, UniqueIds, NewIdInv
<1> QED
  BY <1>1, <1>3, <1>4, <1>5, <1>6, <1>7, <1>8 DEF IInv, Typed, TypeOK

\* The invariant speaks of the program's variables only.
LEMMA StutterInv ==
  ASSUME IInv, UNCHANGED vars
  PROVE  IInv'
<1>1. /\ UNCHANGED <<list, reservations, data, mutex, event_num, readers, writer>>
      /\ UNCHANGED <<pc, req, ev, last, idx, rid, out, status, calls, dumps>>
  BY DEF vars
<1>2. Typed'
  BY <1>1 DEF IInv, Typed, TypeOK, EventsOK, ControlOK, LocalsOK, Positions, SeatsOf,
     SizeOf
<1>3. RwlInv' /\ MutexInv'
  BY <1>1 DEF IInv, RwlInv, MutexInv, Positions
<1>4. CallInv' /\ ListInv'
  BY <1>1 DEF IInv, CallInv, ListInv, CountInv, UniqueIds, NewIdInv, Positions
<1> QED
  BY <1>2, <1>3, <1>4 DEF IInv

\* Every step of every thread preserves the invariant.
LEMMA NextInv ==
  ASSUME IInv, [Next]_vars
  PROVE  IInv'
<1>1. ASSUME NEW w \in Workers, Call(w) PROVE IInv'
  BY <1>1, CallStep
<1>2. ASSUME NEW w \in Workers, Run(w) PROVE IInv'
  BY <1>2, CreateStep, ReserveStep, ShowStep, ListStep, ReplyStep DEF Run
<1>3. CASE Dump
  BY <1>3, DumpStep
<1>4. CASE Quiet \/ UNCHANGED vars
  BY <1>4, StutterInv DEF Quiet
<1> QED
  BY <1>1, <1>2, <1>3, <1>4 DEF Next

\* The locks of operations.c and what they protect: at each point of each
\* operation, who holds which lock and what is known of the list.
THEOREM Invariance == Spec => []IInv
<1>1. Init => IInv
  BY InitInv
<1>2. IInv /\ [Next]_vars => IInv'
  BY NextInv
<1> QED
  BY <1>1, <1>2, PTL DEF Spec

\* Every variable of the event store keeps its type: the walks of get_event,
\* ems_list_events and ems_sigusr1_action never leave the list, and the seat
\* array of an event always has its rows * cols entries.
THEOREM TypeCorrect == Spec => []TypeOK
<1>1. IInv => TypeOK
  BY DEF IInv, Typed
<1> QED
  BY <1>1, Invariance, PTL

\* The exclusive lock around ems_create's test and append keeps the ids of the
\* list distinct, however many clients create events at once.
THEOREM IdsAreUnique == Spec => []UniqueIds
<1>1. IInv => UniqueIds
  BY DEF IInv, ListInv
<1> QED
  BY <1>1, Invariance, PTL

----------------------------------------------------------------------------
(* The seats: the inductive invariant, on top of IInv.                      *)

AllWanted(w) == Wanted(ev[w], req[w].seats, Len(req[w].seats))
Writes(w, e) == At(w, "reserve_write") /\ ev[w] = e
IsGranted(w) == At(w, "done") /\ req[w].op = "reserve" /\ status[w] = 0

\* The check loop has found none of the wanted seats taken so far.
Checked(w) ==
  At(w, "reserve_check") =>
    /\ AllInBounds(w)
    /\ \A i \in AllWanted(w) : i < idx[w] => data[ev[w]][i] = 0

\* The write loop has written the seats before idx, and only those; the others
\* are still free.
Written(w) ==
  At(w, "reserve_write") =>
    /\ AllInBounds(w)
    /\ idx[w] \in 1 .. Len(req[w].seats) + 1
    /\ rid[w] = reservations[ev[w]] /\ rid[w] > 0
    /\ \A i \in SeatsOf(ev[w]) :
         data[ev[w]][i] = rid[w] <=> i \in Wanted(ev[w], req[w].seats, idx[w] - 1)
    /\ \A i \in AllWanted(w) : data[ev[w]][i] \in {0, rid[w]}

\* A granted reservation has its seats, and its id is nobody else's.
Honoured(w) ==
  IsGranted(w) =>
    /\ ev[w] # NULL
    /\ {i \in SeatsOf(ev[w]) : data[ev[w]][i] = rid[w]} = AllWanted(w)
    /\ rid[w] > 0 /\ rid[w] <= reservations[ev[w]]
    /\ \A v \in Workers : Writes(v, ev[w]) => rid[w] < rid[v]

\* Every reservation counted owns a seat, but for the one being written.
Counted(e) ==
  /\ \A i \in SeatsOf(e) : data[e][i] <= reservations[e]
  /\ \A r \in 1 .. reservations[e] :
       \/ \E i \in SeatsOf(e) : data[e][i] = r
       \/ r = reservations[e] /\ \E w \in Workers : Writes(w, e)

\* The check loop begins at seat 0; LIST is no RESERVE.
Begins(w) ==
  /\ pc[w] \in {"idle", "reserve", "reserve_find", "reserve_lock", "reserve_bounds"}
       => idx[w] = 0
  /\ pc[w] \in ListLabels => req[w].op = "list"

SeatInv ==
  /\ \A w \in Workers : Checked(w) /\ Written(w) /\ Honoured(w) /\ Begins(w)
  /\ \A e \in Positions : Counted(e)

----------------------------------------------------------------------------
(* Facts the steps rest on.                                                *)

USE DEF At, Goto, Set, Finish, Send, Clear, ReadLock, ReadUnlock, WriteLock,
        WriteUnlock, LockEvent, UnlockEvent, events, rwl, locals, budget

\* A seat in bounds has its place in the data of the event.
LEMMA SeatIndexInBounds ==
  ASSUME NEW rows \in Nat, NEW cols \in Nat, NEW row \in 1 .. rows, NEW col \in 1 .. cols
  PROVE  SeatIndex(cols, row, col) \in 0 .. rows * cols - 1
<1> DEFINE a == (row - 1) * cols
           b == (rows - row) * cols
<1>1. a \in Nat /\ b \in Nat
  OBVIOUS
<1>2. rows * cols = a + b + cols
  OBVIOUS
<1>3. SeatIndex(cols, row, col) = a + col - 1
  BY DEF SeatIndex
<1> HIDE DEF a, b
<1> QED
  BY <1>1, <1>2, <1>3

\* A RESERVE names pairs of numbers.
LEMMA RequestSeats ==
  ASSUME NEW r \in ReserveRequests
  PROVE  /\ r.seats \in Seq(Nat \X Nat) /\ Len(r.seats) \in Nat /\ Len(r.seats) > 0
         /\ \A j \in 1 .. Len(r.seats) : r.seats[j] \in Nat \X Nat
<1>1. r.seats \in SeatLists
  BY DEF ReserveRequests
<1>2. r.seats \in Seq(Nat \X Nat) /\ r.seats # << >>
  BY <1>1, SeatsAssumption
<1>3. Len(r.seats) \in Nat /\ Len(r.seats) > 0
  BY <1>2, EmptySeq, LenProperties
<1> QED
  BY <1>2, <1>3, ElementOfSeq

\* A worker in the critical section of a RESERVE: its event and its request.
LEMMA Reserving ==
  ASSUME IInv, NEW w \in Workers, pc[w] \in {"reserve_bounds", "reserve_check", "reserve_write"}
  PROVE  /\ ev[w] \in Positions /\ mutex[ev[w]] = w /\ req[w] \in ReserveRequests
         /\ data[ev[w]] \in [SeatsOf(ev[w]) -> Nat] /\ reservations[ev[w]] \in Nat
         /\ SizeOf(ev[w]) \in Nat /\ idx[w] \in Nat /\ rid[w] \in Nat
<1>0. TypeOK
  BY DEF IInv, Typed
<1>1. w \in Threads /\ pc[w] \in HasEvent /\ pc[w] \in MutexHeld
  BY Basics, <1>0 DEF HasEvent, MutexHeld
<1>2. ev[w] \in Positions
  BY <1>1, EventInUse
<1>3. mutex[ev[w]] = w
  BY <1>1, <1>2 DEF IInv, MutexInv
<1>4. req[w] \in ReserveRequests
  BY DEF IInv, CallInv, ReserveLabels
<1>5. list[ev[w]] \in [id : EventIds, rows : Nat, cols : Nat]
  BY <1>0, <1>2, NodeTypes
<1>6. SizeOf(ev[w]) \in Nat
  BY <1>5 DEF SizeOf
<1> QED
  BY <1>0, <1>1, <1>2, <1>3, <1>4, <1>6, NodeTypes, LocalTypes

\* The seats asked for exist when they are all in bounds.
LEMMA WantedInBounds ==
  ASSUME TypeOK, NEW w \in Workers, ev[w] \in Positions, req[w] \in ReserveRequests,
         AllInBounds(w), NEW n \in Nat, n <= Len(req[w].seats)
  PROVE  Wanted(ev[w], req[w].seats, n) \subseteq SeatsOf(ev[w])
<1>1. list[ev[w]] \in [id : EventIds, rows : Nat, cols : Nat]
  BY NodeTypes
<1>2. ASSUME NEW j \in 1 .. n
      PROVE  SeatIndex(list[ev[w]].cols, req[w].seats[j][1], req[w].seats[j][2])
               \in SeatsOf(ev[w])
  <2>1. Len(req[w].seats) \in Nat
    BY RequestSeats
  <2>2. j \in 1 .. Len(req[w].seats)
    BY <2>1
  <2>3. InBounds(ev[w], req[w].seats[j])
    BY <2>2 DEF AllInBounds
  <2> QED
    BY <1>1, <2>3, SeatIndexInBounds DEF InBounds, SeatsOf, SizeOf
<1> QED
  BY <1>2 DEF Wanted

\* The seats of the request a worker is checking or writing.
LEMMA AllWantedSeats ==
  ASSUME IInv, NEW w \in Workers, AllInBounds(w),
         pc[w] \in {"reserve_bounds", "reserve_check", "reserve_write"}
  PROVE  AllWanted(w) \subseteq SeatsOf(ev[w]) /\ \A i \in AllWanted(w) : i \in Nat
<1>1. TypeOK
  BY DEF IInv, Typed
<1>2. ev[w] \in Positions /\ req[w] \in ReserveRequests /\ SizeOf(ev[w]) \in Nat
  BY Reserving
<1>3. Len(req[w].seats) \in Nat /\ Len(req[w].seats) <= Len(req[w].seats)
  BY <1>2, RequestSeats
<1>4. AllWanted(w) \subseteq SeatsOf(ev[w])
  BY <1>1, <1>2, <1>3, WantedInBounds DEF AllWanted
<1> QED
  BY <1>2, <1>4 DEF SeatsOf

\* The seats of the first n + 1 entries are those of the first n, and one more.
LEMMA WantedNext ==
  ASSUME NEW e, NEW seats, NEW n \in Nat
  PROVE  Wanted(e, seats, n + 1) = Wanted(e, seats, n)
           \cup {SeatIndex(list[e].cols, seats[n + 1][1], seats[n + 1][2])}
<1>1. 1 .. n + 1 = (1 .. n) \cup {n + 1}
  OBVIOUS
<1> QED
  BY <1>1 DEF Wanted

\* Two workers are never in the critical section of one event.
LEMMA Alone ==
  ASSUME IInv, NEW v \in Workers, NEW w \in Workers, ev[v] = ev[w],
         pc[v] \in {"reserve_bounds", "reserve_check", "reserve_write"},
         pc[w] \in {"reserve_bounds", "reserve_check", "reserve_write"}
  PROVE  v = w
BY Reserving

----------------------------------------------------------------------------
(* Steps that leave the seats alone.                                       *)

Still(w) == /\ pc'[w] = pc[w] /\ req'[w] = req[w] /\ ev'[w] = ev[w]
            /\ idx'[w] = idx[w] /\ rid'[w] = rid[w] /\ status'[w] = status[w]

\* The worker is not, and does not come, where SeatInv says something of it.
Aside(w) == /\ ~At(w, "reserve_write")
            /\ pc'[w] \notin {"reserve_check", "reserve_write"}
            /\ ~IsGranted(w)' /\ Begins(w)'

\* What SeatInv says of the other workers holds after a step at one event.
LEMMA OthersStay ==
  ASSUME IInv, NEW v \in Workers, Still(v), Checked(v), Written(v), Begins(v), list' = list,
         pc[v] \in {"reserve_check", "reserve_write"} =>
           data'[ev[v]] = data[ev[v]] /\ reservations'[ev[v]] = reservations[ev[v]]
  PROVE  Checked(v)' /\ Written(v)' /\ Begins(v)'
<1>1. Begins(v)'
  BY DEF Begins, Still
<1>2. Checked(v)'
  BY DEF Checked, Still, AllInBounds, InBounds, AllWanted, Wanted
<1>3. Written(v)'
  <2>1. CASE pc[v] = "reserve_write"
    <3>1. /\ AllInBounds(v)' <=> AllInBounds(v)
          /\ SeatsOf(ev[v])' = SeatsOf(ev[v]) /\ AllWanted(v)' = AllWanted(v)
          /\ Len(req[v].seats)' = Len(req[v].seats)
          /\ Wanted(ev[v], req[v].seats, idx[v] - 1)' = Wanted(ev[v], req[v].seats, idx[v] - 1)
      BY DEF Still, AllInBounds, InBounds, AllWanted, Wanted, SeatsOf, SizeOf
    <3>2. /\ data'[ev'[v]] = data[ev[v]] /\ reservations'[ev'[v]] = reservations[ev[v]]
          /\ rid'[v] = rid[v] /\ idx'[v] = idx[v]
      BY <2>1 DEF Still
    <3> QED
      BY <2>1, <3>1, <3>2 DEF Written
  <2>2. CASE pc[v] # "reserve_write"
    BY <2>2 DEF Written, Still
  <2> QED
    BY <2>1, <2>2
<1> QED
  BY <1>1, <1>2, <1>3

\* A step that touches no seat and neither enters nor leaves the loops.
LEMMA QuietStep ==
  ASSUME IInv, SeatInv, UNCHANGED <<list, reservations, data>>,
         \A w \in Workers : Still(w) \/ Aside(w)
  PROVE  SeatInv'
<1>1. ASSUME NEW w \in Workers, NEW e PROVE Writes(w, e)' <=> Writes(w, e)
  <2>1. CASE Still(w)
    BY <2>1 DEF Still, Writes
  <2>2. CASE Aside(w)
    BY <2>2 DEF Aside, Writes
  <2> QED
    BY <2>1, <2>2
<1>2. ASSUME NEW w \in Workers, Still(w)
      PROVE  Checked(w)' /\ Written(w)' /\ Honoured(w)' /\ Begins(w)'
  <2>1. Checked(w) /\ Written(w) /\ Honoured(w) /\ Begins(w)
    BY DEF SeatInv
  <2>2. Checked(w)' /\ Written(w)' /\ Begins(w)'
    BY <1>2, <2>1, OthersStay
  <2>3. Honoured(w)'
    <3> SUFFICES ASSUME IsGranted(w)' PROVE Honoured(w)'
      BY DEF Honoured
    <3>1. IsGranted(w)
      BY <1>2 DEF Still, IsGranted
    <3>2. SeatsOf(ev[w])' = SeatsOf(ev[w]) /\ AllWanted(w)' = AllWanted(w)
      BY <1>2 DEF Still, SeatsOf, SizeOf, AllWanted, Wanted
    <3>3. \A v \in Workers : Writes(v, ev[w])' => rid'[w] < rid'[v]
      <4> SUFFICES ASSUME NEW v \in Workers, Writes(v, ev[w])' PROVE rid'[w] < rid'[v]
        OBVIOUS
      <4>1. Writes(v, ev[w])
        BY <1>1, <1>2 DEF Still, Writes
      <4>2. Still(v)
        BY <4>1 DEF Writes, Aside
      <4> QED
        BY <1>2, <2>1, <3>1, <4>1, <4>2 DEF Honoured, Still
    <3> QED
      BY <1>2, <2>1, <3>1, <3>2, <3>3 DEF Honoured, Still
  <2> QED
    BY <2>2, <2>3
<1>3. ASSUME NEW w \in Workers, Aside(w)
      PROVE  Checked(w)' /\ Written(w)' /\ Honoured(w)' /\ Begins(w)'
  BY <1>3 DEF Aside, Checked, Written, Honoured
<1>4. ASSUME NEW e \in Positions' PROVE Counted(e)'
  <2>1. Counted(e) /\ SeatsOf(e)' = SeatsOf(e)
    BY DEF SeatInv, Positions, SeatsOf, SizeOf
  <2> QED
    BY <1>1, <2>1 DEF Counted
<1> QED
  BY <1>2, <1>3, <1>4 DEF SeatInv

\* A CREATE changes no seat, but for the new event's.
LEMMA CreateSeats ==
  ASSUME IInv, SeatInv, NEW w \in Workers, Create(w), ~CreateLink(w)
  PROVE  SeatInv'
<1>1. TypeOK
  BY DEF IInv, Typed
<1>2. pc[w] \in CreateLabels /\ UNCHANGED <<list, reservations, data, req, ev, idx, rid>>
  BY DEF Create, CreateLock, CreateFind, CreateFail, CreateLink, CreateCount, CreateLabels
<1>3. pc'[w] \in CreateLabels \cup {"done"}
      /\ \A v \in Workers \ {w} : pc'[v] = pc[v] /\ status'[v] = status[v]
  BY <1>1, Basics DEF Create, CreateLock, CreateFind, CreateFail, CreateLink, CreateCount,
     CreateLabels
<1>4. req[w].op = "create"
  BY <1>2 DEF IInv, CallInv, CreateRequests
<1>5. Aside(w)
  BY <1>2, <1>3, <1>4 DEF Aside, IsGranted, Begins, CreateLabels, ListLabels
<1>6. \A v \in Workers \ {w} : Still(v)
  BY <1>2, <1>3 DEF Still
<1> QED
  BY <1>2, <1>5, <1>6, QuietStep

\* SHOW only reads.
LEMMA ShowSeats ==
  ASSUME IInv, SeatInv, NEW w \in Workers, Show(w)
  PROVE  SeatInv'
<1>1. TypeOK
  BY DEF IInv, Typed
<1>2. pc[w] \in ShowLabels /\ UNCHANGED <<list, reservations, data, req, rid>>
  BY DEF Show, ShowLock, ShowFind, ShowSize, ShowSeat, ShowEnd, ShowFail, ShowLabels
<1>3. pc'[w] \in ShowLabels \cup {"done"}
      /\ \A v \in Workers \ {w} :
           pc'[v] = pc[v] /\ status'[v] = status[v] /\ ev'[v] = ev[v] /\ idx'[v] = idx[v]
  BY <1>1, Basics DEF Show, ShowLock, ShowFind, ShowSize, ShowSeat, ShowEnd, ShowFail,
     ShowLabels
<1>4. req[w].op = "show"
  BY <1>2 DEF IInv, CallInv, ShowRequests
<1>5. Aside(w)
  BY <1>2, <1>3, <1>4 DEF Aside, IsGranted, Begins, ShowLabels, ListLabels
<1>6. \A v \in Workers \ {w} : Still(v)
  BY <1>2, <1>3 DEF Still
<1> QED
  BY <1>2, <1>5, <1>6, QuietStep

\* LIST only reads.
LEMMA ListSeats ==
  ASSUME IInv, SeatInv, NEW w \in Workers, List(w)
  PROVE  SeatInv'
<1>1. TypeOK
  BY DEF IInv, Typed
<1>2. pc[w] \in ListLabels /\ UNCHANGED <<list, reservations, data, req, idx, rid>>
  BY DEF List, ListLock, ListCount, ListId, ListFail, ListLabels
<1>3. pc'[w] \in ListLabels \cup {"done"}
      /\ \A v \in Workers \ {w} : pc'[v] = pc[v] /\ status'[v] = status[v] /\ ev'[v] = ev[v]
  BY <1>1, Basics DEF List, ListLock, ListCount, ListId, ListFail, ListLabels
<1>4. req[w].op = "list"
  BY <1>2 DEF SeatInv, Begins
<1>5. Aside(w)
  BY <1>2, <1>3, <1>4 DEF Aside, IsGranted, Begins, ListLabels
<1>6. \A v \in Workers \ {w} : Still(v)
  BY <1>2, <1>3 DEF Still
<1> QED
  BY <1>2, <1>5, <1>6, QuietStep

\* The main thread only reads.
LEMMA DumpSeats ==
  ASSUME IInv, SeatInv, Dump
  PROVE  SeatInv'
<1>1. TypeOK
  BY DEF IInv, Typed
<1>2. UNCHANGED <<list, reservations, data>>
  BY DEF Dump, DumpLock, DumpEmpty, DumpStart, DumpMutex, DumpSeat, DumpNext
<1>3. ASSUME NEW v \in Workers PROVE Still(v)
  BY <1>1, Basics DEF Still, Dump, DumpLock, DumpEmpty, DumpStart, DumpMutex, DumpSeat, DumpNext
<1> QED
  BY <1>2, <1>3, QuietStep

\* A request begins.
LEMMA CallSeats ==
  ASSUME IInv, SeatInv, NEW w \in Workers, Call(w)
  PROVE  SeatInv'
<1>1. TypeOK
  BY DEF IInv, Typed
<1>2. PICK r \in Requests : req' = [req EXCEPT ![w] = r] /\ pc' = [pc EXCEPT ![w] = r.op]
  BY DEF Call
<1>3. pc[w] = "idle" /\ UNCHANGED <<list, reservations, data, ev, idx, rid, status>>
  BY DEF Call
<1>4. r.op \in {"create", "reserve", "show", "list"}
  BY RequestKinds
<1>5. pc'[w] = r.op /\ req'[w].op = r.op /\ idx'[w] = 0
  BY <1>1, <1>2, <1>3, Basics DEF SeatInv, Begins
<1>6. Aside(w)
  BY <1>3, <1>4, <1>5 DEF Aside, IsGranted, Begins, ListLabels
<1>7. \A v \in Workers \ {w} : Still(v)
  BY <1>1, <1>2, <1>3, Basics DEF Still
<1> QED
  BY <1>3, <1>6, <1>7, QuietStep

\* A request ends.
LEMMA ReplySeats ==
  ASSUME IInv, SeatInv, NEW w \in Workers, Reply(w)
  PROVE  SeatInv'
<1>1. TypeOK
  BY DEF IInv, Typed
<1>2. UNCHANGED <<list, reservations, data>>
  BY DEF Reply
<1>3. pc[w] = "done" /\ pc'[w] = "idle" /\ idx'[w] = 0
  BY <1>1, Basics DEF Reply
<1>4. Aside(w)
  BY <1>3 DEF Aside, IsGranted, Begins, ListLabels
<1>5. \A v \in Workers \ {w} : Still(v)
  BY <1>1, Basics DEF Still, Reply
<1> QED
  BY <1>2, <1>4, <1>5, QuietStep

\* A RESERVE on its way to the event's mutex, and back when it is refused.
LEMMA ReserveQuiet ==
  ASSUME IInv, SeatInv, NEW w \in Workers,
         \/ ReserveLock(w) \/ ReserveFind(w) \/ ReserveMutex(w)
         \/ ReserveBounds(w) /\ ~AllInBounds(w)
         \/ ReserveCheck(w) /\ Taken(w)
  PROVE  SeatInv'
<1>1. TypeOK
  BY DEF IInv, Typed
<1>2. /\ pc[w] \in ReserveLabels \ {"reserve_write"}
      /\ UNCHANGED <<list, reservations, data, req, idx, rid>>
  BY DEF ReserveLock, ReserveFind, ReserveMutex, ReserveBounds, ReserveCheck, ReserveLabels
<1>3. \/ /\ pc'[w] \in {"reserve_find", "reserve_lock", "reserve_bounds"}
         /\ pc[w] \in {"reserve", "reserve_find", "reserve_lock"}
      \/ pc'[w] = "done" /\ status'[w] = 1
  BY <1>1, Basics DEF ReserveLock, ReserveFind, ReserveMutex, ReserveBounds, ReserveCheck
<1>4. \A v \in Workers \ {w} : pc'[v] = pc[v] /\ status'[v] = status[v] /\ ev'[v] = ev[v]
  BY <1>1, Basics DEF ReserveLock, ReserveFind, ReserveMutex, ReserveBounds, ReserveCheck
<1>5. Begins(w)
  BY DEF SeatInv
<1>6. Aside(w)
  BY <1>2, <1>3, <1>5 DEF Aside, IsGranted, Begins, ReserveLabels, ListLabels
<1>7. \A v \in Workers \ {w} : Still(v)
  BY <1>2, <1>4 DEF Still
<1> QED
  BY <1>2, <1>6, <1>7, QuietStep

----------------------------------------------------------------------------
(* The critical section of RESERVE.                                        *)

\* A granted reservation is not disturbed.
LEMMA HonouredStays ==
  ASSUME NEW v \in Workers, Still(v), Honoured(v), list' = list,
         IsGranted(v) =>
           /\ \A i \in SeatsOf(ev[v]) : data'[ev[v]][i] = rid[v] <=> data[ev[v]][i] = rid[v]
           /\ rid[v] <= reservations'[ev[v]]
           /\ \A u \in Workers : Writes(u, ev[v])' => rid[v] < rid'[u]
  PROVE  Honoured(v)'
<1> SUFFICES ASSUME IsGranted(v)' PROVE Honoured(v)'
  BY DEF Honoured
<1>1. IsGranted(v)
  BY DEF Still, IsGranted
<1>2. SeatsOf(ev[v])' = SeatsOf(ev[v]) /\ AllWanted(v)' = AllWanted(v) /\ ev'[v] = ev[v] /\ rid'[v] = rid[v]
  BY DEF Still, SeatsOf, SizeOf, AllWanted, Wanted
<1>3. {i \in SeatsOf(ev[v]) : data'[ev[v]][i] = rid[v]} = AllWanted(v)
  BY <1>1 DEF Honoured
<1>4. \A u \in Workers : Writes(u, ev[v])' => rid'[v] < rid'[u]
  BY <1>1, <1>2
<1>5. ev'[v] # NULL /\ rid'[v] > 0 /\ rid'[v] <= reservations'[ev'[v]]
  BY <1>1, <1>2 DEF Honoured
<1>6. \A u \in Workers : Writes(u, ev[v])' <=> At(u, "reserve_write")' /\ ev'[u] = ev'[v]
  BY <1>2 DEF Writes
<1> QED
  BY <1>2, <1>3, <1>4, <1>5, <1>6 DEF Honoured, Writes

\* The check loop: the seats it has passed are free.
LEMMA CheckSeats ==
  ASSUME IInv, SeatInv, NEW w \in Workers,
         \/ ReserveBounds(w) /\ AllInBounds(w)
         \/ ReserveCheck(w) /\ ~Taken(w)
  PROVE  SeatInv'
<1>1. TypeOK
  BY DEF IInv, Typed
<1>2. /\ pc[w] \in {"reserve_bounds", "reserve_check"} /\ pc'[w] = "reserve_check"
      /\ UNCHANGED <<list, reservations, data, req, ev, rid, status>>
  BY <1>1, Basics DEF ReserveBounds, ReserveCheck
<1>3. \A v \in Workers \ {w} : Still(v)
  BY <1>1, Basics DEF Still, ReserveBounds, ReserveCheck
<1>4. \A v \in Workers : Checked(v) /\ Written(v) /\ Honoured(v) /\ Begins(v)
  BY DEF SeatInv
<1>5. \A v \in Workers, e \in Positions : Writes(v, e)' <=> Writes(v, e)
  BY <1>2, <1>3 DEF Still, Writes
<1>6. ASSUME NEW v \in Workers \ {w}
      PROVE  Checked(v)' /\ Written(v)' /\ Honoured(v)' /\ Begins(v)'
  <2>1. Checked(v)' /\ Written(v)' /\ Begins(v)'
    BY <1>2, <1>3, <1>4, OthersStay
  <2>2. IsGranted(v) => ev[v] \in Positions
    BY <1>1, <1>4, LocalTypes, Basics DEF Honoured
  <2>3. IsGranted(v) => \A u \in Workers : Writes(u, ev[v])' => rid[v] < rid'[u]
    BY <1>2, <1>4, <1>5, <2>2 DEF Honoured
  <2>4. Honoured(v)'
    BY <1>2, <1>3, <1>4, <2>3, HonouredStays DEF Honoured
  <2> QED
    BY <2>1, <2>4
<1>7. AllInBounds(w) /\ AllInBounds(w)' /\ AllWanted(w)' = AllWanted(w)
  BY <1>2, <1>4 DEF Checked, AllInBounds, InBounds, AllWanted, Wanted, ReserveBounds,
     ReserveCheck
<1>8. \A i \in AllWanted(w) : i \in Nat
  BY <1>2, <1>7, AllWantedSeats
<1>9. Checked(w)'
  <2> SUFFICES ASSUME NEW i \in AllWanted(w), i < idx'[w] PROVE data[ev[w]][i] = 0
    BY <1>2, <1>7 DEF Checked
  <2>1. CASE ReserveBounds(w)
    <3>1. idx[w] = 0 /\ idx' = idx
      BY <1>4, <2>1 DEF ReserveBounds, Begins
    <3> QED
      BY <1>8, <3>1
  <2>2. CASE ReserveCheck(w) /\ ~Taken(w)
    <3>1. idx'[w] = idx[w] + 1 /\ idx[w] \in Nat
      BY <1>1, <1>2, <2>2, Reserving, Basics DEF ReserveCheck
    <3>2. CASE i < idx[w]
      BY <1>4, <2>2, <3>2 DEF Checked, ReserveCheck
    <3>3. CASE i = idx[w]
      BY <2>2, <3>3 DEF Taken, AllWanted
    <3> QED
      BY <1>8, <3>1, <3>2, <3>3
  <2> QED
    BY <2>1, <2>2
<1>10. Written(w)' /\ Honoured(w)' /\ Begins(w)'
  BY <1>2 DEF Written, Honoured, IsGranted, Begins, ListLabels
<1>11. ASSUME NEW e \in Positions' PROVE Counted(e)'
  <2>1. e \in Positions /\ Counted(e) /\ SeatsOf(e)' = SeatsOf(e)
    BY <1>2 DEF SeatInv, Positions, SeatsOf, SizeOf
  <2> QED
    BY <1>2, <1>5, <2>1 DEF Counted
<1> QED
  BY <1>6, <1>9, <1>10, <1>11 DEF SeatInv

\* The parts of an event are those of a node of the list.
LEMMA PartsOf ==
  ASSUME TypeOK
  PROVE  DOMAIN reservations = Positions /\ DOMAIN data = Positions /\ DOMAIN mutex = Positions
<1>1. reservations \in Seq(Nat) /\ mutex \in Seq(Threads \cup {NoThread})
  BY DEF TypeOK, EventsOK
<1>2. DOMAIN reservations = 1 .. Len(reservations) /\ DOMAIN mutex = 1 .. Len(mutex)
  BY <1>1, LenProperties
<1> QED
  BY <1>2 DEF TypeOK, EventsOK, Positions

\* Taking the next reservation id: no seat has it yet.
LEMMA IdSeats ==
  ASSUME IInv, SeatInv, NEW w \in Workers, ReserveId(w)
  PROVE  SeatInv'
<1> DEFINE e == ev[w]
           r == reservations[e] + 1
<1>1. TypeOK
  BY DEF IInv, Typed
<1>2. pc[w] = "reserve_check" /\ pc' = [pc EXCEPT ![w] = "reserve_write"]
      /\ idx[w] \notin SeatsOf(e) /\ UNCHANGED <<list, data, req, ev, status>>
  BY DEF ReserveId
<1>3. /\ e \in Positions /\ req[w] \in ReserveRequests /\ reservations[e] \in Nat
      /\ data[e] \in [SeatsOf(e) -> Nat] /\ SizeOf(e) \in Nat /\ idx[w] \in Nat
  BY <1>2, Reserving
<1>4. /\ reservations'[e] = r /\ \A d \in Positions \ {e} : reservations'[d] = reservations[d]
      /\ pc'[w] = "reserve_write" /\ rid'[w] = r /\ idx'[w] = 1
  BY <1>1, <1>2, <1>3, Basics, PartsOf DEF ReserveId
<1>5. \A v \in Workers \ {w} : Still(v)
  BY <1>1, Basics DEF Still, ReserveId
<1>6. \A v \in Workers : Checked(v) /\ Written(v) /\ Honoured(v) /\ Begins(v)
  BY DEF SeatInv
<1>7. \A d \in Positions : Counted(d)
  BY DEF SeatInv
<1>8. \A v \in Workers \ {w} : pc[v] \in {"reserve_check", "reserve_write"} =>
        ev[v] \in Positions \ {e}
  BY <1>2, Alone, Reserving
<1> HIDE DEF e, r
<1>9. \A v \in Workers \ {w}, d \in Positions : Writes(v, d)' <=> Writes(v, d)
  BY <1>5 DEF Still, Writes
<1>10. ASSUME NEW v \in Workers \ {w}
       PROVE  Checked(v)' /\ Written(v)' /\ Honoured(v)' /\ Begins(v)'
  <2>1. Checked(v)' /\ Written(v)' /\ Begins(v)'
    BY <1>2, <1>4, <1>5, <1>6, <1>8, OthersStay
  <2>2. ASSUME IsGranted(v)
        PROVE  /\ rid[v] <= reservations'[ev[v]]
               /\ \A u \in Workers : Writes(u, ev[v])' => rid[v] < rid'[u]
    <3>1. ev[v] \in Positions /\ rid[v] <= reservations[ev[v]] /\ rid[v] \in Nat
          /\ reservations[ev[v]] \in Nat
      BY <1>1, <1>6, <2>2, LocalTypes, NodeTypes, Basics DEF Honoured
    <3>2. rid[v] <= reservations'[ev[v]]
      BY <1>3, <1>4, <3>1 DEF r
    <3>3. ASSUME NEW u \in Workers, Writes(u, ev[v])' PROVE rid[v] < rid'[u]
      <4>1. CASE u = w
        <5>1. ev[v] = e
          BY <1>2, <3>3, <4>1 DEF Writes, e
        <5> QED
          BY <1>3, <1>4, <3>1, <4>1, <5>1 DEF r
      <4>2. CASE u # w
        BY <1>5, <1>6, <1>9, <2>2, <3>1, <3>3, <4>2 DEF Honoured, Still
      <4> QED
        BY <4>1, <4>2
    <3> QED
      BY <3>2, <3>3
  <2>3. Honoured(v)'
    BY <1>2, <1>5, <1>6, <2>2, HonouredStays
  <2> QED
    BY <2>1, <2>3
<1>11. AllInBounds(w) /\ \A i \in AllWanted(w) : i < idx[w] => data[e][i] = 0
  BY <1>2, <1>6 DEF Checked, e
<1>12. \A i \in AllWanted(w) : data[e][i] = 0
  <2>1. AllWanted(w) \subseteq SeatsOf(e)
    BY <1>2, <1>11, AllWantedSeats DEF e
  <2>2. \A i \in SeatsOf(e) : i < idx[w]
    BY <1>2, <1>3 DEF SeatsOf
  <2> QED
    BY <1>11, <2>1, <2>2
<1>13. \A i \in SeatsOf(e) : data[e][i] \in Nat /\ data[e][i] <= reservations[e]
  BY <1>3, <1>7 DEF Counted
<1>14. Written(w)'
  <2>1. /\ AllInBounds(w)' /\ AllWanted(w)' = AllWanted(w) /\ SeatsOf(e)' = SeatsOf(e)
        /\ Len(req'[w].seats) = Len(req[w].seats)
    BY <1>2, <1>11 DEF AllInBounds, InBounds, AllWanted, Wanted, SeatsOf, SizeOf, e
  <2>2. idx'[w] \in 1 .. Len(req'[w].seats) + 1
    BY <1>3, <1>4, <2>1, RequestSeats
  <2>3. rid'[w] = reservations'[ev'[w]] /\ rid'[w] > 0
    BY <1>2, <1>3, <1>4 DEF e, r
  <2>4. Wanted(ev[w], req[w].seats, idx[w] - 1)' = {}
    BY <1>4 DEF Wanted
  <2>5. \A i \in SeatsOf(e) : data'[e][i] # rid'[w]
    BY <1>2, <1>3, <1>4, <1>13 DEF r
  <2>6. \A i \in AllWanted(w)' : data'[ev'[w]][i] = 0
    BY <1>2, <1>12, <2>1 DEF e
  <2> QED
    BY <1>2, <2>1, <2>2, <2>3, <2>4, <2>5, <2>6 DEF Written, e
<1>15. Checked(w)' /\ Honoured(w)' /\ Begins(w)'
  BY <1>4 DEF Checked, Honoured, IsGranted, Begins, ListLabels
<1>16. ASSUME NEW d \in Positions' PROVE Counted(d)'
  <2>1. d \in Positions /\ Counted(d) /\ SeatsOf(d)' = SeatsOf(d)
    BY <1>2, <1>7 DEF Positions, SeatsOf, SizeOf
  <2>2. CASE d # e
    <3>1. \A v \in Workers : Writes(v, d)' <=> Writes(v, d)
      BY <1>2, <1>9, <2>1, <2>2 DEF Writes, e
    <3> QED
      BY <1>2, <1>4, <2>1, <2>2, <3>1 DEF Counted
  <2>3. CASE d = e
    <3>1. \A v \in Workers : ~Writes(v, e)
      BY <1>2, Alone DEF Writes, e
    <3>2. \A q \in 1 .. reservations[e] : \E i \in SeatsOf(e) : data[e][i] = q
      BY <2>1, <2>3, <3>1 DEF Counted
    <3>3. \A i \in SeatsOf(e) : data[e][i] <= r
      BY <1>3, <1>13 DEF r
    <3>4. \A q \in 1 .. r : q \in 1 .. reservations[e] \/ q = r
      BY <1>3 DEF r
    <3>5. \A i \in SeatsOf(d)' : data'[d][i] <= reservations'[d]
      BY <1>2, <1>4, <2>1, <2>3, <3>3
    <3>6. Writes(w, d)'
      BY <1>2, <1>4, <2>3 DEF Writes, e
    <3>7. ASSUME NEW q \in 1 .. reservations'[d]
          PROVE  (\E i \in SeatsOf(d)' : data'[d][i] = q) \/ q = reservations'[d]
      <4>1. q \in 1 .. r /\ reservations'[d] = r
        BY <1>4, <2>3
      <4>2. CASE q \in 1 .. reservations[e]
        BY <1>2, <2>1, <2>3, <3>2, <4>2
      <4> QED
        BY <3>4, <4>1, <4>2
    <3> QED
      BY <3>5, <3>6, <3>7 DEF Counted
  <2> QED
    BY <2>2, <2>3
<1> QED
  BY <1>10, <1>14, <1>15, <1>16 DEF SeatInv

\* One write: of a wanted seat that was free, or that this RESERVE has already.
LEMMA OneWrite ==
  ASSUME IInv, SeatInv, NEW w \in Workers, ReserveWrite(w)
  PROVE  \E k \in AllWanted(w) :
           /\ k = SeatIndex(list[ev[w]].cols, req[w].seats[idx[w]][1], req[w].seats[idx[w]][2])
           /\ k \in SeatsOf(ev[w]) /\ data[ev[w]][k] \in {0, rid[w]}
           /\ data'[ev[w]] = [data[ev[w]] EXCEPT ![k] = rid[w]]
           /\ \A d \in Positions \ {ev[w]} : data'[d] = data[d]
           /\ Wanted(ev[w], req[w].seats, idx[w])
                = Wanted(ev[w], req[w].seats, idx[w] - 1) \cup {k}
<1> DEFINE seat == req[w].seats[idx[w]]
           k == SeatIndex(list[ev[w]].cols, seat[1], seat[2])
<1>1. TypeOK
  BY DEF IInv, Typed
<1>2. pc[w] = "reserve_write" /\ idx[w] <= Len(req[w].seats)
      /\ data' = [data EXCEPT ![ev[w]][k] = rid[w]]
  BY DEF ReserveWrite
<1>3. Written(w)
  BY DEF SeatInv
<1>4. ev[w] \in Positions /\ req[w] \in ReserveRequests /\ idx[w] \in Nat
  BY <1>2, Reserving
<1>5. Len(req[w].seats) \in Nat
  BY <1>4, RequestSeats
<1>6. AllInBounds(w) /\ idx[w] \in 1 .. Len(req[w].seats)
      /\ \A i \in AllWanted(w) : data[ev[w]][i] \in {0, rid[w]}
  BY <1>2, <1>3, <1>4, <1>5 DEF Written
<1>7. k \in AllWanted(w)
  BY <1>6 DEF AllWanted, Wanted
<1>8. k \in SeatsOf(ev[w])
  BY <1>2, <1>6, <1>7, AllWantedSeats
<1>9. /\ data'[ev[w]] = [data[ev[w]] EXCEPT ![k] = rid[w]]
      /\ \A d \in Positions \ {ev[w]} : data'[d] = data[d]
  BY <1>1, <1>2, <1>4, PartsOf
<1>10. Wanted(ev[w], req[w].seats, idx[w])
         = Wanted(ev[w], req[w].seats, idx[w] - 1) \cup {k}
  <2> DEFINE n == idx[w] - 1
  <2>1. n \in Nat /\ n + 1 = idx[w]
    BY <1>4, <1>6
  <2> HIDE DEF n
  <2>2. Wanted(ev[w], req[w].seats, n + 1) = Wanted(ev[w], req[w].seats, n)
          \cup {SeatIndex(list[ev[w]].cols, req[w].seats[n + 1][1], req[w].seats[n + 1][2])}
    BY <2>1, WantedNext
  <2>3. Wanted(ev[w], req[w].seats, idx[w]) = Wanted(ev[w], req[w].seats, n) \cup {k}
    BY <2>1, <2>2
  <2> QED
    BY <2>3 DEF n
<1> QED
  BY <1>6, <1>7, <1>8, <1>9, <1>10

\* The write loop.
LEMMA WriteSeats ==
  ASSUME IInv, SeatInv, NEW w \in Workers, ReserveWrite(w)
  PROVE  SeatInv'
<1> DEFINE e == ev[w]
           r == rid[w]
<1>1. TypeOK
  BY DEF IInv, Typed
<1>2. PICK k \in AllWanted(w) :
        /\ k \in SeatsOf(e) /\ data[e][k] \in {0, r}
        /\ data'[e] = [data[e] EXCEPT ![k] = r]
        /\ \A d \in Positions \ {e} : data'[d] = data[d]
        /\ Wanted(e, req[w].seats, idx[w]) = Wanted(e, req[w].seats, idx[w] - 1) \cup {k}
  BY OneWrite
<1>3. /\ pc[w] = "reserve_write" /\ idx[w] <= Len(req[w].seats)
      /\ UNCHANGED <<list, reservations, pc, req, ev, rid, status>>
  BY DEF ReserveWrite
<1>4. /\ e \in Positions /\ req[w] \in ReserveRequests /\ reservations[e] \in Nat
      /\ data[e] \in [SeatsOf(e) -> Nat] /\ idx[w] \in Nat
  BY <1>3, Reserving
<1>5. idx'[w] = idx[w] + 1 /\ \A v \in Workers \ {w} : Still(v)
  BY <1>1, Basics DEF Still, ReserveWrite
<1>6. \A v \in Workers : Checked(v) /\ Written(v) /\ Honoured(v) /\ Begins(v)
  BY DEF SeatInv
<1>7. \A d \in Positions : Counted(d)
  BY DEF SeatInv
<1>8. \A v \in Workers \ {w} : pc[v] \in {"reserve_check", "reserve_write"} =>
        ev[v] \in Positions \ {e}
  BY <1>3, Alone, Reserving
<1>9. /\ AllInBounds(w) /\ r = reservations[e] /\ r > 0 /\ idx[w] \in 1 .. Len(req[w].seats) + 1
      /\ \A i \in SeatsOf(e) : data[e][i] = r <=> i \in Wanted(e, req[w].seats, idx[w] - 1)
      /\ \A i \in AllWanted(w) : data[e][i] \in {0, r}
  BY <1>3, <1>6 DEF Written
<1>10. \A v \in Workers : \A d : Writes(v, d)' <=> Writes(v, d)
  BY <1>3 DEF Writes
<1>11. Writes(w, e)
  BY <1>3 DEF Writes
<1>12. \A i \in SeatsOf(e) : data'[e][i] = IF i = k THEN r ELSE data[e][i]
  BY <1>2, <1>4
<1>13. \A d : SeatsOf(d)' = SeatsOf(d)
  BY <1>3 DEF SeatsOf, SizeOf
<1>14. Written(w)'
  <2>1. AllInBounds(w)' /\ AllWanted(w)' = AllWanted(w)
    BY <1>3, <1>9 DEF AllInBounds, InBounds, AllWanted, Wanted
  <2>2. idx'[w] \in 1 .. Len(req[w].seats) + 1 /\ idx'[w] - 1 = idx[w]
    <3>1. Len(req[w].seats) \in Nat
      BY <1>4, RequestSeats
    <3> QED
      BY <1>3, <1>4, <1>5, <3>1
  <2>3. Wanted(ev[w], req[w].seats, idx[w] - 1)' = Wanted(e, req[w].seats, idx[w])
    BY <1>3, <2>2 DEF Wanted
  <2>4. \A i \in SeatsOf(e) : data'[e][i] = r <=> i \in Wanted(e, req[w].seats, idx[w])
    BY <1>2, <1>9, <1>12
  <2>5. \A i \in AllWanted(w) : data'[e][i] \in {0, r}
    <3>1. AllWanted(w) \subseteq SeatsOf(e)
      BY <1>3, <1>9, AllWantedSeats
    <3> QED
      BY <1>9, <1>12, <3>1
  <2> QED
    BY <1>3, <1>9, <1>13, <2>1, <2>2, <2>3, <2>4, <2>5 DEF Written
<1>15. Checked(w)' /\ Honoured(w)' /\ Begins(w)'
  BY <1>3 DEF Checked, Honoured, IsGranted, Begins, ListLabels
<1> HIDE DEF e, r
<1>16. ASSUME NEW v \in Workers \ {w}
       PROVE  Checked(v)' /\ Written(v)' /\ Honoured(v)' /\ Begins(v)'
  <2>1. Checked(v)' /\ Written(v)' /\ Begins(v)'
    BY <1>2, <1>3, <1>5, <1>6, <1>8, OthersStay
  <2>2. ASSUME IsGranted(v)
        PROVE  /\ \A i \in SeatsOf(ev[v]) : data'[ev[v]][i] = rid[v] <=> data[ev[v]][i] = rid[v]
               /\ rid[v] <= reservations'[ev[v]]
               /\ \A u \in Workers : Writes(u, ev[v])' => rid[v] < rid'[u]
    <3>1. ev[v] \in Positions /\ rid[v] <= reservations[ev[v]] /\ rid[v] \in Nat \ {0}
          /\ \A u \in Workers : Writes(u, ev[v]) => rid[v] < rid[u]
      BY <1>1, <1>6, <2>2, LocalTypes, Basics DEF Honoured
    <3>2. CASE ev[v] # e
      BY <1>2, <1>3, <1>10, <3>1, <3>2
    <3>3. CASE ev[v] = e
      <4>1. rid[v] < r
        BY <1>11, <3>1, <3>3 DEF r
      <4>2. {i \in SeatsOf(e) : data[e][i] = rid[v]} = AllWanted(v)
        BY <1>6, <2>2, <3>3 DEF Honoured
      <4>3. \A i \in SeatsOf(e) : data'[e][i] = rid[v] <=> data[e][i] = rid[v]
        <5>1. rid[v] # r
          BY <1>4, <1>9, <3>1, <4>1
        <5>2. data[e][k] # rid[v]
          BY <1>2, <3>1, <5>1
        <5> QED
          BY <1>2, <1>12, <5>1, <5>2
      <4> QED
        BY <1>3, <1>10, <3>1, <3>3, <4>3
    <3> QED
      BY <3>2, <3>3
  <2>3. Honoured(v)'
    BY <1>3, <1>5, <1>6, <2>2, HonouredStays
  <2> QED
    BY <2>1, <2>3
<1>17. ASSUME NEW d \in Positions' PROVE Counted(d)'
  <2>1. d \in Positions /\ Counted(d)
    BY <1>3, <1>7 DEF Positions
  <2>2. CASE d # e
    BY <1>2, <1>3, <1>10, <1>13, <2>1, <2>2 DEF Counted
  <2>3. CASE d = e
    <3>1. \A i \in SeatsOf(d) : data'[d][i] <= reservations[d]
      BY <1>4, <1>9, <1>12, <2>1, <2>3 DEF Counted
    <3>2. ASSUME NEW q \in 1 .. reservations[d]
          PROVE  (\E i \in SeatsOf(d) : data'[d][i] = q) \/ q = r
      BY <1>2, <1>4, <1>9, <1>12, <2>1, <2>3, <3>2 DEF Counted
    <3>3. Writes(w, d)'
      BY <1>10, <1>11, <2>3
    <3> QED
      BY <1>3, <1>9, <1>13, <2>3, <3>1, <3>2, <3>3 DEF Counted
  <2> QED
    BY <2>2, <2>3
<1> QED
  BY <1>14, <1>15, <1>16, <1>17 DEF SeatInv

\* The RESERVE is granted: it has all its seats.
LEMMA UnlockSeats ==
  ASSUME IInv, SeatInv, NEW w \in Workers, ReserveUnlock(w)
  PROVE  SeatInv'
<1> DEFINE e == ev[w]
           r == rid[w]
<1>1. TypeOK
  BY DEF IInv, Typed
<1>2. /\ pc[w] = "reserve_write" /\ idx[w] > Len(req[w].seats)
      /\ UNCHANGED <<list, reservations, data, req, ev, idx, rid>>
      /\ pc' = [pc EXCEPT ![w] = "done"] /\ status' = [status EXCEPT ![w] = 0]
  BY DEF ReserveUnlock
<1>3. /\ e \in Positions /\ req[w] \in ReserveRequests /\ reservations[e] \in Nat
      /\ data[e] \in [SeatsOf(e) -> Nat] /\ idx[w] \in Nat
  BY <1>2, Reserving
<1>4. pc'[w] = "done" /\ \A v \in Workers \ {w} : Still(v)
  BY <1>1, <1>2, Basics DEF Still
<1>5. \A v \in Workers : Checked(v) /\ Written(v) /\ Honoured(v) /\ Begins(v)
  BY DEF SeatInv
<1>6. Len(req[w].seats) \in Nat /\ Len(req[w].seats) > 0
  BY <1>3, RequestSeats
<1>7. /\ AllInBounds(w) /\ r = reservations[e] /\ r > 0
      /\ \A i \in SeatsOf(e) : data[e][i] = r <=> i \in AllWanted(w)
  <2>1. /\ AllInBounds(w) /\ r = reservations[e] /\ r > 0 /\ idx[w] \in 1 .. Len(req[w].seats) + 1
        /\ \A i \in SeatsOf(e) : data[e][i] = r <=> i \in Wanted(e, req[w].seats, idx[w] - 1)
    BY <1>2, <1>5 DEF Written
  <2>2. idx[w] - 1 = Len(req[w].seats)
    <3>1. idx[w] > Len(req[w].seats)
      BY <1>2
    <3>2. idx[w] \in 1 .. Len(req[w].seats) + 1
      BY <2>1
    <3> QED
      BY <1>6, <3>1, <3>2
  <2>3. Wanted(e, req[w].seats, idx[w] - 1) = AllWanted(w)
    BY <2>2, Zenon DEF AllWanted
  <2> QED
    BY <2>1, <2>3
<1>8. AllWanted(w) \subseteq SeatsOf(e)
  BY <1>2, <1>7, AllWantedSeats
<1>9. \A u \in Workers, d \in Positions : Writes(u, d)' => Writes(u, d) /\ Still(u)
  BY <1>4 DEF Writes, Still
<1>10. \A u \in Workers : Writes(u, e) => u = w
  BY <1>2, Alone DEF Writes
<1>11. ~Writes(w, e)'
  BY <1>4 DEF Writes
<1>12. Honoured(w)'
  <2>1. {i \in SeatsOf(e) : data[e][i] = r} = AllWanted(w)
    BY <1>7, <1>8
  <2>2. SeatsOf(ev[w])' = SeatsOf(e) /\ AllWanted(w)' = AllWanted(w)
    BY <1>2 DEF SeatsOf, SizeOf, AllWanted, Wanted
  <2>3. {i \in SeatsOf(ev[w]) : data[ev[w]][i] = rid[w]}' = AllWanted(w)'
    BY <1>2, <2>1, <2>2
  <2>4. ev'[w] # NULL /\ rid'[w] > 0 /\ rid'[w] <= reservations'[ev'[w]]
    BY <1>2, <1>3, <1>7 DEF Positions, NULL
  <2>5. \A u \in Workers : ~Writes(u, ev[w])'
    BY <1>2, <1>3, <1>9, <1>10, <1>11 DEF Writes
  <2> QED
    BY <2>3, <2>4, <2>5 DEF Honoured
<1>13. Checked(w)' /\ Written(w)' /\ Begins(w)'
  BY <1>4 DEF Checked, Written, Begins, ListLabels
<1> HIDE DEF e, r
<1>14. ASSUME NEW v \in Workers \ {w}
       PROVE  Checked(v)' /\ Written(v)' /\ Honoured(v)' /\ Begins(v)'
  <2>1. Checked(v)' /\ Written(v)' /\ Begins(v)'
    BY <1>2, <1>4, <1>5, OthersStay
  <2>2. IsGranted(v) => ev[v] \in Positions
    BY <1>1, <1>5, LocalTypes, Basics DEF Honoured
  <2>3. ASSUME IsGranted(v), NEW u \in Workers, Writes(u, ev[v])'
        PROVE  rid[v] < rid'[u]
    BY <1>2, <1>5, <1>9, <2>2, <2>3 DEF Honoured
  <2>4. Honoured(v)'
    BY <1>2, <1>4, <1>5, <2>3, HonouredStays DEF Honoured
  <2> QED
    BY <2>1, <2>4
<1>15. ASSUME NEW d \in Positions' PROVE Counted(d)'
  <2>1. d \in Positions /\ Counted(d) /\ SeatsOf(d)' = SeatsOf(d)
    BY <1>2 DEF SeatInv, Positions, SeatsOf, SizeOf
  <2>2. CASE d # e
    <3>1. \A u \in Workers : Writes(u, d) => Writes(u, d)'
      BY <1>2, <1>4, <2>2 DEF Writes, Still, e
    <3> QED
      BY <1>2, <2>1, <3>1 DEF Counted
  <2>3. CASE d = e
    <3>1. \E i \in SeatsOf(e) : data[e][i] = reservations[e]
      <4>1. SeatIndex(list[e].cols, req[w].seats[1][1], req[w].seats[1][2]) \in AllWanted(w)
        BY <1>6 DEF AllWanted, Wanted, e
      <4> QED
        BY <1>7, <1>8, <4>1
    <3> QED
      BY <1>2, <2>1, <2>3, <3>1 DEF Counted
  <2> QED
    BY <2>2, <2>3
<1> QED
  BY <1>12, <1>13, <1>14, <1>15 DEF SeatInv

\* A new event has no reservation.
LEMMA LinkSeats ==
  ASSUME IInv, SeatInv, NEW w \in Workers, CreateLink(w)
  PROVE  SeatInv'
<1>1. TypeOK
  BY DEF IInv, Typed
<1>2. /\ \A d \in Positions' \ Positions :
           reservations'[d] = 0 /\ \A i \in SeatsOf(d)' : data'[d][i] = 0
      /\ \A d \in Positions : /\ list'[d] = list[d] /\ reservations'[d] = reservations[d]
                              /\ data'[d] = data[d]
  BY Linked
<1>3. /\ pc[w] = "create_append" /\ pc' = [pc EXCEPT ![w] = "create_count"]
      /\ UNCHANGED <<req, ev, idx, rid, status>>
  BY DEF CreateLink
<1>4. pc'[w] = "create_count" /\ \A v \in Workers \ {w} : Still(v)
  BY <1>1, <1>3, Basics DEF Still
<1>5. \A v \in Workers : Checked(v) /\ Written(v) /\ Honoured(v) /\ Begins(v)
  BY DEF SeatInv
<1>6. \A u \in Workers : \A d : Writes(u, d)' <=> Writes(u, d)
  BY <1>3, <1>4 DEF Writes, Still
<1>7. \A d \in Positions : SeatsOf(d)' = SeatsOf(d)
  BY <1>2 DEF SeatsOf, SizeOf
<1>8. Checked(w)' /\ Written(w)' /\ Honoured(w)' /\ Begins(w)'
  BY <1>4 DEF Checked, Written, Honoured, IsGranted, Begins, ListLabels
<1>9. ASSUME NEW v \in Workers \ {w}
      PROVE  Checked(v)' /\ Written(v)' /\ Honoured(v)' /\ Begins(v)'
  <2>1. pc'[v] = pc[v]
    BY <1>4 DEF Still
  <2>2. ASSUME ev[v] \in Positions
        PROVE  /\ data'[ev[v]] = data[ev[v]] /\ reservations'[ev[v]] = reservations[ev[v]]
               /\ SeatsOf(ev[v])' = SeatsOf(ev[v]) /\ AllWanted(v)' = AllWanted(v)
               /\ AllInBounds(v)' <=> AllInBounds(v)
               /\ Wanted(ev[v], req[v].seats, idx[v] - 1)' = Wanted(ev[v], req[v].seats, idx[v] - 1)
    BY <1>2, <1>3, <1>7, <2>2 DEF AllWanted, Wanted, AllInBounds, InBounds
  <2>3. pc[v] \in {"reserve_check", "reserve_write"} => ev[v] \in Positions
    BY Reserving
  <2>4. Checked(v)'
    BY <1>3, <1>5, <2>1, <2>2, <2>3 DEF Checked
  <2>5. Written(v)'
    <3> SUFFICES ASSUME pc[v] = "reserve_write" PROVE Written(v)'
      BY <2>1 DEF Written
    <3>1. ev[v] \in Positions
      BY <2>3
    <3> QED
      BY <1>3, <1>5, <2>1, <2>2, <3>1 DEF Written
  <2>6. Honoured(v)'
    <3> SUFFICES ASSUME IsGranted(v) PROVE Honoured(v)'
      BY <1>3, <2>1 DEF Honoured, IsGranted
    <3>1. ev[v] \in Positions
      BY <1>1, <1>5, LocalTypes, Basics DEF Honoured
    <3>2. {i \in SeatsOf(ev[v]) : data[ev[v]][i] = rid[v]}' = AllWanted(v)'
      BY <1>3, <1>5, <2>2, <3>1 DEF Honoured
    <3>3. \A u \in Workers : Writes(u, ev[v])' => rid'[v] < rid'[u]
      BY <1>3, <1>5, <1>6, <3>1 DEF Honoured, Writes
    <3> QED
      BY <1>3, <1>5, <2>2, <3>1, <3>2, <3>3 DEF Honoured
  <2> QED
    BY <1>3, <1>5, <2>1, <2>4, <2>5, <2>6 DEF Begins
<1>10. ASSUME NEW d \in Positions' PROVE Counted(d)'
  <2>1. CASE d \in Positions
    <3>1. Counted(d)
      BY <2>1 DEF SeatInv
    <3> QED
      BY <1>2, <1>6, <1>7, <2>1, <3>1 DEF Counted
  <2>2. CASE d \notin Positions
    <3>1. reservations'[d] = 0 /\ \A i \in SeatsOf(d)' : data'[d][i] = 0
      BY <1>2, <2>2
    <3> QED
      BY <3>1 DEF Counted
  <2> QED
    BY <2>1, <2>2
<1> QED
  BY <1>8, <1>9, <1>10 DEF SeatInv

----------------------------------------------------------------------------
(* The theorems.                                                           *)

\* At first there is no event and no request.
LEMMA InitSeats == Init => SeatInv
<1> SUFFICES ASSUME Init PROVE SeatInv
  OBVIOUS
<1>1. Positions = {}
  BY DEF Init, Positions
<1>2. \A w \in Workers : pc[w] = "idle" /\ idx[w] = 0
  BY DEF Init, Threads
<1>3. ASSUME NEW w \in Workers PROVE Checked(w) /\ Written(w) /\ Honoured(w) /\ Begins(w)
  BY <1>2 DEF Checked, Written, Honoured, IsGranted, Begins, ListLabels
<1> QED
  BY <1>1, <1>3 DEF SeatInv

\* Every step of every thread preserves the invariant.
LEMMA NextSeats ==
  ASSUME IInv, SeatInv, [Next]_vars
  PROVE  SeatInv'
<1>1. ASSUME NEW w \in Workers, Reserve(w) PROVE SeatInv'
  <2>1. CASE ReserveLock(w) \/ ReserveFind(w) \/ ReserveMutex(w)
    BY <2>1, ReserveQuiet
  <2>2. CASE ReserveBounds(w) \/ ReserveCheck(w)
    BY <2>2, ReserveQuiet, CheckSeats
  <2>3. CASE ReserveId(w) \/ ReserveWrite(w) \/ ReserveUnlock(w)
    BY <2>3, IdSeats, WriteSeats, UnlockSeats
  <2> QED
    BY <1>1, <2>1, <2>2, <2>3 DEF Reserve
<1>2. ASSUME NEW w \in Workers, Create(w) PROVE SeatInv'
  BY <1>2, CreateSeats, LinkSeats
<1>3. ASSUME NEW w \in Workers, Call(w) \/ Run(w) PROVE SeatInv'
  BY <1>1, <1>2, <1>3, CallSeats, ShowSeats, ListSeats, ReplySeats DEF Run
<1>4. CASE Dump
  BY <1>4, DumpSeats
<1>5. CASE Quiet \/ UNCHANGED vars
  <2>1. UNCHANGED <<list, reservations, data, pc, req, ev, idx, rid, status>>
    BY <1>5 DEF Quiet, vars
  <2>2. \A w \in Workers : Still(w)
    BY <2>1 DEF Still
  <2> QED
    BY <2>1, <2>2, QuietStep
<1> QED
  BY <1>3, <1>4, <1>5 DEF Next

\* What ems_reserve has checked and written at each point, and what a granted
\* reservation has, whatever the other threads do.
THEOREM SeatInvariance == Spec => [](IInv /\ SeatInv)
<1>1. Init => IInv /\ SeatInv
  BY InitInv, InitSeats
<1>2. IInv /\ SeatInv /\ [Next]_vars => (IInv /\ SeatInv)'
  BY NextInv, NextSeats
<1> QED
  BY <1>1, <1>2, PTL DEF Spec

\* While nobody writes the seats of an event, their owners are the reservations
\* it has counted.
LEMMA OwnersCounted ==
  ASSUME IInv, SeatInv, NEW e \in Positions, \A w \in Workers : ~Writes(w, e)
  PROVE  Owners(e) = 1 .. reservations[e]
<1>1. TypeOK
  BY DEF IInv, Typed
<1>2. reservations[e] \in Nat /\ data[e] \in [SeatsOf(e) -> Nat]
  BY <1>1, NodeTypes
<1>3. /\ \A i \in SeatsOf(e) : data[e][i] \in Nat /\ data[e][i] <= reservations[e]
      /\ \A r \in 1 .. reservations[e] : \E i \in SeatsOf(e) : data[e][i] = r
  BY <1>2 DEF SeatInv, Counted
<1>4. Owners(e) \subseteq 1 .. reservations[e]
  BY <1>2, <1>3 DEF Owners
<1>5. 1 .. reservations[e] \subseteq Owners(e)
  BY <1>2, <1>3 DEF Owners
<1> QED
  BY <1>4, <1>5

\* Refused or granted, a RESERVE of ems_reserve is all or nothing: when no
\* thread is in the critical section of an event, the owners of its seats are
\* the reservations it has counted.
THEOREM ReservesAreAtomic == Spec => []AllOrNothing
<1>1. ASSUME IInv, SeatInv PROVE AllOrNothing
  <2> SUFFICES ASSUME NEW e \in Positions, mutex[e] = NoThread
               PROVE  Owners(e) = 1 .. reservations[e]
    BY DEF AllOrNothing
  <2>1. TypeOK
    BY <1>1 DEF IInv, Typed
  <2>2. \A w \in Workers : ~Writes(w, e)
    BY <1>1, <2>1, Basics DEF IInv, MutexInv, MutexHeld, Writes
  <2> QED
    BY <1>1, <2>2, OwnersCounted
<1>2. IInv /\ SeatInv => AllOrNothing
  BY <1>1
<1> QED
  BY <1>2, SeatInvariance, PTL

\* The answer 0 of ems_reserve is kept: until the client's next request it owns
\* the seats it asked for and no other.
THEOREM AnswersAreKept == Spec => []ReservationHonoured
<1>1. IInv /\ SeatInv => ReservationHonoured
  BY DEF SeatInv, Honoured, IsGranted, AllWanted, ReservationHonoured
<1> QED
  BY <1>1, SeatInvariance, PTL

\* A step changes a seat only if it is free, or to what it is already.
LEMMA FinalStep ==
  ASSUME IInv, SeatInv, Next, NEW e \in Positions, NEW i \in SeatsOf(e), data[e][i] # 0
  PROVE  data'[e][i] = data[e][i]
<1>1. CASE UNCHANGED data
  BY <1>1
<1>2. ASSUME NEW w \in Workers, CreateLink(w) PROVE data'[e][i] = data[e][i]
  BY <1>2, Linked
<1>3. ASSUME NEW w \in Workers, ReserveWrite(w) PROVE data'[e][i] = data[e][i]
  <2>1. PICK k \in AllWanted(w) :
          /\ k \in SeatsOf(ev[w]) /\ data[ev[w]][k] \in {0, rid[w]}
          /\ data'[ev[w]] = [data[ev[w]] EXCEPT ![k] = rid[w]]
          /\ \A d \in Positions \ {ev[w]} : data'[d] = data[d]
    BY <1>3, OneWrite
  <2>2. data[ev[w]] \in [SeatsOf(ev[w]) -> Nat]
    BY <1>3, Reserving DEF ReserveWrite
  <2>3. CASE e # ev[w]
    BY <2>1, <2>3
  <2>4. CASE e = ev[w]
    BY <2>1, <2>2, <2>4
  <2> QED
    BY <2>3, <2>4
<1>4. ASSUME NEW w \in Workers, Call(w) \/ Run(w), ~CreateLink(w), ~ReserveWrite(w)
      PROVE  UNCHANGED data
  <2>1. CASE Call(w) \/ Reply(w)
    BY <2>1 DEF Call, Reply
  <2>2. CASE Create(w)
    BY <1>4, <2>2 DEF Create, CreateLock, CreateFind, CreateFail, CreateCount
  <2>3. CASE Reserve(w)
    BY <1>4, <2>3 DEF Reserve, ReserveLock, ReserveFind, ReserveMutex, ReserveBounds,
       ReserveCheck, ReserveId, ReserveUnlock
  <2>4. CASE Show(w) \/ List(w)
    BY <2>4 DEF Show, ShowLock, ShowFind, ShowSize, ShowSeat, ShowEnd, ShowFail, List,
       ListLock, ListCount, ListId, ListFail
  <2> QED
    BY <1>4, <2>1, <2>2, <2>3, <2>4 DEF Run
<1>5. Dump \/ Quiet => UNCHANGED data
  BY DEF Dump, DumpLock, DumpEmpty, DumpStart, DumpMutex, DumpSeat, DumpNext, Quiet, vars
<1> QED
  BY <1>1, <1>2, <1>3, <1>4, <1>5 DEF Next

\* No step of any thread takes a reserved seat away: the check of ems_reserve is
\* still true when its write loop writes.
THEOREM SeatsStayReserved == Spec => SeatsAreFinal
<1> DEFINE Final == \A e \in Positions : \A i \in SeatsOf(e) :
                      data[e][i] # 0 => data'[e][i] = data[e][i]
<1>1. IInv /\ SeatInv /\ [Next]_vars => [Final]_vars
  BY FinalStep
<1> HIDE DEF Final
<1>2. Spec => [][Final]_vars
  BY <1>1, SeatInvariance, PTL DEF Spec
<1> QED
  BY <1>2 DEF SeatsAreFinal, Final

----------------------------------------------------------------------------
(* The invariant of the answers, on top of IInv and SeatInv.               *)

\* A local that the operation has not used yet is as the last Reply left it.
Fresh(w) ==
  /\ pc[w] # "done" => status[w] = 0
  /\ pc[w] \notin {"reserve_write", "done"} => rid[w] = 0
  /\ pc[w] \notin {"show_data", "list_ids", "done"} => out[w] = << >>
  /\ pc[w] \in {"idle", "show", "show_find"} => ev[w] = NULL
  /\ pc[w] \in {"idle", "show", "show_find", "show_size"} => idx[w] = 0
  /\ pc[w] = "idle" => req[w] = NoRequest

\* RESERVE works on the event its request names.
Named(w) ==
  pc[w] \in {"reserve_lock", "reserve_bounds", "reserve_check"} =>
    list[ev[w]].id = req[w].id

\* SHOW has sent the size and the seats before idx.
ShowSent(w) ==
  At(w, "show_data") =>
    /\ idx[w] <= SizeOf(ev[w]) /\ Len(out[w]) = idx[w] + 2
    /\ \A i \in 0 .. idx[w] - 1 : out[w][i + 3] \in {0, data[ev[w]][i]}

\* LIST has sent the length of the list and the ids before its node; nobody
\* can append while it holds the read lock.
ListSent(w) ==
  At(w, "list_ids") =>
    /\ last[w] = Len(list) /\ Len(out[w]) = ev[w] /\ out[w][1] = Len(list)
    /\ \A j \in 1 .. ev[w] - 1 : out[w][j + 1] = list[j].id

\* A LIST that has ended named the events there were then.
ListDone(w) ==
  At(w, "done") /\ req[w].op = "list" /\ status[w] = 0 =>
    /\ out[w][1] \in 0 .. Len(list) /\ Len(out[w]) = out[w][1] + 1
    /\ \A j \in 1 .. out[w][1] : out[w][j + 1] = list[j].id

Told(w) == Fresh(w) /\ Named(w) /\ ShowSent(w) /\ ListSent(w) /\ ListDone(w)

\* The main thread has printed the seats before idx, as they still are: it
\* holds the event's mutex.
Printed ==
  At(Main, "dump_seats") =>
    /\ idx[Main] <= SizeOf(ev[Main]) /\ Len(out[Main]) = idx[Main]
    /\ \A j \in 1 .. idx[Main] : out[Main][j] = data[ev[Main]][j - 1]

AnswerInv == (\A w \in Workers : Told(w)) /\ Printed

----------------------------------------------------------------------------
(* Facts the steps rest on.                                                *)

\* The list only grows, and only while nobody holds the read lock.
LEMMA Grows ==
  ASSUME IInv, Next
  PROVE  /\ Positions \subseteq Positions' /\ Len(list) <= Len(list')
         /\ \A e \in Positions : /\ list'[e] = list[e] /\ SizeOf(e)' = SizeOf(e)
                                 /\ SeatsOf(e)' = SeatsOf(e)
         /\ readers # {} => list' = list
<1>0. TypeOK
  BY DEF IInv, Typed
<1>1. CASE list' = list
  BY <1>0, <1>1, Basics DEF Positions, SizeOf, SeatsOf
<1>2. ASSUME NEW w \in Workers, CreateLink(w)
      PROVE  /\ Positions \subseteq Positions' /\ Len(list) <= Len(list')
             /\ \A e \in Positions : list'[e] = list[e]
             /\ readers = {}
  <2>1. Positions' = Positions \cup {Len(list) + 1} /\ Len(list') = Len(list) + 1
        /\ \A e \in Positions : list'[e] = list[e]
    BY <1>2, Linked
  <2>2. w \in Threads /\ pc[w] \in WriteHeld /\ w # NoThread
    BY <1>0, <1>2, Basics DEF CreateLink, WriteHeld
  <2>3. readers = {}
    BY <2>2 DEF IInv, RwlInv
  <2> QED
    BY <1>0, <2>1, <2>3, Basics
<1>3. ASSUME NEW w \in Workers, Call(w) \/ Run(w), ~CreateLink(w)
      PROVE  list' = list
  <2>1. CASE Call(w) \/ Reply(w)
    BY <2>1 DEF Call, Reply
  <2>2. CASE Create(w)
    BY <1>3, <2>2 DEF Create, CreateLock, CreateFind, CreateFail, CreateCount
  <2>3. CASE Reserve(w)
    BY <2>3 DEF Reserve, ReserveLock, ReserveFind, ReserveMutex, ReserveBounds,
       ReserveCheck, ReserveId, ReserveWrite, ReserveUnlock
  <2>4. CASE Show(w) \/ List(w)
    BY <2>4 DEF Show, ShowLock, ShowFind, ShowSize, ShowSeat, ShowEnd, ShowFail, List,
       ListLock, ListCount, ListId, ListFail
  <2> QED
    BY <1>3, <2>1, <2>2, <2>3, <2>4 DEF Run
<1>4. Dump \/ Quiet => list' = list
  BY DEF Dump, DumpLock, DumpEmpty, DumpStart, DumpMutex, DumpSeat, DumpNext, Quiet, vars
<1>5. CASE \E w \in Workers : CreateLink(w)
  BY <1>2, <1>5 DEF SizeOf, SeatsOf
<1> QED
  BY <1>1, <1>3, <1>4, <1>5 DEF Next

\* A number sent goes to the end.
LEMMA SendOne ==
  ASSUME NEW s \in Seq(Nat), NEW n \in Nat, NEW r, r = s \o <<n>>
  PROVE  /\ Len(r) = Len(s) + 1 /\ r[Len(s) + 1] = n
         /\ \A j \in 1 .. Len(s) : r[j] = s[j]
<1>1. <<n>> \in Seq(Nat) /\ Len(<<n>>) = 1 /\ <<n>>[1] = n /\ Len(s) \in Nat
  OBVIOUS
<1> QED
  BY <1>1, ConcatProperties

\* Who writes the seats.
LEMMA DataSteps ==
  ASSUME NEW w \in Workers, Call(w) \/ Run(w)
  PROVE  UNCHANGED data \/ CreateLink(w) \/ ReserveWrite(w)
<1>1. CASE Call(w) \/ Reply(w)
  BY <1>1 DEF Call, Reply
<1>2. CASE Create(w)
  BY <1>2 DEF Create, CreateLock, CreateFind, CreateFail, CreateCount
<1>3. CASE Reserve(w)
  BY <1>3 DEF Reserve, ReserveLock, ReserveFind, ReserveMutex, ReserveBounds,
     ReserveCheck, ReserveId, ReserveUnlock
<1>4. CASE Show(w) \/ List(w)
  BY <1>4 DEF Show, ShowLock, ShowFind, ShowSize, ShowSeat, ShowEnd, ShowFail, List,
     ListLock, ListCount, ListId, ListFail
<1> QED
  BY <1>1, <1>2, <1>3, <1>4 DEF Run

\* The locals of a thread that does not move.
Same(t) == /\ pc'[t] = pc[t] /\ req'[t] = req[t] /\ ev'[t] = ev[t] /\ last'[t] = last[t]
           /\ idx'[t] = idx[t] /\ rid'[t] = rid[t] /\ out'[t] = out[t]
           /\ status'[t] = status[t]

\* One thread moves at a time.
LEMMA OneMoves ==
  ASSUME TypeOK, NEW w \in Workers, Call(w) \/ Run(w), NEW t \in Threads \ {w}
  PROVE  Same(t)
<1>1. CASE Call(w) \/ Reply(w)
  BY <1>1, Basics DEF Call, Reply, Same
<1>2. CASE Create(w)
  BY <1>2, Basics DEF Same, Create, CreateLock, CreateFind, CreateFail, CreateLink, CreateCount
<1>3. CASE Reserve(w)
  BY <1>3, Basics DEF Same, Reserve, ReserveLock, ReserveFind, ReserveMutex, ReserveBounds,
       ReserveCheck, ReserveId, ReserveWrite, ReserveUnlock
<1>4. CASE Show(w)
  BY <1>4, Basics DEF Same, Show, ShowLock, ShowFind, ShowSize, ShowSeat, ShowEnd, ShowFail
<1>5. CASE List(w)
  BY <1>5, Basics DEF Same, List, ListLock, ListCount, ListId, ListFail
<1> QED
  BY <1>1, <1>2, <1>3, <1>4, <1>5 DEF Run

\* A dump moves no worker.
LEMMA MainMoves ==
  ASSUME TypeOK, Dump, NEW w \in Workers
  PROVE  Same(w)
BY Basics DEF Same, Dump, DumpLock, DumpEmpty, DumpStart, DumpMutex, DumpSeat, DumpNext

\* A worker that does not move: seats only change when they are free, and the
\* list does not change while it reads the list.
LEMMA OthersTold ==
  ASSUME IInv, SeatInv, Next, NEW w \in Workers, Told(w), Same(w)
  PROVE  Told(w)'
<1>0. TypeOK /\ w \in Threads
  BY Basics DEF IInv, Typed
<1>1. Fresh(w)'
  BY DEF Told, Fresh, Same
<1>2. Named(w)'
  <2> SUFFICES ASSUME pc[w] \in {"reserve_lock", "reserve_bounds", "reserve_check"}
               PROVE  list'[ev[w]].id = req[w].id
    BY DEF Named, Same
  <2>1. ev[w] \in Positions
    BY <1>0, EventInUse DEF HasEvent, MutexHeld
  <2> QED
    BY <2>1, Grows DEF Told, Named
<1>3. ShowSent(w)'
  <2> SUFFICES ASSUME pc[w] = "show_data" PROVE ShowSent(w)'
    BY DEF ShowSent, Same
  <2>1. ev[w] \in Positions /\ idx[w] \in Nat
    BY <1>0, EventInUse, LocalTypes DEF HasEvent
  <2>2. SizeOf(ev[w])' = SizeOf(ev[w])
    BY <2>1, Grows DEF SizeOf, Same
  <2>3. SizeOf(ev[w]) \in Nat
    BY <1>0, <2>1, NodeTypes DEF SizeOf
  <2>4. ASSUME NEW i \in 0 .. idx[w] - 1 PROVE out[w][i + 3] \in {0, data'[ev[w]][i]}
    <3>1. i \in SeatsOf(ev[w]) /\ out[w][i + 3] \in {0, data[ev[w]][i]}
      BY <2>1, <2>3 DEF Told, ShowSent, SeatsOf
    <3>2. CASE data[ev[w]][i] = 0
      BY <3>1, <3>2
    <3>3. CASE data[ev[w]][i] # 0
      BY <2>1, <3>1, <3>3, FinalStep
    <3> QED
      BY <3>2, <3>3
  <2> QED
    BY <2>2, <2>4 DEF Told, ShowSent, Same
<1>4. ListSent(w)'
  <2> SUFFICES ASSUME pc[w] = "list_ids" PROVE ListSent(w)'
    BY DEF ListSent, Same
  <2>1. w \in readers
    BY <1>0 DEF IInv, RwlInv, ReadHeld
  <2>2. list' = list
    BY <2>1, Grows
  <2> QED
    BY <2>2 DEF Told, ListSent, Same
<1>5. ListDone(w)'
  <2> SUFFICES ASSUME pc[w] = "done", req[w].op = "list", status[w] = 0 PROVE ListDone(w)'
    BY DEF ListDone, Same
  <2>1. out[w][1] \in 0 .. Len(list') /\ out[w][1] \in 0 .. Len(list) /\ Len(list) \in Nat
    BY <1>0, Grows, Basics DEF Told, ListDone
  <2>2. \A j \in 1 .. out[w][1] : j \in Positions
    BY <2>1 DEF Positions
  <2>3. \A j \in 1 .. out[w][1] : list'[j] = list[j]
    BY <2>2, Grows
  <2> QED
    BY <2>1, <2>3 DEF Told, ListDone, Same
<1> QED
  BY <1>1, <1>2, <1>3, <1>4, <1>5 DEF Told

----------------------------------------------------------------------------
(* Every step preserves the invariant.                                     *)

\* A request that begins finds its locals unused; one that is answered leaves
\* them so.
LEMMA CallTold ==
  ASSUME IInv, NEW w \in Workers, Told(w), Call(w) \/ Reply(w)
  PROVE  Told(w)'
<1>0. TypeOK /\ w \in Threads
  BY Basics DEF IInv, Typed
<1>1. CASE Call(w)
  <2>1. PICK r \in Requests : req' = [req EXCEPT ![w] = r] /\ pc' = [pc EXCEPT ![w] = r.op]
    BY <1>1 DEF Call
  <2>2. pc'[w] \in {"create", "reserve", "show", "list"} /\ pc[w] = "idle"
    BY <1>0, <1>1, <2>1, Basics, RequestKinds DEF Call
  <2>3. UNCHANGED <<ev, last, idx, rid, out, status>>
    BY <1>1 DEF Call
  <2> QED
    BY <2>2, <2>3 DEF Told, Fresh, Named, ShowSent, ListSent, ListDone
<1>2. CASE Reply(w)
  <2>1. /\ pc'[w] = "idle" /\ req'[w] = NoRequest /\ ev'[w] = NULL /\ idx'[w] = 0
        /\ rid'[w] = 0 /\ out'[w] = << >> /\ status'[w] = 0
    BY <1>0, <1>2, Basics DEF Reply
  <2> QED
    BY <2>1 DEF Told, Fresh, Named, ShowSent, ListSent, ListDone
<1> QED
  BY <1>1, <1>2

\* A CREATE sends nothing but its status.
LEMMA CreateTold ==
  ASSUME IInv, NEW w \in Workers, Told(w), Create(w)
  PROVE  Told(w)'
<1>0. TypeOK /\ w \in Threads
  BY Basics DEF IInv, Typed
<1>1. pc[w] \in CreateLabels /\ UNCHANGED <<req, ev, last, idx, rid, out>>
  BY DEF Create, CreateLock, CreateFind, CreateFail, CreateLink, CreateCount, CreateLabels
<1>2. \/ pc'[w] \in CreateLabels /\ status'[w] = status[w]
      \/ pc'[w] = "done"
  BY <1>0, Basics DEF Create, CreateLock, CreateFind, CreateFail, CreateLink, CreateCount,
     CreateLabels
<1>3. req[w].op = "create"
  BY <1>1 DEF IInv, CallInv, CreateRequests
<1> QED
  BY <1>1, <1>2, <1>3
     DEF Told, Fresh, Named, ShowSent, ListSent, ListDone, CreateLabels

\* A RESERVE finds its event by its id, and sends nothing but its status.
LEMMA ReserveTold ==
  ASSUME IInv, NEW w \in Workers, Told(w), Reserve(w)
  PROVE  Told(w)'
<1>0. TypeOK /\ w \in Threads /\ UniqueIds
  BY Basics DEF IInv, Typed, ListInv
<1>1. pc[w] \in ReserveLabels /\ UNCHANGED <<list, req, last, out>>
  BY DEF Reserve, ReserveLock, ReserveFind, ReserveMutex, ReserveBounds, ReserveCheck,
     ReserveId, ReserveWrite, ReserveUnlock, ReserveLabels
<1>2. req[w].op = "reserve"
  BY <1>1 DEF IInv, CallInv, ReserveRequests
<1>3. \/ pc'[w] \in ReserveLabels /\ status'[w] = status[w]
      \/ pc'[w] = "done"
  BY <1>0, Basics DEF Reserve, ReserveLock, ReserveFind, ReserveMutex, ReserveBounds,
     ReserveCheck, ReserveId, ReserveWrite, ReserveUnlock, ReserveLabels
<1>4. rid'[w] = rid[w] \/ pc'[w] = "reserve_write"
  BY <1>0, Basics DEF Reserve, ReserveLock, ReserveFind, ReserveMutex, ReserveBounds,
     ReserveCheck, ReserveId, ReserveWrite, ReserveUnlock
<1>5. pc[w] = "reserve_write" => pc'[w] \in {"reserve_write", "done"}
  BY <1>0, Basics DEF Reserve, ReserveLock, ReserveFind, ReserveMutex, ReserveBounds,
     ReserveCheck, ReserveId, ReserveWrite, ReserveUnlock
<1>6. Fresh(w)'
  BY <1>1, <1>3, <1>4, <1>5 DEF Told, Fresh, ReserveLabels
<1>7. Named(w)'
  <2>1. CASE ReserveFind(w)
    <3>1. ev'[w] = GetEvent(req[w].id) /\ (ev'[w] # NULL \/ pc'[w] = "done")
      BY <1>0, <2>1, Basics DEF ReserveFind
    <3> QED
      BY <1>0, <1>1, <3>1, GetEventFinds DEF Named
  <2>2. CASE ~ReserveFind(w)
    <3>1. ev'[w] = ev[w]
      BY <2>2 DEF Reserve, ReserveLock, ReserveMutex, ReserveBounds, ReserveCheck,
         ReserveId, ReserveWrite, ReserveUnlock
    <3>2. pc'[w] \in {"reserve_lock", "reserve_bounds", "reserve_check"} =>
            pc[w] \in {"reserve_lock", "reserve_bounds", "reserve_check"}
      BY <1>0, <2>2, Basics DEF Reserve, ReserveLock, ReserveMutex, ReserveBounds,
         ReserveCheck, ReserveId, ReserveWrite, ReserveUnlock
    <3> QED
      BY <1>1, <3>1, <3>2 DEF Told, Named
  <2> QED
    BY <2>1, <2>2
<1>8. ShowSent(w)' /\ ListSent(w)' /\ ListDone(w)'
  BY <1>1, <1>2, <1>3 DEF ShowSent, ListSent, ListDone, ReserveLabels
<1> QED
  BY <1>6, <1>7, <1>8 DEF Told

\* A SHOW sends the size of its event, then what it reads of each seat.
LEMMA ShowTold ==
  ASSUME IInv, NEW w \in Workers, Told(w), Show(w)
  PROVE  Told(w)'
<1>0. TypeOK /\ w \in Threads
  BY Basics DEF IInv, Typed
<1>1. pc[w] \in ShowLabels /\ UNCHANGED <<list, data, req, last, rid>>
  BY DEF Show, ShowLock, ShowFind, ShowSize, ShowSeat, ShowEnd, ShowFail, ShowLabels
<1>2. req[w].op = "show"
  BY <1>1 DEF IInv, CallInv, ShowRequests
<1>3. \/ pc'[w] \in ShowLabels /\ status'[w] = status[w]
      \/ pc'[w] = "done"
  BY <1>0, Basics DEF Show, ShowLock, ShowFind, ShowSize, ShowSeat, ShowEnd, ShowFail, ShowLabels
<1>4. Named(w)' /\ ListSent(w)' /\ ListDone(w)'
  BY <1>1, <1>2, <1>3 DEF Named, ListSent, ListDone, ShowLabels
<1>5. Fresh(w)'
  <2>1. CASE ShowLock(w)
    BY <1>0, <1>1, <2>1, Basics DEF ShowLock, Told, Fresh
  <2>2. CASE ShowFind(w)
    BY <1>0, <1>1, <1>3, <2>2, Basics DEF ShowFind, Told, Fresh, ShowLabels
  <2>3. CASE ShowSize(w) \/ ShowSeat(w)
    BY <1>0, <1>1, <2>3, Basics DEF ShowSize, ShowSeat, Told, Fresh
  <2>4. CASE ShowEnd(w) \/ ShowFail(w)
    BY <1>0, <1>1, <2>4, Basics DEF ShowEnd, ShowFail, Told, Fresh
  <2> QED
    BY <2>1, <2>2, <2>3, <2>4 DEF Show
<1>6. ShowSent(w)'
  <2>1. CASE ShowSize(w)
    <3>1. ev[w] \in Positions /\ ev'[w] = ev[w] /\ idx'[w] = 0
      BY <1>0, <2>1, EventInUse DEF ShowSize, HasEvent, Told, Fresh
    <3>2. SizeOf(ev[w])' = SizeOf(ev[w]) /\ SizeOf(ev[w]) \in Nat
      BY <1>0, <1>1, <3>1, NodeTypes DEF SizeOf
    <3>3. out[w] = << >> /\ out'[w] = << >> \o <<list[ev[w]].rows, list[ev[w]].cols>>
      BY <1>0, <2>1, Basics DEF ShowSize, Told, Fresh
    <3>4. Len(out'[w]) = 2
      BY <3>3
    <3> QED
      BY <3>1, <3>2, <3>4 DEF ShowSent
  <2>2. CASE ShowSeat(w)
    <3>1. ev[w] \in Positions /\ ev'[w] = ev[w] /\ idx[w] \in SeatsOf(ev[w])
          /\ idx'[w] = idx[w] + 1 /\ pc[w] = "show_data" /\ idx[w] \in Nat
      BY <1>0, <2>2, EventInUse, LocalTypes, Basics DEF ShowSeat, HasEvent
    <3>2. SizeOf(ev[w])' = SizeOf(ev[w]) /\ SizeOf(ev[w]) \in Nat
      BY <1>0, <1>1, <3>1, NodeTypes DEF SizeOf
    <3>3. out'[w] = out[w] \o <<data[ev[w]][idx[w]]>>
      BY <1>0, <2>2, Basics DEF ShowSeat
    <3>4. out[w] \in Seq(Nat) /\ data[ev[w]][idx[w]] \in Nat /\ Len(out[w]) = idx[w] + 2
      BY <1>0, <3>1, LocalTypes, NodeTypes DEF Told, ShowSent
    <3>5. Len(out'[w]) = idx[w] + 3 /\ out'[w][idx[w] + 3] = data[ev[w]][idx[w]]
          /\ \A j \in 1 .. idx[w] + 2 : out'[w][j] = out[w][j]
      <4>1. /\ Len(out'[w]) = Len(out[w]) + 1
            /\ out'[w][Len(out[w]) + 1] = data[ev[w]][idx[w]]
            /\ \A j \in 1 .. Len(out[w]) : out'[w][j] = out[w][j]
        <5>1. PICK n \in Nat : n = data[ev[w]][idx[w]]
          BY <3>4
        <5>2. out[w] \in Seq(Nat) /\ out'[w] = out[w] \o <<n>>
          BY <3>3, <3>4, <5>1
        <5> QED
          BY <5>1, <5>2, SendOne
      <4>2. Len(out[w]) = idx[w] + 2 /\ Len(out[w]) + 1 = idx[w] + 3
        BY <3>1, <3>4
      <4> QED
        BY <4>1, <4>2
    <3>6. ASSUME NEW i \in 0 .. idx'[w] - 1 PROVE out'[w][i + 3] \in {0, data[ev[w]][i]}
      <4>1. CASE i = idx[w]
        <5>1. i + 3 = idx[w] + 3
          BY <4>1
        <5> QED
          BY <3>5, <4>1, <5>1
      <4>2. CASE i # idx[w]
        <5>1. i \in 0 .. idx[w] - 1 /\ i + 3 \in 1 .. idx[w] + 2
          BY <3>1, <4>2
        <5>2. out[w][i + 3] \in {0, data[ev[w]][i]}
          BY <3>1, <5>1 DEF Told, ShowSent
        <5> QED
          BY <3>5, <5>1, <5>2
      <4> QED
        BY <4>1, <4>2
    <3> QED
      BY <1>1, <3>1, <3>2, <3>5, <3>6 DEF ShowSent, SeatsOf
  <2>3. CASE ShowLock(w) \/ ShowFind(w) \/ ShowEnd(w) \/ ShowFail(w)
    BY <1>0, <2>3, Basics DEF ShowLock, ShowFind, ShowEnd, ShowFail, ShowSent
  <2> QED
    BY <2>1, <2>2, <2>3 DEF Show
<1> QED
  BY <1>4, <1>5, <1>6 DEF Told

\* Under the read lock event_num is the length of the list.
LEMMA CountUnderLock ==
  ASSUME IInv, NEW w \in Workers, pc[w] \in {"list_count", "list_ids"}
  PROVE  event_num = Len(list)
<1>0. TypeOK /\ w \in Threads
  BY Basics DEF IInv, Typed
<1>1. w \in readers
  BY <1>0 DEF IInv, RwlInv, ReadHeld
<1>2. \A v \in Workers : ~At(v, "create_count")
  BY <1>0, <1>1, Basics DEF IInv, RwlInv, WriteHeld
<1> QED
  BY <1>0, <1>2 DEF IInv, ListInv, CountInv, TypeOK, EventsOK

\* A LIST counts the events and walks to the tail that is still the last.
LEMMA ListTold ==
  ASSUME IInv, SeatInv, NEW w \in Workers, Told(w), List(w)
  PROVE  Told(w)'
<1>0. TypeOK /\ w \in Threads
  BY Basics DEF IInv, Typed
<1>1. pc[w] \in ListLabels /\ UNCHANGED <<list, data, req, idx, rid>>
  BY DEF List, ListLock, ListCount, ListId, ListFail, ListLabels
<1>2. (pc'[w] \in ListLabels /\ status'[w] = status[w]) \/ pc'[w] = "done"
  BY <1>0, Basics DEF List, ListLock, ListCount, ListId, ListFail, ListLabels
<1>3. Named(w)' /\ ShowSent(w)'
  BY <1>2 DEF Named, ShowSent, ListLabels
<1>4. Fresh(w)'
  <2>1. pc'[w] = "list_count" => out'[w] = out[w] /\ pc[w] = "list"
    BY <1>0, Basics DEF List, ListLock, ListCount, ListId, ListFail
  <2>2. pc'[w] # "list"
    BY <1>0, Basics DEF List, ListLock, ListCount, ListId, ListFail
  <2> QED
    BY <1>1, <1>2, <2>1, <2>2 DEF Told, Fresh, ListLabels
<1>5. ListSent(w)' /\ ListDone(w)'
  <2>1. CASE ListLock(w)
    BY <1>0, <2>1, Basics DEF ListLock, ListSent, ListDone
  <2>2. CASE ListFail(w)
    BY <1>0, <2>2, Basics DEF ListFail, ListSent, ListDone
  <2>3. CASE ListCount(w)
    <3>1. event_num = Len(list) /\ Len(list) \in Nat
      BY <1>0, <2>3, CountUnderLock, Basics DEF ListCount
    <3>2. out[w] = << >>
      BY <2>3 DEF ListCount, Told, Fresh
    <3>3. out'[w] = << >> \o <<event_num>>
      BY <1>0, <2>3, <3>2, Basics DEF ListCount
    <3>4. Len(out'[w]) = 1 /\ out'[w][1] = Len(list)
      BY <3>1, <3>3
    <3>5. CASE event_num = 0
      <4>1. pc'[w] = "done"
        BY <1>0, <2>3, <3>5, Basics DEF ListCount
      <4> QED
        BY <1>1, <3>1, <3>4, <3>5, <4>1 DEF ListSent, ListDone
    <3>6. CASE event_num # 0
      <4>1. pc'[w] = "list_ids" /\ ev'[w] = 1 /\ last'[w] = Len(list)
        BY <1>0, <2>3, <3>6, Basics DEF ListCount
      <4> QED
        BY <1>1, <3>1, <3>4, <4>1 DEF ListSent, ListDone
    <3> QED
      BY <3>5, <3>6
  <2>4. CASE ListId(w)
    <3>1. /\ last[w] = Len(list) /\ Len(out[w]) = ev[w] /\ out[w][1] = Len(list)
          /\ \A j \in 1 .. ev[w] - 1 : out[w][j + 1] = list[j].id
      BY <2>4 DEF ListId, Told, ListSent
    <3>2. ev[w] \in Positions /\ Len(list) \in Nat /\ last'[w] = last[w]
      BY <1>0, <2>4, EventInUse, Basics DEF ListId, HasEvent
    <3>3. list[ev[w]].id \in Nat /\ out[w] \in Seq(Nat)
      BY <1>0, <3>2, NodeTypes, LocalTypes, IdsAssumption
    <3>4. out'[w] = out[w] \o <<list[ev[w]].id>>
      BY <1>0, <2>4, Basics DEF ListId
    <3>5. /\ Len(out'[w]) = ev[w] + 1 /\ out'[w][ev[w] + 1] = list[ev[w]].id
          /\ \A j \in 1 .. ev[w] : out'[w][j] = out[w][j]
      <4>1. /\ Len(out'[w]) = Len(out[w]) + 1
            /\ out'[w][Len(out[w]) + 1] = list[ev[w]].id
            /\ \A j \in 1 .. Len(out[w]) : out'[w][j] = out[w][j]
        BY <3>3, <3>4, SendOne
      <4> QED
        BY <3>1, <4>1
    <3>6. ev[w] \in 1 .. Len(list)
      BY <3>2 DEF Positions
    <3>7. out'[w][1] = Len(list) /\ \A j \in 1 .. ev[w] : out'[w][j + 1] = list[j].id
      <4> SUFFICES ASSUME NEW j \in 1 .. ev[w] PROVE out'[w][j + 1] = list[j].id
        BY <3>1, <3>5, <3>6
      <4>1. CASE j = ev[w]
        BY <3>5, <4>1
      <4>2. CASE j # ev[w]
        <5>1. j \in 1 .. ev[w] - 1 /\ j + 1 \in 1 .. ev[w]
          BY <3>6, <4>2
        <5> QED
          BY <3>1, <3>5, <5>1
      <4> QED
        BY <4>1, <4>2
    <3>8. CASE ev[w] = last[w]
      <4>1. pc'[w] = "done"
        BY <1>0, <2>4, <3>8, Basics DEF ListId
      <4> QED
        BY <1>1, <3>1, <3>2, <3>5, <3>7, <3>8, <4>1 DEF ListSent, ListDone
    <3>9. CASE ev[w] # last[w]
      <4>1. pc'[w] = "list_ids" /\ ev'[w] = ev[w] + 1
        BY <1>0, <2>4, <3>9, Basics DEF ListId
      <4> QED
        BY <1>1, <3>1, <3>2, <3>5, <3>6, <3>7, <4>1 DEF ListSent, ListDone
    <3> QED
      BY <3>8, <3>9
  <2> QED
    BY <2>1, <2>2, <2>3, <2>4 DEF List
<1> QED
  BY <1>3, <1>4, <1>5 DEF Told

\* A worker does not write the seats the main thread is printing.
LEMMA PrintedStays ==
  ASSUME IInv, SeatInv, Printed, NEW w \in Workers, Call(w) \/ Run(w)
  PROVE  Printed'
<1>0. TypeOK /\ w \in Threads /\ Main \in Threads /\ Main # w /\ Next
  BY Basics DEF IInv, Typed, Next
<1>1. Same(Main)
  BY <1>0, OneMoves
<1> SUFFICES ASSUME pc[Main] = "dump_seats" PROVE Printed'
  BY <1>1 DEF Printed, Same
<1>2. ev[Main] \in Positions /\ mutex[ev[Main]] = Main
  BY <1>0, EventInUse DEF HasEvent, MutexHeld, IInv, MutexInv
<1>3. data'[ev[Main]] = data[ev[Main]]
  <2>1. CASE UNCHANGED data
    BY <2>1
  <2>2. CASE CreateLink(w)
    BY <1>2, <2>2, Linked
  <2>3. CASE ReserveWrite(w)
    <3>1. mutex[ev[w]] = w
      BY <2>3, Reserving DEF ReserveWrite
    <3>2. ev[w] # ev[Main]
      BY <1>0, <1>2, <3>1
    <3> QED
      BY <1>2, <2>3, <3>2, OneWrite
  <2> QED
    BY <2>1, <2>2, <2>3, DataSteps
<1>4. SizeOf(ev[Main])' = SizeOf(ev[Main])
  BY <1>0, <1>1, <1>2, Grows DEF Same, SizeOf
<1> QED
  BY <1>1, <1>3, <1>4 DEF Printed, Same

\* The dump prints the seats of one event at a time, under its mutex.
LEMMA DumpPrinted ==
  ASSUME IInv, Printed, Dump
  PROVE  Printed'
<1>0. TypeOK /\ Main \in Threads
  BY Basics DEF IInv, Typed
<1>1. UNCHANGED <<list, data>>
  BY DEF Dump, DumpLock, DumpEmpty, DumpStart, DumpMutex, DumpSeat, DumpNext
<1>2. CASE DumpMutex
  <2>1. pc[Main] = "dump_lock" /\ ev'[Main] = ev[Main] /\ idx'[Main] = 0 /\ out'[Main] = << >>
    BY <1>0, <1>2, Basics DEF DumpMutex
  <2>2. ev[Main] \in Positions
    BY <1>0, <2>1, EventInUse DEF HasEvent
  <2>3. SizeOf(ev[Main])' = SizeOf(ev[Main]) /\ SizeOf(ev[Main]) \in Nat
    BY <1>0, <1>1, <2>1, <2>2, NodeTypes DEF SizeOf
  <2> QED
    BY <2>1, <2>3 DEF Printed
<1>3. CASE DumpSeat
  <2>1. pc[Main] = "dump_seats" /\ ev'[Main] = ev[Main] /\ idx'[Main] = idx[Main] + 1
        /\ idx[Main] \in SeatsOf(ev[Main]) /\ idx[Main] \in Nat
    BY <1>0, <1>3, LocalTypes, Basics DEF DumpSeat
  <2>2. ev[Main] \in Positions
    BY <1>0, <2>1, EventInUse DEF HasEvent, MutexHeld
  <2>3. SizeOf(ev[Main])' = SizeOf(ev[Main]) /\ SizeOf(ev[Main]) \in Nat
    BY <1>0, <1>1, <2>1, <2>2, NodeTypes DEF SizeOf
  <2>4. PICK n \in Nat : n = data[ev[Main]][idx[Main]]
    BY <1>0, <2>1, <2>2, NodeTypes
  <2>5. out[Main] \in Seq(Nat) /\ out'[Main] = out[Main] \o <<n>>
    BY <1>0, <1>3, <2>4, LocalTypes, Basics DEF DumpSeat
  <2>6. /\ Len(out'[Main]) = Len(out[Main]) + 1 /\ out'[Main][Len(out[Main]) + 1] = n
        /\ \A j \in 1 .. Len(out[Main]) : out'[Main][j] = out[Main][j]
    BY <2>5, SendOne
  <2>7. /\ Len(out[Main]) = idx[Main]
        /\ \A j \in 1 .. idx[Main] : out[Main][j] = data[ev[Main]][j - 1]
    BY <2>1 DEF Printed
  <2>8. ASSUME NEW j \in 1 .. idx[Main] + 1 PROVE out'[Main][j] = data[ev[Main]][j - 1]
    <3>1. CASE j = idx[Main] + 1
      <4>1. j - 1 = idx[Main]
        BY <2>1, <3>1
      <4> QED
        BY <2>4, <2>6, <2>7, <3>1, <4>1
    <3>2. CASE j # idx[Main] + 1
      <4>1. j \in 1 .. idx[Main]
        BY <2>1, <3>2
      <4> QED
        BY <2>6, <2>7, <4>1
    <3> QED
      BY <3>1, <3>2
  <2>9. idx'[Main] <= SizeOf(ev[Main])
    BY <2>1, <2>3 DEF SeatsOf
  <2>10. Len(out'[Main]) = idx'[Main]
    BY <2>1, <2>6, <2>7
  <2>11. \A j \in 1 .. idx'[Main] : out'[Main][j] = data'[ev'[Main]][j - 1]
    BY <1>1, <2>1, <2>8
  <2> QED
    BY <1>1, <2>1, <2>3, <2>9, <2>10, <2>11 DEF Printed
<1>4. CASE DumpLock \/ DumpEmpty \/ DumpStart \/ DumpNext
  BY <1>0, <1>4, Basics DEF DumpLock, DumpEmpty, DumpStart, DumpNext, Printed
<1> QED
  BY <1>2, <1>3, <1>4 DEF Dump

\* At the start nothing has been sent.
LEMMA InitAnswers == Init => AnswerInv
<1> SUFFICES ASSUME Init PROVE AnswerInv
  OBVIOUS
<1>1. Printed
  BY DEF Init, Threads, Printed
<1>2. ASSUME NEW w \in Workers PROVE Told(w)
  BY DEF Init, Threads, Told, Fresh, Named, ShowSent, ListSent, ListDone
<1> QED
  BY <1>1, <1>2 DEF AnswerInv

\* Every step of every thread preserves the invariant.
LEMMA NextAnswers ==
  ASSUME IInv, SeatInv, AnswerInv, [Next]_vars
  PROVE  AnswerInv'
<1>0. TypeOK /\ Printed /\ \A w \in Workers : Told(w) /\ w \in Threads
  BY Basics DEF IInv, Typed, AnswerInv
<1>1. ASSUME NEW w \in Workers, Call(w) \/ Run(w) PROVE AnswerInv'
  <2>1. Told(w)'
    BY <1>0, <1>1, CallTold, CreateTold, ReserveTold, ShowTold, ListTold DEF Run
  <2>2. ASSUME NEW v \in Workers \ {w} PROVE Told(v)'
    <3>1. Same(v) /\ Next
      BY <1>0, <1>1, OneMoves DEF Next
    <3> QED
      BY <1>0, <3>1, OthersTold
  <2>3. Printed'
    BY <1>0, <1>1, PrintedStays
  <2> QED
    BY <2>1, <2>2, <2>3 DEF AnswerInv
<1>2. CASE Dump
  <2>1. ASSUME NEW v \in Workers PROVE Told(v)'
    <3>1. Same(v) /\ Next
      BY <1>0, <1>2, MainMoves DEF Next
    <3> QED
      BY <1>0, <3>1, OthersTold
  <2> QED
    BY <1>0, <1>2, <2>1, DumpPrinted DEF AnswerInv
<1>3. CASE Quiet \/ UNCHANGED vars
  <2>1. UNCHANGED <<list, data, pc, req, ev, last, idx, rid, out, status>>
    BY <1>3 DEF Quiet, vars
  <2> QED
    BY <2>1 DEF AnswerInv, Told, Printed, Fresh, Named, ShowSent, ListSent, ListDone,
       SizeOf
<1> QED
  BY <1>1, <1>2, <1>3 DEF Next

\* What the threads have sent at each point of their operations.
THEOREM AnswerInvariance == Spec => [](IInv /\ SeatInv /\ AnswerInv)
<1>1. Init => IInv /\ SeatInv /\ AnswerInv
  BY InitInv, InitSeats, InitAnswers
<1>2. IInv /\ SeatInv /\ AnswerInv /\ [Next]_vars => (IInv /\ SeatInv /\ AnswerInv)'
  BY NextInv, NextSeats, NextAnswers
<1> QED
  BY <1>1, <1>2, PTL DEF Spec

\* Although ems_show reads the seats without the event's mutex, a seat it sends
\* as reserved is reserved by that reservation ever after.
THEOREM ShowIsSound == Spec => []ShowSound
<1>1. AnswerInv => ShowSound
  BY DEF AnswerInv, Told, ShowSent, ShowSound
<1> QED
  BY <1>1, AnswerInvariance, PTL

\* The count that ems_list_events announces is the number of ids that follow,
\* and they are the ids of the list in order.
THEOREM ListIsWhole == Spec => []ListWhole
<1>1. AnswerInv => ListWhole
  BY DEF AnswerInv, Told, ListDone, ListWhole
<1> QED
  BY <1>1, AnswerInvariance, PTL

\* What ems_sigusr1_action prints of an event are whole reservations, all those
\* granted so far.
THEOREM DumpIsWhole == Spec => []DumpWhole
<1>1. ASSUME IInv, SeatInv, AnswerInv PROVE DumpWhole
  <2> SUFFICES ASSUME pc[Main] = "dump_seats", idx[Main] \notin SeatsOf(ev[Main])
               PROVE  {out[Main][j] : j \in 1 .. Len(out[Main])} \ {0}
                        = 1 .. reservations[ev[Main]]
    BY DEF DumpWhole
  <2>0. TypeOK /\ Main \in Threads /\ Main \notin Workers
    BY <1>1, Basics DEF IInv, Typed
  <2>1. ev[Main] \in Positions /\ mutex[ev[Main]] = Main
    BY <1>1, <2>0, EventInUse DEF HasEvent, MutexHeld, IInv, MutexInv
  <2>2. \A w \in Workers : ~Writes(w, ev[Main])
    BY <1>1, <2>0, <2>1, Reserving DEF Writes
  <2>3. Owners(ev[Main]) = 1 .. reservations[ev[Main]]
    BY <1>1, <2>1, <2>2, OwnersCounted
  <2>4. idx[Main] \in Nat /\ SizeOf(ev[Main]) \in Nat
    BY <2>0, <2>1, LocalTypes, NodeTypes DEF SizeOf
  <2>5. /\ Len(out[Main]) = SizeOf(ev[Main])
        /\ \A j \in 1 .. SizeOf(ev[Main]) : out[Main][j] = data[ev[Main]][j - 1]
    BY <1>1, <2>4 DEF AnswerInv, Printed, SeatsOf
  <2>6. {out[Main][j] : j \in 1 .. Len(out[Main])} = {data[ev[Main]][i] : i \in SeatsOf(ev[Main])}
    <3>1. ASSUME NEW j \in 1 .. SizeOf(ev[Main])
          PROVE  out[Main][j] \in {data[ev[Main]][i] : i \in SeatsOf(ev[Main])}
      <4>1. j - 1 \in SeatsOf(ev[Main])
        BY <2>4 DEF SeatsOf
      <4> QED
        BY <2>5, <4>1
    <3>2. ASSUME NEW i \in SeatsOf(ev[Main])
          PROVE  data[ev[Main]][i] \in {out[Main][j] : j \in 1 .. Len(out[Main])}
      <4>1. i + 1 \in 1 .. SizeOf(ev[Main]) /\ (i + 1) - 1 = i
        BY <2>4 DEF SeatsOf
      <4>2. out[Main][i + 1] = data[ev[Main]][i]
        BY <2>5, <4>1
      <4> QED
        BY <2>5, <4>1, <4>2
    <3> QED
      BY <2>5, <3>1, <3>2
  <2> QED
    BY <2>3, <2>6 DEF Owners
<1>2. IInv /\ SeatInv /\ AnswerInv => DumpWhole
  BY <1>1
<1> QED
  BY <1>2, AnswerInvariance, PTL

----------------------------------------------------------------------------
(* No deadlock: every lock that somebody waits for has a holder, and the    *)
(* holders come in two ranks, the list lock before the mutex of an event.   *)

\* The holder of a mutex waits for nothing.
LEMMA MutexHolderRuns ==
  ASSUME IInv, NEW t \in Threads, pc[t] \in {"reserve_lock", "dump_lock"},
         mutex[ev[t]] # NoThread
  PROVE  \E u \in Threads : ~At(u, "idle") /\ ~Blocked(u)
<1>0. TypeOK
  BY DEF IInv, Typed
<1>1. ev[t] \in Positions
  BY EventInUse DEF HasEvent
<1>2. PICK u \in Threads : mutex[ev[t]] = u
  BY <1>0, <1>1, NodeTypes
<1>3. pc[u] \in MutexHeld
  BY <1>1, <1>2 DEF IInv, MutexInv
<1>4. ~At(u, "idle") /\ ~Blocked(u)
  BY <1>3 DEF MutexHeld, Blocked
<1> QED
  BY <1>4

\* The holder of the list lock waits for nothing but a mutex.
LEMMA ListHolderRuns ==
  ASSUME IInv, NEW u \in Threads, pc[u] \in WriteHeld \cup ReadHeld
  PROVE  \E v \in Threads : ~At(v, "idle") /\ ~Blocked(v)
<1>1. CASE pc[u] = "dump_lock" /\ mutex[ev[u]] # NoThread
  BY <1>1, MutexHolderRuns
<1>2. CASE ~(pc[u] = "dump_lock" /\ mutex[ev[u]] # NoThread)
  <2>1. ~At(u, "idle") /\ ~Blocked(u)
    BY <1>2 DEF WriteHeld, ReadHeld, DumpLabels, Blocked
  <2> QED
    BY <2>1
<1> QED
  BY <1>1, <1>2

\* The list lock, the mutexes and the SIGUSR1 action that holds the one while it
\* waits for the others never leave every thread waiting.
THEOREM NeverDeadlocked == Spec => []NoDeadlock
<1>1. ASSUME IInv, NEW t \in Threads, Blocked(t)
      PROVE  \E u \in Threads : ~At(u, "idle") /\ ~Blocked(u)
  <2>0. writer \in Threads \cup {NoThread} /\ readers \subseteq Threads
    BY <1>1 DEF IInv, Typed, TypeOK, ControlOK
  <2>1. CASE writer # NoThread
    <3>1. writer \in Threads /\ pc[writer] \in WriteHeld
      BY <1>1, <2>0, <2>1 DEF IInv, RwlInv
    <3> QED
      BY <1>1, <3>1, ListHolderRuns
  <2>2. CASE readers # {}
    <3>1. PICK u \in Threads : u \in readers
      BY <2>0, <2>2
    <3>2. pc[u] \in ReadHeld
      BY <1>1, <3>1 DEF IInv, RwlInv
    <3> QED
      BY <1>1, <3>2, ListHolderRuns
  <2>3. CASE writer = NoThread /\ readers = {}
    BY <1>1, <2>3, MutexHolderRuns DEF Blocked
  <2> QED
    BY <2>1, <2>2, <2>3
<1>2. IInv => NoDeadlock
  BY <1>1 DEF NoDeadlock
<1> QED
  BY <1>2, Invariance, PTL

=============================================================================
