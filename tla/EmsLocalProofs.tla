--------------------------- MODULE EmsLocalProofs ---------------------------
(***************************************************************************)
(* Proofs about EmsLocal: types, the locks a thread may hold, the rollback  *)
(* of ems_reserve, the pieces of the output, and what SHOW and LIST print.  *)
(***************************************************************************)
EXTENDS EmsLocal, Flatten, SequenceTheorems, WellFoundedInduction, TLAPS

----------------------------------------------------------------------------
(* The inductive invariant.                                                *)

\* The data of an event is a sequence element too: the form Append needs.
SeatMaps == UNION {[0 .. n - 1 -> Nat] : n \in Nat}
Typed == TypeOK /\ data \in Seq(SeatMaps)

Writer(t) == pc[t] \in {"lock_seat", "seats"}

\* Where a thread may hold which lock; event_Lock is held for writing exactly
\* in the critical section of ems_reserve.
LockInv ==
  \A t \in Threads :
    /\ t \in rd["list"]  => pc[t] \in {"lock_event", "find", "list", "write"}
    /\ t \in rd["event"] => pc[t] = "find"
    /\ t \in rd["seat"]  => pc[t] = "show_seats"
    /\ wr["list"] = t  => pc[t] = "append"
    /\ wr["event"] = t <=> Writer(t)
    /\ wr["seat"] = t  => pc[t] = "seats"
    /\ file = t => pc[t] \in {"show_seats", "list", "write"}

\* What a thread's place says of its command and its event.
CallInv ==
  \A t \in Threads :
    /\ pc[t] # "idle" => req[t] \in Requests
    /\ pc[t] \in {"create", "lock_append", "append"} => req[t].op = "create"
    /\ pc[t] \in {"reserve", "lock_seat", "seats"} => req[t].op = "reserve"
    /\ pc[t] \in {"show", "show_seats"} => req[t].op = "show"
    /\ pc[t] = "list" => req[t].op = "list"
    /\ pc[t] = "write" => req[t].op \in {"show", "list"}
    /\ pc[t] \in {"lock_event", "find"} => req[t].op # "list"
    /\ pc[t] \in {"reserve", "lock_seat", "seats", "show", "show_seats"} => ev[t] \in Positions
    /\ pc[t] = "seats" => idx[t] \in 1 .. Len(req[t].seats) + 1

\* The reservation that is being made is the last one of its event.
CountInv ==
  \A t \in Threads : Writer(t) => rid[t] = reservations[ev[t]] /\ rid[t] > 0

IInv == Typed /\ LockInv /\ CallInv /\ CountInv

----------------------------------------------------------------------------
(* Facts the steps rest on.                                                *)

USE DEF At, Goto, Return, ReadLock, WriteLock, Unlock, events, rwlocks

\* The domains of the variables.
LEMMA Basics ==
  ASSUME TypeOK
  PROVE  /\ DOMAIN pc = Threads /\ DOMAIN req = Threads /\ DOMAIN status = Threads
         /\ DOMAIN ev = Threads /\ DOMAIN idx = Threads /\ DOMAIN rid = Threads
         /\ DOMAIN buffer = Threads /\ DOMAIN calls = Threads
         /\ NoThread \notin Threads /\ Len(list) \in Nat /\ NULL = 0 /\ NULL \notin Positions
BY ThreadsAssumption DEF TypeOK, EventsOK, ControlOK, LocalsOK, NULL, Positions

\* A node of the list.
LEMMA NodeTypes ==
  ASSUME TypeOK, NEW e \in Positions
  PROVE  /\ list[e] \in [id : EventIds, rows : Nat, cols : Nat] /\ list[e].id \in Nat
         /\ reservations[e] \in Nat /\ data[e] \in [SeatsOf(e) -> Nat]
<1>1. list[e] \in [id : EventIds, rows : Nat, cols : Nat] /\ reservations[e] \in Nat
      /\ data[e] \in [SeatsOf(e) -> Nat]
  BY ElementOfSeq DEF TypeOK, EventsOK, Positions
<1>2. list[e].id \in EventIds
  BY <1>1
<1> QED
  BY <1>1, <1>2, IdsAssumption

\* get_event returns NULL or an event of the list.
LEMMA GetEventFinds ==
  ASSUME TypeOK, NEW id
  PROVE  GetEvent(id) \in {NULL} \cup Positions
<1> DEFINE T == {e \in Positions : list[e].id = id}
           R == OpToRel(<, Nat)
<1>1. CASE T = {}
  BY <1>1 DEF GetEvent
<1>2. CASE T # {}
  <2>1. T \subseteq Nat
    BY DEF Positions
  <2>2. IsWellFoundedOn(R, Nat)
    BY NatLessThanWellFounded
  <2>3. \A d, e \in Nat : d < e => <<d, e>> \in R
    BY DEF OpToRel
  <2> HIDE DEF R
  <2>4. PICK e \in T : \A d \in T : <<d, e>> \notin R
    BY <1>2, <2>1, <2>2, WFMin
  <2>5. \A d \in 1 .. e - 1 : d \in Positions /\ d < e
    BY <2>1, <2>4, Basics DEF Positions
  <2>6. \A d \in 1 .. e - 1 : list[d].id # id
    BY <2>1, <2>3, <2>4, <2>5
  <2> QED
    BY <2>4, <2>6 DEF GetEvent
<1> QED
  BY <1>1, <1>2

\* What a RESERVE asks for.
LEMMA RequestSeats ==
  ASSUME NEW r \in Requests, r.op = "reserve"
  PROVE  /\ Len(r.seats) \in Nat /\ Len(r.seats) > 0
         /\ \A j \in 1 .. Len(r.seats) : r.seats[j] \in Nat \X Nat
<1>1. r.seats \in SeatLists
  BY DEF Requests
<1>2. r.seats \in Seq(Nat \X Nat) /\ r.seats # << >>
  BY <1>1, SeatsAssumption
<1>3. Len(r.seats) \in Nat /\ Len(r.seats) > 0
  BY <1>2, EmptySeq, LenProperties
<1> QED
  BY <1>2, <1>3, ElementOfSeq

\* A seat in bounds has its place in the data of the event.
LEMMA SeatIndexInBounds ==
  ASSUME TypeOK, NEW e \in Positions, NEW seat \in Nat \X Nat, InBounds(e, seat)
  PROVE  SeatIndex(e, seat) \in SeatsOf(e)
<1> DEFINE rows == list[e].rows
           cols == list[e].cols
           a == (seat[1] - 1) * cols
           b == (rows - seat[1]) * cols
<1>1. rows \in Nat /\ cols \in Nat /\ seat[1] \in 1 .. rows /\ seat[2] \in 1 .. cols
  BY NodeTypes DEF InBounds
<1> HIDE DEF rows, cols
<1>2. a \in Nat /\ b \in Nat
  BY <1>1
<1>3. rows * cols = a + b + cols
  BY <1>1
<1>4. SeatIndex(e, seat) = a + seat[2] - 1 /\ SeatsOf(e) = 0 .. rows * cols - 1
  BY DEF SeatIndex, SeatsOf, rows, cols
<1> HIDE DEF a, b
<1> QED
  BY <1>1, <1>2, <1>3, <1>4

\* Writing the seats of one event keeps the list in order.
LEMMA DataSet ==
  ASSUME Typed, NEW e \in Positions, NEW f \in [SeatsOf(e) -> Nat],
         data' = [data EXCEPT ![e] = f], UNCHANGED list,
         reservations' \in Seq(Nat), Len(reservations') = Len(reservations)
  PROVE  /\ EventsOK' /\ data' \in Seq(SeatMaps)
         /\ \A d \in Positions : data'[d] = IF d = e THEN f ELSE data[d]
<1>1. list[e].rows * list[e].cols \in Nat /\ Len(list) \in Nat
  BY NodeTypes, Basics DEF Typed
<1>2. f \in SeatMaps
  BY <1>1 DEF SeatMaps, SeatsOf
<1>3. data \in Seq(SeatMaps) /\ Len(data) = Len(list)
  <2>1. data \in Seq(SeatMaps) /\ DOMAIN data = 1 .. Len(list)
    BY DEF Typed, TypeOK, EventsOK, Positions
  <2>2. Len(data) \in Nat /\ DOMAIN data = 1 .. Len(data)
    BY <2>1, LenProperties
  <2> QED
    BY <1>1, <2>1, <2>2
<1>4. /\ data' \in Seq(SeatMaps) /\ Len(data') = Len(list)
      /\ \A d \in Positions : data'[d] = IF d = e THEN f ELSE data[d]
  BY <1>2, <1>3, ExceptSeq DEF Positions
<1>5. DOMAIN data' = Positions'
  BY <1>4, LenProperties DEF Positions
<1>6. \A d \in Positions : data'[d] \in [SeatsOf(d) -> Nat]
  BY <1>4, NodeTypes DEF Typed
<1> QED
  BY <1>4, <1>5, <1>6 DEF Typed, TypeOK, EventsOK, Positions, SeatsOf

\* What CreateAppend does to the list, when it gets its memory.
LEMMA Appended ==
  ASSUME IInv, NEW t \in Threads, CreateAppend(t), list' # list
  PROVE  /\ EventsOK' /\ data' \in Seq(SeatMaps)
         /\ Positions \subseteq Positions'
         /\ \A e \in Positions' \ Positions :
              reservations'[e] = 0 /\ \A i \in SeatsOf(e)' : data'[e][i] = 0
         /\ \A e \in Positions : /\ list'[e] = list[e] /\ reservations'[e] = reservations[e]
                               /\ data'[e] = data[e]
<1> DEFINE rows == req[t].size[1]
           cols == req[t].size[2]
           node == [id |-> req[t].id, rows |-> rows, cols |-> cols]
           free == [i \in 0 .. rows * cols - 1 |-> 0]
           n == Len(list) + 1
<1>0. TypeOK /\ Len(list) \in Nat
  BY Basics DEF IInv, Typed
<1>1. req[t] \in Requests /\ req[t].op = "create"
  BY DEF IInv, CallInv, CreateAppend
<1>2. rows \in Nat /\ cols \in Nat /\ req[t].id \in EventIds
  BY <1>1, SizesAssumption DEF Requests
<1>3. rows * cols \in Nat /\ node \in [id : EventIds, rows : Nat, cols : Nat]
  BY <1>2
<1>4. free \in [0 .. rows * cols - 1 -> Nat] /\ free \in SeatMaps
      /\ \A i \in 0 .. rows * cols - 1 : free[i] = 0
  BY <1>3 DEF SeatMaps
<1>5. /\ list' = Append(list, node) /\ reservations' = Append(reservations, 0)
      /\ data' = Append(data, free)
  BY DEF CreateAppend
<1>6. node.rows = rows /\ node.cols = cols
  OBVIOUS
<1> HIDE DEF free, rows, cols, node
<1>7. /\ list' \in Seq([id : EventIds, rows : Nat, cols : Nat]) /\ Len(list') = n
      /\ \A e \in Positions : list'[e] = list[e]
      /\ list'[n] = node
  BY <1>0, <1>3, <1>5, AppendProperties DEF TypeOK, EventsOK, Positions
<1>8. /\ reservations' \in Seq(Nat) /\ Len(reservations') = n
      /\ \A e \in Positions : reservations'[e] = reservations[e]
      /\ reservations'[n] = 0
  BY <1>0, <1>5, AppendProperties DEF TypeOK, EventsOK, Positions
<1>9. data \in Seq(SeatMaps) /\ Len(data) = Len(list)
  <2>1. data \in Seq(SeatMaps) /\ DOMAIN data = 1 .. Len(list)
    BY DEF IInv, Typed, TypeOK, EventsOK, Positions
  <2>2. Len(data) \in Nat /\ DOMAIN data = 1 .. Len(data)
    BY <2>1, LenProperties
  <2> QED
    BY <1>0, <2>1, <2>2
<1>10. /\ data' \in Seq(SeatMaps) /\ Len(data') = n
       /\ \A e \in Positions : data'[e] = data[e]
       /\ data'[n] = free
  BY <1>4, <1>5, <1>9, AppendProperties DEF Positions
<1>11. Positions' = Positions \cup {n} /\ n \notin Positions
  BY <1>0, <1>7 DEF Positions
<1>12. DOMAIN data' = Positions'
  BY <1>7, <1>10, LenProperties DEF Positions
<1>13. \A e \in Positions' \ Positions : e = n /\ SeatsOf(e)' = 0 .. rows * cols - 1
  BY <1>6, <1>7, <1>11 DEF SeatsOf
<1>14. \A e \in Positions : data'[e] \in [SeatsOf(e)' -> Nat]
  BY <1>0, <1>7, <1>10, NodeTypes DEF SeatsOf
<1>15. \A e \in Positions' : data'[e] \in [SeatsOf(e)' -> Nat]
  BY <1>4, <1>10, <1>11, <1>13, <1>14
<1>16. EventsOK'
  BY <1>7, <1>8, <1>12, <1>15 DEF EventsOK
<1> QED
  BY <1>4, <1>7, <1>8, <1>10, <1>11, <1>13, <1>16, ZenonT(30)

\* The lookup is made by the three commands that name an event.
LEMMA FindOp ==
  ASSUME IInv, NEW t \in Threads, pc[t] \in {"lock_event", "find"}
  PROVE  req[t].op \in {"create", "reserve", "show"}
BY DEF IInv, CallInv, Requests

\* An Append changes the sequence.
LEMMA NotAppend ==
  ASSUME NEW S, NEW s \in Seq(S), NEW x
  PROVE  Append(s, x) # s
<1>1. s \in Seq(S \cup {x}) /\ x \in S \cup {x}
  OBVIOUS
<1>2. Len(Append(s, x)) = Len(s) + 1 /\ Len(s) \in Nat
  BY <1>1, AppendProperties, LenProperties
<1> QED
  BY <1>2

----------------------------------------------------------------------------
(* The locks.                                                              *)

\* A step of a thread keeps LockInv: a lock is taken at the place that says so
\* and let go on the way out, and no step moves the locks of another thread.
LEMMA LockStep ==
  ASSUME IInv, NEW t \in Threads, Call(t) \/ Run(t)
  PROVE  LockInv'
<1> USE DEF LockInv, Writer
<1>0. /\ TypeOK /\ LockInv /\ NoThread \notin Threads
      /\ rd \in [Locks -> SUBSET Threads] /\ wr \in [Locks -> Threads \cup {NoThread}]
      /\ pc \in [Threads -> Labels]
      /\ {"list", "event", "seat"} = Locks
  BY ThreadsAssumption DEF IInv, Typed, TypeOK, ControlOK, Locks
<1>1. CASE Call(t)
  BY <1>0, <1>1 DEF Call
<1>2. CASE Finish(t)
  BY <1>0, <1>2 DEF Finish
<1>3. CASE LockList(t)
  BY <1>0, <1>3 DEF LockList
<1>4. CASE LockEvent(t)
  BY <1>0, <1>4 DEF LockEvent
<1>5. CASE Find(t)
  <2>1. req[t].op \in {"create", "reserve", "show"}
    BY <1>5, FindOp DEF Find
  <2>2. pc' = [pc EXCEPT ![t] = pc'[t]] /\ pc'[t] \in {"create", "reserve", "show", "done"}
    BY <1>0, <1>5, <2>1 DEF Find
  <2> QED
    BY <1>0, <1>5, <2>2 DEF Find
<1>6. CASE CreateAlloc(t)
  BY <1>0, <1>6 DEF CreateAlloc
<1>7. CASE CreateLock(t)
  BY <1>0, <1>7 DEF CreateLock
<1>8. CASE CreateAppend(t)
  BY <1>0, <1>8 DEF CreateAppend
<1>9. CASE ReserveId(t)
  BY <1>0, <1>9 DEF ReserveId
<1>10. CASE ReserveLock(t)
  BY <1>0, <1>10 DEF ReserveLock
<1>11. CASE ReserveSeat(t)
  BY <1>0, <1>11 DEF ReserveSeat
<1>12. CASE GiveUp(t)
  BY <1>0, <1>12 DEF GiveUp
<1>13. CASE ReserveEnd(t)
  BY <1>0, <1>13 DEF ReserveEnd
<1>14. CASE ShowLock(t)
  BY <1>0, <1>14 DEF ShowLock
<1>15. CASE ShowSeat(t)
  BY <1>0, <1>15 DEF ShowSeat
<1>16. CASE ShowEnd(t)
  BY <1>0, <1>16 DEF ShowEnd
<1>17. CASE ListEvent(t)
  BY <1>0, <1>17 DEF ListEvent
<1>18. CASE ListEnd(t)
  BY <1>0, <1>18 DEF ListEnd
<1>19. CASE Flush(t)
  BY <1>0, <1>19 DEF Flush, LockFile
<1>20. CASE FlushFail(t)
  BY <1>0, <1>20 DEF FlushFail
<1>21. CASE Write(t)
  BY <1>0, <1>21 DEF Write
<1> QED
  BY <1>1, <1>2, <1>3, <1>4, <1>5, <1>6, <1>7, <1>8, <1>9, <1>10, <1>11, <1>12, <1>13,
     <1>14, <1>15, <1>16, <1>17, <1>18, <1>19, <1>20, <1>21
     DEF Run, Lookup, Create, Reserve, Answer

----------------------------------------------------------------------------
(* What the two steps that write seats do to them.                         *)

\* The seat that ReserveSeat writes was free and is in bounds.
LEMMA SeatWritten ==
  ASSUME IInv, NEW t \in Threads, ReserveSeat(t)
  PROVE  /\ EventsOK' /\ data' \in Seq(SeatMaps)
         /\ ev[t] \in Positions /\ Seat(t) \in SeatsOf(ev[t]) /\ data[ev[t]][Seat(t)] = 0
         /\ \A d \in Positions : d # ev[t] => data'[d] = data[d]
         /\ \A i \in SeatsOf(ev[t]) :
              data'[ev[t]][i] = IF i = Seat(t) THEN rid[t] ELSE data[ev[t]][i]
<1> DEFINE e == ev[t]
           f == [data[e] EXCEPT ![Seat(t)] = rid[t]]
<1>1. TypeOK /\ e \in Positions /\ rid[t] \in Nat /\ Typed
  BY DEF IInv, Typed, TypeOK, LocalsOK, CallInv, ReserveSeat
<1>2. data[e] \in [SeatsOf(e) -> Nat]
  BY <1>1, NodeTypes
<1>3. req[t].seats[idx[t]] \in Nat \X Nat
  BY <1>1, RequestSeats DEF IInv, CallInv, ReserveSeat
<1>4. Seat(t) \in SeatsOf(e) /\ data[e][Seat(t)] = 0
  BY <1>1, <1>3, SeatIndexInBounds DEF ReserveSeat, Free, Seat
<1>5. data' = [data EXCEPT ![e] = f]
  BY DEF ReserveSeat, WriteSeat
<1>6. f \in [SeatsOf(e) -> Nat]
      /\ \A i \in SeatsOf(e) : f[i] = IF i = Seat(t) THEN rid[t] ELSE data[e][i]
  BY <1>1, <1>2, <1>4
<1>7. UNCHANGED <<list, reservations>> /\ reservations \in Seq(Nat)
  BY <1>1 DEF ReserveSeat, TypeOK, EventsOK
<1> HIDE DEF e, f
<1>8. /\ EventsOK' /\ data' \in Seq(SeatMaps)
      /\ \A d \in Positions : data'[d] = IF d = e THEN f ELSE data[d]
  BY <1>1, <1>5, <1>6, <1>7, DataSet
<1> QED
  BY <1>1, <1>4, <1>6, <1>8 DEF e

\* GiveUp frees the seats written so far and counts the reservation back.
LEMMA SeatsCleared ==
  ASSUME IInv, NEW t \in Threads, GiveUp(t)
  PROVE  /\ EventsOK' /\ data' \in Seq(SeatMaps)
         /\ ev[t] \in Positions
         /\ \A d \in Positions : d # ev[t] =>
              data'[d] = data[d] /\ reservations'[d] = reservations[d]
         /\ reservations'[ev[t]] = reservations[ev[t]] - 1
         /\ \A i \in SeatsOf(ev[t]) :
              data'[ev[t]][i] =
                IF \E j \in 1 .. idx[t] - 1 : i = SeatIndex(ev[t], req[t].seats[j])
                THEN 0 ELSE data[ev[t]][i]
<1> DEFINE e == ev[t]
           f == [i \in SeatsOf(e) |->
                  IF \E j \in 1 .. idx[t] - 1 : i = SeatIndex(e, req[t].seats[j])
                  THEN 0 ELSE data[e][i]]
<1>1. TypeOK /\ e \in Positions /\ Typed /\ reservations[e] > 0
  BY DEF IInv, Typed, CallInv, CountInv, GiveUp, Writer
<1>2. data[e] \in [SeatsOf(e) -> Nat] /\ reservations[e] \in Nat
  BY <1>1, NodeTypes
<1>3. data' = [data EXCEPT ![e] = f]
  BY DEF GiveUp, Cleared
<1>4. f \in [SeatsOf(e) -> Nat]
  BY <1>2
<1>5. /\ reservations \in Seq(Nat) /\ e \in 1 .. Len(reservations) /\ reservations[e] - 1 \in Nat
      /\ reservations' = [reservations EXCEPT ![e] = reservations[e] - 1]
  BY <1>1, <1>2, SMTT(30) DEF GiveUp, TypeOK, EventsOK, Positions
<1> HIDE DEF e
<1>6. /\ reservations' \in Seq(Nat) /\ Len(reservations') = Len(reservations)
      /\ \A d \in 1 .. Len(reservations) :
           reservations'[d] = IF d = e THEN reservations[e] - 1 ELSE reservations[d]
  BY <1>5, ExceptSeq
<1> HIDE DEF f
<1>7. UNCHANGED list
  BY DEF GiveUp
<1>8. /\ EventsOK' /\ data' \in Seq(SeatMaps)
      /\ \A d \in Positions : data'[d] = IF d = e THEN f ELSE data[d]
  BY <1>1, <1>3, <1>4, <1>6, <1>7, DataSet
<1>9. Positions = 1 .. Len(reservations)
  BY <1>1 DEF TypeOK, EventsOK, Positions
<1> QED
  <2>1. \A i \in SeatsOf(e) : data'[e][i] =
          IF \E j \in 1 .. idx[t] - 1 : i = SeatIndex(e, req[t].seats[j])
          THEN 0 ELSE data[e][i]
    BY <1>1, <1>8 DEF f
  <2>2. \A d \in Positions : d # e => data'[d] = data[d] /\ reservations'[d] = reservations[d]
    BY <1>6, <1>8, <1>9
  <2>3. reservations'[e] = reservations[e] - 1
    BY <1>5, <1>6
  <2> QED
    BY <1>1, <1>8, <2>1, <2>2, <2>3 DEF e

\* ReserveId counts one more reservation, and leaves the seats alone.
LEMMA Counted ==
  ASSUME IInv, NEW t \in Threads, ReserveId(t)
  PROVE  /\ EventsOK' /\ data' \in Seq(SeatMaps)
         /\ ev[t] \in Positions /\ UNCHANGED <<list, data>>
         /\ \A d \in Positions : d # ev[t] => reservations'[d] = reservations[d]
         /\ reservations'[ev[t]] = reservations[ev[t]] + 1
         /\ rid' = [rid EXCEPT ![t] = reservations[ev[t]] + 1]
<1> DEFINE e == ev[t]
<1>1. TypeOK /\ e \in Positions /\ Typed
  BY DEF IInv, Typed, CallInv, ReserveId
<1>2. /\ reservations \in Seq(Nat) /\ e \in 1 .. Len(reservations) /\ reservations[e] + 1 \in Nat
      /\ reservations' = [reservations EXCEPT ![e] = reservations[e] + 1]
      /\ Positions = 1 .. Len(reservations)
  BY <1>1, NodeTypes, SMTT(30) DEF ReserveId, TypeOK, EventsOK, Positions
<1> HIDE DEF e
<1>3. /\ reservations' \in Seq(Nat) /\ Len(reservations') = Len(reservations)
      /\ \A d \in 1 .. Len(reservations) :
           reservations'[d] = IF d = e THEN reservations[e] + 1 ELSE reservations[d]
  BY <1>2, ExceptSeq
<1>4. UNCHANGED <<list, data>>
  BY DEF ReserveId
<1>5. EventsOK' /\ data' \in Seq(SeatMaps)
  BY <1>1, <1>3, <1>4 DEF Typed, TypeOK, EventsOK, Positions, SeatsOf
<1>6. rid' = [rid EXCEPT ![t] = reservations'[e]]
  BY DEF ReserveId, e
<1>7. rid' = [rid EXCEPT ![t] = reservations[e] + 1]
  BY <1>2, <1>3, <1>6
<1> QED
  BY <1>1, <1>2, <1>3, <1>4, <1>5, <1>7 DEF e

----------------------------------------------------------------------------
(* Types.                                                                  *)

\* append_to_list adds an event or does nothing.
LEMMA AppendsOrNot ==
  ASSUME IInv, NEW t \in Threads, CreateAppend(t)
  PROVE  list' # list \/ UNCHANGED events
<1>1. UNCHANGED events \/ \E node : list' = Append(list, node)
  BY DEF CreateAppend
<1>2. list \in Seq([id : EventIds, rows : Nat, cols : Nat])
  BY DEF IInv, Typed, TypeOK, EventsOK
<1> QED
  BY <1>1, <1>2, NotAppend

\* Events are only added at the end of the list, and their seats keep their
\* shape.
LEMMA EventsStep ==
  ASSUME IInv, NEW t \in Threads, Call(t) \/ Run(t)
  PROVE  /\ EventsOK' /\ data' \in Seq(SeatMaps)
         /\ Positions \subseteq Positions' /\ \A e \in Positions : list'[e] = list[e]
<1>0. EventsOK /\ data \in Seq(SeatMaps)
  BY DEF IInv, Typed, TypeOK
<1>1. CASE UNCHANGED <<list, reservations, data>>
  BY <1>0, <1>1 DEF EventsOK, Positions, SeatsOf
<1>2. CASE CreateAppend(t)
  <2>1. CASE list' # list
    BY <1>2, <2>1, Appended
  <2> QED
    BY <1>1, <1>2, <2>1, AppendsOrNot
<1>3. CASE ReserveId(t)
  BY <1>3, Counted DEF Positions
<1>4. CASE ReserveSeat(t)
  BY <1>4, SeatWritten DEF ReserveSeat, Positions
<1>5. CASE GiveUp(t)
  BY <1>5, SeatsCleared DEF GiveUp, Positions
<1>6. \/ UNCHANGED <<list, reservations, data>> \/ CreateAppend(t) \/ ReserveId(t)
      \/ ReserveSeat(t) \/ GiveUp(t)
  BY DEF Run, Lookup, Create, Reserve, Answer, Call, Finish, LockList, LockEvent, Find,
         CreateAlloc, CreateLock, ReserveLock, ReserveEnd, ShowLock, ShowSeat, ShowEnd,
         ListEvent, ListEnd, Flush, FlushFail, Write
<1> QED
  BY <1>1, <1>2, <1>3, <1>4, <1>5, <1>6

\* A step takes locks, and changes the place, command and status of its thread,
\* within their types.
LEMMA ControlStep ==
  ASSUME IInv, NEW t \in Threads, Call(t) \/ Run(t)
  PROVE  ControlOK'
<1> USE DEF ControlOK
<1>0. ControlOK /\ {"list", "event", "seat"} = Locks
  BY DEF IInv, Typed, TypeOK, Locks
<1>1. CASE Call(t)
  BY <1>0, <1>1 DEF Call, Labels
<1>2. CASE Finish(t)
  BY <1>0, <1>2 DEF Finish, Labels
<1>3. CASE LockList(t)
  BY <1>0, <1>3 DEF LockList, Labels
<1>4. CASE LockEvent(t)
  BY <1>0, <1>4 DEF LockEvent, Labels
<1>5. CASE Find(t)
  <2>1. req[t].op \in {"create", "reserve", "show"}
    BY <1>5, FindOp DEF Find
  <2>2. pc' = [pc EXCEPT ![t] = pc'[t]] /\ pc'[t] \in {"create", "reserve", "show", "done"}
    BY <1>0, <1>5, <2>1 DEF Find
  <2>3. pc' \in [Threads -> Labels]
    BY <1>0, <2>2 DEF Labels
  <2> QED
    BY <1>0, <1>5, <2>3 DEF Find
<1>6. CASE CreateAlloc(t)
  BY <1>0, <1>6 DEF CreateAlloc, Labels
<1>7. CASE CreateLock(t)
  BY <1>0, <1>7 DEF CreateLock, Labels
<1>8. CASE CreateAppend(t)
  BY <1>0, <1>8 DEF CreateAppend, Labels
<1>9. CASE ReserveId(t)
  BY <1>0, <1>9 DEF ReserveId, Labels
<1>10. CASE ReserveLock(t)
  BY <1>0, <1>10 DEF ReserveLock, Labels
<1>11. CASE ReserveSeat(t)
  BY <1>0, <1>11 DEF ReserveSeat, Labels
<1>12. CASE GiveUp(t)
  BY <1>0, <1>12 DEF GiveUp, Labels
<1>13. CASE ReserveEnd(t)
  BY <1>0, <1>13 DEF ReserveEnd, Labels
<1>14. CASE ShowLock(t)
  BY <1>0, <1>14 DEF ShowLock, Labels
<1>15. CASE ShowSeat(t)
  BY <1>0, <1>15 DEF ShowSeat, Labels
<1>16. CASE ShowEnd(t)
  BY <1>0, <1>16 DEF ShowEnd, Labels
<1>17. CASE ListEvent(t)
  BY <1>0, <1>17 DEF ListEvent, Labels
<1>18. CASE ListEnd(t)
  BY <1>0, <1>18 DEF ListEnd, Labels
<1>19. CASE Flush(t)
  BY <1>0, <1>19 DEF Flush, Labels, LockFile
<1>20. CASE FlushFail(t)
  BY <1>0, <1>20 DEF FlushFail, Labels
<1>21. CASE Write(t)
  BY <1>0, <1>21 DEF Write, Labels
<1> QED
  BY <1>1, <1>2, <1>3, <1>4, <1>5, <1>6, <1>7, <1>8, <1>9, <1>10, <1>11, <1>12, <1>13,
     <1>14, <1>15, <1>16, <1>17, <1>18, <1>19, <1>20, <1>21
     DEF Run, Lookup, Create, Reserve, Answer

\* The locals of a thread keep their types: its event, once found, is one of the
\* list, and what it prints are numbers.
LEMMA LocalsStep ==
  ASSUME IInv, NEW t \in Threads, Call(t) \/ Run(t)
  PROVE  LocalsOK'
<1> USE DEF LocalsOK
<1>0. LocalsOK /\ TypeOK /\ calls \in [Threads -> Nat] /\ calls[t] \in Nat
  BY DEF IInv, Typed, TypeOK, ControlOK
<1>1. CASE Call(t)
  BY <1>0, <1>1 DEF Call
<1>2. CASE Finish(t)
  <2>1. << >> \in Seq(Nat)
    OBVIOUS
  <2> QED
    BY <1>0, <1>2, <2>1 DEF Finish, NULL
<1>3. CASE LockList(t)
  <2>1. ev' = [ev EXCEPT ![t] = ev'[t]] /\ ev'[t] \in Nat
    BY <1>0, <1>3 DEF LockList
  <2> QED
    BY <1>0, <1>3, <2>1 DEF LockList
<1>4. CASE LockEvent(t)
  BY <1>0, <1>4 DEF LockEvent
<1>5. CASE Find(t)
  <2>1. GetEvent(req[t].id) \in Nat
    BY <1>0, GetEventFinds DEF NULL, Positions
  <2> QED
    BY <1>0, <1>5, <2>1 DEF Find
<1>6. CASE CreateAlloc(t)
  BY <1>0, <1>6 DEF CreateAlloc
<1>7. CASE CreateLock(t)
  BY <1>0, <1>7 DEF CreateLock
<1>8. CASE CreateAppend(t)
  BY <1>0, <1>8 DEF CreateAppend
<1>9. CASE ReserveId(t)
  <2>1. ev[t] \in Positions /\ rid' = [rid EXCEPT ![t] = reservations[ev[t]] + 1]
    BY <1>9, Counted
  <2>2. reservations[ev[t]] + 1 \in Nat
    BY <1>0, <2>1, NodeTypes
  <2> QED
    BY <1>0, <1>9, <2>1, <2>2 DEF ReserveId
<1>10. CASE ReserveLock(t)
  BY <1>0, <1>10 DEF ReserveLock
<1>11. CASE ReserveSeat(t)
  BY <1>0, <1>11 DEF ReserveSeat
<1>12. CASE GiveUp(t)
  BY <1>0, <1>12 DEF GiveUp
<1>13. CASE ReserveEnd(t)
  BY <1>0, <1>13 DEF ReserveEnd
<1>14. CASE ShowLock(t)
  BY <1>0, <1>14 DEF ShowLock
<1>15. CASE ShowSeat(t)
  <2>1. data[ev[t]][idx[t]] \in Nat
    BY <1>0, <1>15, NodeTypes DEF ShowSeat, IInv, CallInv
  <2>2. Append(buffer[t], data[ev[t]][idx[t]]) \in Seq(Nat)
    BY <1>0, <2>1
  <2> QED
    BY <1>0, <1>15, <2>2 DEF ShowSeat, Put
<1>16. CASE ShowEnd(t)
  BY <1>0, <1>16 DEF ShowEnd
<1>17. CASE ListEvent(t)
  <2>1. list[ev[t]].id \in Nat
    BY <1>0, <1>17, NodeTypes DEF ListEvent
  <2>2. Append(buffer[t], list[ev[t]].id) \in Seq(Nat)
    BY <1>0, <2>1
  <2> QED
    BY <1>0, <1>17, <2>2 DEF ListEvent, Put
<1>18. CASE ListEnd(t)
  BY <1>0, <1>18 DEF ListEnd
<1>19. CASE Flush(t)
  <2>1. Written(t) \in Seq([by : Threads, call : Nat, text : Seq(Nat)])
    BY <1>0 DEF Written
  <2> QED
    BY <1>0, <1>19, <2>1 DEF Flush
<1>20. CASE FlushFail(t)
  BY <1>0, <1>20 DEF FlushFail
<1>21. CASE Write(t)
  <2>1. Written(t) \in Seq([by : Threads, call : Nat, text : Seq(Nat)])
    BY <1>0 DEF Written
  <2> QED
    BY <1>0, <1>21, <2>1 DEF Write
<1> QED
  BY <1>1, <1>2, <1>3, <1>4, <1>5, <1>6, <1>7, <1>8, <1>9, <1>10, <1>11, <1>12, <1>13,
     <1>14, <1>15, <1>16, <1>17, <1>18, <1>19, <1>20, <1>21
     DEF Run, Lookup, Create, Reserve, Answer

\* The places of a command follow each other, and the event that was found
\* stays in the list.
LEMMA CallStep ==
  ASSUME IInv, NEW t \in Threads, Call(t) \/ Run(t)
  PROVE  CallInv'
<1> USE DEF CallInv
<1>0. /\ CallInv /\ Positions \subseteq Positions' /\ pc \in [Threads -> Labels]
      /\ req \in [Threads -> Requests \cup {NoRequest}]
      /\ ev \in [Threads -> Nat] /\ idx \in [Threads -> Nat]
  BY EventsStep DEF IInv, Typed, TypeOK, ControlOK, LocalsOK
<1>1. CASE Call(t)
  BY <1>0, <1>1 DEF Call
<1>2. CASE Finish(t)
  BY <1>0, <1>2 DEF Finish
<1>3. CASE LockList(t)
  BY <1>0, <1>3 DEF LockList
<1>4. CASE LockEvent(t)
  BY <1>0, <1>4 DEF LockEvent
<1>5. CASE Find(t)
  <2>1. req[t].op \in {"create", "reserve", "show"} /\ GetEvent(req[t].id) \in {NULL} \cup Positions
    BY <1>5, FindOp, GetEventFinds DEF Find, IInv, Typed
  <2>2. UNCHANGED Positions
    BY <1>5 DEF Find, Positions
  <2>3. /\ pc' = [pc EXCEPT ![t] = pc'[t]] /\ pc'[t] \in {req[t].op, "done"}
        /\ ev' = [ev EXCEPT ![t] = GetEvent(req[t].id)] /\ UNCHANGED <<req, idx>>
        /\ pc'[t] \in {"reserve", "show"} => GetEvent(req[t].id) # NULL
    BY <1>0, <1>5, <2>1 DEF Find
  <2> QED
    BY <1>0, <1>5, <2>1, <2>2, <2>3 DEF Find
<1>6. CASE CreateAlloc(t)
  BY <1>0, <1>6 DEF CreateAlloc
<1>7. CASE CreateLock(t)
  BY <1>0, <1>7 DEF CreateLock
<1>8. CASE CreateAppend(t)
  BY <1>0, <1>8 DEF CreateAppend
<1>9. CASE ReserveId(t)
  BY <1>0, <1>9 DEF ReserveId
<1>10. CASE ReserveLock(t)
  <2>1. Len(req[t].seats) \in Nat
    BY <1>0, <1>10, RequestSeats DEF ReserveLock
  <2> QED
    BY <1>0, <1>10, <2>1 DEF ReserveLock
<1>11. CASE ReserveSeat(t)
  <2>1. Len(req[t].seats) \in Nat
    BY <1>0, <1>11, RequestSeats DEF ReserveSeat
  <2> QED
    BY <1>0, <1>11, <2>1 DEF ReserveSeat
<1>12. CASE GiveUp(t)
  BY <1>0, <1>12 DEF GiveUp
<1>13. CASE ReserveEnd(t)
  BY <1>0, <1>13 DEF ReserveEnd
<1>14. CASE ShowLock(t)
  BY <1>0, <1>14 DEF ShowLock
<1>15. CASE ShowSeat(t)
  BY <1>0, <1>15 DEF ShowSeat
<1>16. CASE ShowEnd(t)
  BY <1>0, <1>16 DEF ShowEnd
<1>17. CASE ListEvent(t)
  BY <1>0, <1>17 DEF ListEvent
<1>18. CASE ListEnd(t)
  BY <1>0, <1>18 DEF ListEnd
<1>19. CASE Flush(t)
  BY <1>0, <1>19 DEF Flush
<1>20. CASE FlushFail(t)
  BY <1>0, <1>20 DEF FlushFail
<1>21. CASE Write(t)
  BY <1>0, <1>21 DEF Write
<1> QED
  BY <1>1, <1>2, <1>3, <1>4, <1>5, <1>6, <1>7, <1>8, <1>9, <1>10, <1>11, <1>12, <1>13,
     <1>14, <1>15, <1>16, <1>17, <1>18, <1>19, <1>20, <1>21
     DEF Run, Lookup, Create, Reserve, Answer

----------------------------------------------------------------------------
(* The count of the reservations.                                          *)

\* Only one thread at a time is between the two halves of ems_reserve.
LEMMA OneWriter ==
  ASSUME IInv, NEW t \in Threads, NEW u \in Threads, Writer(t), Writer(u)
  PROVE  t = u
BY DEF IInv, LockInv

\* No other thread changes the count of the event a reservation is made in.
LEMMA CountStep ==
  ASSUME IInv, NEW t \in Threads, Call(t) \/ Run(t)
  PROVE  CountInv'
<1> USE DEF CountInv
<1>0. /\ CountInv /\ TypeOK /\ pc \in [Threads -> Labels] /\ ev \in [Threads -> Nat]
      /\ rid \in [Threads -> Nat]
      /\ \A u \in Threads : Writer(u) => ev[u] \in Positions
      /\ \A u \in Threads : Writer(t) /\ Writer(u) => u = t
  BY OneWriter DEF IInv, Typed, TypeOK, ControlOK, LocalsOK, CallInv, Writer
<1> USE DEF Writer
<1>1. CASE Call(t)
  BY <1>0, <1>1 DEF Call
<1>2. CASE Finish(t)
  BY <1>0, <1>2 DEF Finish
<1>3. CASE LockList(t)
  BY <1>0, <1>3 DEF LockList
<1>4. CASE LockEvent(t)
  BY <1>0, <1>4 DEF LockEvent
<1>5. CASE Find(t)
  <2>1. req[t].op \in {"create", "reserve", "show"}
    BY <1>5, FindOp DEF Find
  <2>2. pc' = [pc EXCEPT ![t] = pc'[t]] /\ pc'[t] \in {"create", "reserve", "show", "done"}
    BY <1>0, <1>5, <2>1 DEF Find
  <2> QED
    BY <1>0, <1>5, <2>2 DEF Find
<1>6. CASE CreateAlloc(t)
  BY <1>0, <1>6 DEF CreateAlloc
<1>7. CASE CreateLock(t)
  BY <1>0, <1>7 DEF CreateLock
<1>8. CASE CreateAppend(t)
  <2>1. CASE list' # list
    <3>1. \A e \in Positions : reservations'[e] = reservations[e]
      BY <1>8, <2>1, Appended
    <3> QED
      BY <1>0, <1>8, <3>1 DEF CreateAppend
  <2>2. CASE UNCHANGED events
    BY <1>0, <1>8, <2>2 DEF CreateAppend
  <2> QED
    BY <1>8, <2>1, <2>2, AppendsOrNot
<1>9. CASE ReserveId(t)
  <2>1. /\ ev[t] \in Positions /\ reservations'[ev[t]] = reservations[ev[t]] + 1
        /\ rid' = [rid EXCEPT ![t] = reservations[ev[t]] + 1]
        /\ reservations[ev[t]] \in Nat
    BY <1>0, <1>9, Counted, NodeTypes
  <2>2. \A u \in Threads : ~Writer(u)
    BY <1>0, <1>9, ThreadsAssumption DEF ReserveId, IInv, LockInv
  <2>3. pc' = [pc EXCEPT ![t] = "lock_seat"] /\ UNCHANGED ev
    BY <1>9 DEF ReserveId
  <2> QED
    BY <1>0, <2>1, <2>2, <2>3
<1>10. CASE ReserveLock(t)
  BY <1>0, <1>10 DEF ReserveLock
<1>11. CASE ReserveSeat(t)
  BY <1>0, <1>11 DEF ReserveSeat
<1>12. CASE GiveUp(t)
  BY <1>0, <1>12 DEF GiveUp
<1>13. CASE ReserveEnd(t)
  BY <1>0, <1>13 DEF ReserveEnd
<1>14. CASE ShowLock(t)
  BY <1>0, <1>14 DEF ShowLock
<1>15. CASE ShowSeat(t)
  BY <1>0, <1>15 DEF ShowSeat
<1>16. CASE ShowEnd(t)
  BY <1>0, <1>16 DEF ShowEnd
<1>17. CASE ListEvent(t)
  BY <1>0, <1>17 DEF ListEvent
<1>18. CASE ListEnd(t)
  BY <1>0, <1>18 DEF ListEnd
<1>19. CASE Flush(t)
  BY <1>0, <1>19 DEF Flush
<1>20. CASE FlushFail(t)
  BY <1>0, <1>20 DEF FlushFail
<1>21. CASE Write(t)
  BY <1>0, <1>21 DEF Write
<1> QED
  BY <1>1, <1>2, <1>3, <1>4, <1>5, <1>6, <1>7, <1>8, <1>9, <1>10, <1>11, <1>12, <1>13,
     <1>14, <1>15, <1>16, <1>17, <1>18, <1>19, <1>20, <1>21
     DEF Run, Lookup, Create, Reserve, Answer

----------------------------------------------------------------------------
(* The invariant is inductive.                                             *)

\* The invariant holds when the process starts.
LEMMA InitIInv == Init => IInv
<1> SUFFICES ASSUME Init PROVE IInv
  OBVIOUS
<1>1. EventsOK /\ data \in Seq(SeatMaps)
  BY DEF Init, EventsOK, Positions
<1>2. ControlOK /\ LocalsOK
  BY DEF Init, ControlOK, LocalsOK, Labels, NULL
<1>3. LockInv /\ CallInv /\ CountInv
  BY ThreadsAssumption DEF Init, LockInv, CallInv, CountInv, Writer, Locks
<1> QED
  BY <1>1, <1>2, <1>3 DEF IInv, Typed, TypeOK

\* It speaks of the variables of the module only.
LEMMA StutterIInv ==
  ASSUME IInv, UNCHANGED vars
  PROVE  IInv'
<1> USE DEF vars
<1>1. Typed'
  BY DEF IInv, Typed, TypeOK, EventsOK, ControlOK, LocalsOK, Positions, SeatsOf
<1>2. LockInv' /\ CallInv' /\ CountInv'
  BY DEF IInv, LockInv, CallInv, CountInv, Writer, Positions
<1> QED
  BY <1>1, <1>2 DEF IInv

\* Every step keeps it.
LEMMA NextIInv == IInv /\ [Next]_vars => IInv'
<1> SUFFICES ASSUME IInv, [Next]_vars PROVE IInv'
  OBVIOUS
<1>1. ASSUME NEW t \in Threads, Call(t) \/ Run(t) PROVE IInv'
  BY <1>1, EventsStep, ControlStep, LocalsStep, LockStep, CallStep, CountStep
     DEF IInv, Typed, TypeOK
<1>2. CASE UNCHANGED vars
  BY <1>2, StutterIInv
<1> QED
  BY <1>1, <1>2 DEF Next, Quiet

\* In every run of the event manager each variable keeps its type, and every
\* index is inside the array it is used on.
THEOREM TypeCorrect == Spec => []TypeOK
<1>1. IInv => TypeOK
  BY DEF IInv, Typed
<1> QED
  BY InitIInv, NextIInv, <1>1, PTL DEF Spec

\* No operation returns with a lock: not with one of the three rwlocks and not
\* with file_Lock, on no path, a failed write or allocation included.
THEOREM NoLockIsLeft == Spec => []NoLockLeft
<1>1. IInv => NoLockLeft
  BY DEF IInv, LockInv, NoLockLeft, Locks, Writer
<1> QED
  BY InitIInv, NextIInv, <1>1, PTL DEF Spec

----------------------------------------------------------------------------
(* Who owns the seats.                                                     *)

\* The first n seats that request r names, as places in the data of event e.
Taken(e, r, n) == {SeatIndex(e, r.seats[j]) : j \in 1 .. n}

Granted(t) == pc[t] = "done" /\ req[t].op = "reserve" /\ status[t] = 0

\* No seat is owned by a reservation that is not counted.
BoundInv ==
  \A e \in Positions : \A i \in SeatsOf(e) : data[e][i] <= reservations[e]

\* Every reservation that is counted owns a seat, or is still being made.
OwnInv ==
  \A e \in Positions : \A r \in 1 .. reservations[e] :
    \/ \E i \in SeatsOf(e) : data[e][i] = r
    \/ \E t \in Threads : Writer(t) /\ ev[t] = e /\ rid[t] = r

\* The reservation that is being made owns the seats before the next one.
WriterInv ==
  \A t \in Threads : Writer(t) =>
    /\ pc[t] = "lock_seat" => \A i \in SeatsOf(ev[t]) : data[ev[t]][i] # rid[t]
    /\ pc[t] = "seats" =>
        {i \in SeatsOf(ev[t]) : data[ev[t]][i] = rid[t]} = Taken(ev[t], req[t], idx[t] - 1)

\* A reservation that was made owns its seats, and no other is made under its id.
GrantInv ==
  \A t \in Threads : Granted(t) =>
    /\ ev[t] \in Positions /\ rid[t] \in 1 .. reservations[ev[t]]
    /\ \A u \in Threads : Writer(u) /\ ev[u] = ev[t] => rid[t] # rid[u]
    /\ {i \in SeatsOf(ev[t]) : data[ev[t]][i] = rid[t]}
         = Taken(ev[t], req[t], Len(req[t].seats))

SeatInv == IInv /\ BoundInv /\ OwnInv /\ WriterInv /\ GrantInv

\* The locals of thread u that these parts speak of.
Same(u) ==
  /\ pc'[u] = pc[u] /\ req'[u] = req[u] /\ ev'[u] = ev[u] /\ idx'[u] = idx[u]
  /\ rid'[u] = rid[u] /\ status'[u] = status[u]

\* A step of one thread leaves the locals of the others alone.
LEMMA OthersStay ==
  ASSUME IInv, NEW t \in Threads, Call(t) \/ Run(t)
  PROVE  \A u \in Threads \ {t} : Same(u)
<1> USE DEF Same
<1>0. /\ pc \in [Threads -> Labels] /\ req \in [Threads -> Requests \cup {NoRequest}]
      /\ ev \in [Threads -> Nat] /\ idx \in [Threads -> Nat] /\ rid \in [Threads -> Nat]
      /\ status \in [Threads -> {0, 1}]
  BY DEF IInv, Typed, TypeOK, ControlOK, LocalsOK
<1>1. CASE Call(t)
  BY <1>0, <1>1 DEF Call
<1>2. CASE Finish(t)
  BY <1>0, <1>2 DEF Finish
<1>3. CASE LockList(t)
  BY <1>0, <1>3 DEF LockList
<1>4. CASE LockEvent(t)
  BY <1>0, <1>4 DEF LockEvent
<1>5. CASE Find(t)
  BY <1>0, <1>5 DEF Find
<1>6. CASE CreateAlloc(t)
  BY <1>0, <1>6 DEF CreateAlloc
<1>7. CASE CreateLock(t)
  BY <1>0, <1>7 DEF CreateLock
<1>8. CASE CreateAppend(t)
  BY <1>0, <1>8 DEF CreateAppend
<1>9. CASE ReserveId(t)
  BY <1>0, <1>9 DEF ReserveId
<1>10. CASE ReserveLock(t)
  BY <1>0, <1>10 DEF ReserveLock
<1>11. CASE ReserveSeat(t)
  BY <1>0, <1>11 DEF ReserveSeat
<1>12. CASE GiveUp(t)
  BY <1>0, <1>12 DEF GiveUp
<1>13. CASE ReserveEnd(t)
  BY <1>0, <1>13 DEF ReserveEnd
<1>14. CASE ShowLock(t)
  BY <1>0, <1>14 DEF ShowLock
<1>15. CASE ShowSeat(t)
  BY <1>0, <1>15 DEF ShowSeat
<1>16. CASE ShowEnd(t)
  BY <1>0, <1>16 DEF ShowEnd
<1>17. CASE ListEvent(t)
  BY <1>0, <1>17 DEF ListEvent
<1>18. CASE ListEnd(t)
  BY <1>0, <1>18 DEF ListEnd
<1>19. CASE Flush(t)
  BY <1>0, <1>19 DEF Flush
<1>20. CASE FlushFail(t)
  BY <1>0, <1>20 DEF FlushFail
<1>21. CASE Write(t)
  BY <1>0, <1>21 DEF Write
<1> QED
  BY <1>1, <1>2, <1>3, <1>4, <1>5, <1>6, <1>7, <1>8, <1>9, <1>10, <1>11, <1>12, <1>13,
     <1>14, <1>15, <1>16, <1>17, <1>18, <1>19, <1>20, <1>21
     DEF Run, Lookup, Create, Reserve, Answer

\* The steps that do not touch the seats do not begin or end a reservation.
LEMMA Aside ==
  ASSUME IInv, NEW t \in Threads, Call(t) \/ Run(t),
         ~CreateAppend(t), ~ReserveId(t), ~ReserveLock(t), ~ReserveSeat(t),
         ~GiveUp(t), ~ReserveEnd(t)
  PROVE  UNCHANGED events /\ ~Writer(t) /\ ~Writer(t)' /\ ~Granted(t)'
<1> USE DEF Writer, Granted
<1>0. /\ pc \in [Threads -> Labels] /\ req \in [Threads -> Requests \cup {NoRequest}]
      /\ status \in [Threads -> {0, 1}] /\ CallInv
  BY DEF IInv, Typed, TypeOK, ControlOK
<1>1. CASE Call(t)
  BY <1>0, <1>1 DEF Call
<1>2. CASE Finish(t)
  BY <1>0, <1>2 DEF Finish
<1>3. CASE LockList(t)
  BY <1>0, <1>3 DEF LockList
<1>4. CASE LockEvent(t)
  BY <1>0, <1>4 DEF LockEvent
<1>5. CASE Find(t)
  <2>1. req[t].op \in {"create", "reserve", "show"}
    BY <1>5, FindOp DEF Find
  <2> QED
    BY <1>0, <1>5, <2>1 DEF Find
<1>6. CASE CreateAlloc(t)
  BY <1>0, <1>6 DEF CreateAlloc, CallInv
<1>7. CASE CreateLock(t)
  BY <1>0, <1>7 DEF CreateLock
<1>8. CASE ShowLock(t)
  BY <1>0, <1>8 DEF ShowLock
<1>9. CASE ShowSeat(t)
  BY <1>0, <1>9 DEF ShowSeat
<1>10. CASE ShowEnd(t)
  BY <1>0, <1>10 DEF ShowEnd
<1>11. CASE ListEvent(t)
  BY <1>0, <1>11 DEF ListEvent
<1>12. CASE ListEnd(t)
  BY <1>0, <1>12 DEF ListEnd
<1>13. CASE Flush(t)
  BY <1>0, <1>13 DEF Flush
<1>14. CASE FlushFail(t)
  BY <1>0, <1>14 DEF FlushFail
<1>15. CASE Write(t)
  BY <1>0, <1>15 DEF Write, CallInv
<1> QED
  BY <1>1, <1>2, <1>3, <1>4, <1>5, <1>6, <1>7, <1>8, <1>9, <1>10, <1>11, <1>12, <1>13,
     <1>14, <1>15
     DEF Run, Lookup, Create, Reserve, Answer

\* An event keeps the shape of its seats.
LEMMA Shape ==
  ASSUME IInv, NEW t \in Threads, Call(t) \/ Run(t)
  PROVE  \A e \in Positions :
           /\ e \in Positions' /\ SeatsOf(e)' = SeatsOf(e)
           /\ \A r, n : Taken(e, r, n)' = Taken(e, r, n)
BY EventsStep DEF SeatsOf, Taken, SeatIndex

\* The numbers in the seats and counts.
LEMMA SeatNumbers ==
  ASSUME IInv
  PROVE  /\ \A e \in Positions : /\ reservations[e] \in Nat
                                 /\ \A i \in SeatsOf(e) : data[e][i] \in Nat
         /\ \A t \in Threads : rid[t] \in Nat /\ idx[t] \in Nat
BY NodeTypes DEF IInv, Typed, TypeOK, LocalsOK

\* What Taken holds with one more seat.
LEMMA TakenMore ==
  ASSUME NEW e, NEW r, NEW n \in Nat \ {0}
  PROVE  Taken(e, r, n) = Taken(e, r, n - 1) \cup {SeatIndex(e, r.seats[n])}
<1>1. 1 .. n = 1 .. n - 1 \cup {n}
  OBVIOUS
<1> QED
  BY <1>1 DEF Taken

\* A seat is only written with the id of the last reservation counted, and the
\* count only falls when the seats of the last one are given back.
LEMMA BoundStep ==
  ASSUME SeatInv, NEW t \in Threads, Call(t) \/ Run(t)
  PROVE  BoundInv'
<1> USE DEF BoundInv
<1>0. IInv /\ BoundInv
  BY DEF SeatInv
<1>1. /\ \A e \in Positions : SeatsOf(e)' = SeatsOf(e)
      /\ \A e \in Positions : reservations[e] \in Nat /\ \A i \in SeatsOf(e) : data[e][i] \in Nat
  BY <1>0, Shape, SeatNumbers
<1>2. CASE CreateAppend(t) /\ list' # list
  BY <1>0, <1>1, <1>2, Appended
<1>3. CASE ReserveId(t)
  <2>1. Positions' = Positions
    BY <1>3 DEF ReserveId, Positions
  <2> QED
    BY <1>0, <1>1, <1>3, <2>1, Counted
<1>4. CASE ReserveSeat(t)
  <2>1. Positions' = Positions /\ UNCHANGED reservations
    BY <1>4 DEF ReserveSeat, Positions
  <2>2. rid[t] = reservations[ev[t]]
    BY <1>0, <1>4 DEF IInv, CountInv, Writer, ReserveSeat
  <2> QED
    BY <1>0, <1>1, <1>4, <2>1, <2>2, SeatWritten
<1>5. CASE GiveUp(t)
  <2> DEFINE e == ev[t]
  <2>1. Positions' = Positions
    BY <1>5 DEF GiveUp, Positions
  <2>2. rid[t] = reservations[e] /\ rid[t] > 0
    BY <1>0, <1>5 DEF IInv, CountInv, Writer, GiveUp
  <2>3. {i \in SeatsOf(e) : data[e][i] = rid[t]} = Taken(e, req[t], idx[t] - 1)
    BY <1>5 DEF SeatInv, WriterInv, Writer, GiveUp
  <2>4. /\ e \in Positions
        /\ \A d \in Positions : d # e => data'[d] = data[d] /\ reservations'[d] = reservations[d]
        /\ reservations'[e] = reservations[e] - 1
    BY <1>0, <1>5, SeatsCleared
  <2>5. \A i \in SeatsOf(e) : data'[e][i] = IF i \in Taken(e, req[t], idx[t] - 1) THEN 0 ELSE data[e][i]
    BY <1>0, <1>5, SeatsCleared DEF Taken
  <2> HIDE DEF e
  <2>6. \A i \in SeatsOf(e) : \/ data'[e][i] = 0
                              \/ data'[e][i] = data[e][i] /\ data[e][i] # rid[t]
    BY <2>3, <2>5
  <2>7. \A i \in SeatsOf(e) : data'[e][i] <= reservations'[e]
    BY <1>0, <1>1, <2>2, <2>4, <2>6
  <2> QED
    BY <1>0, <1>1, <2>1, <2>4, <2>7
<1>6. CASE UNCHANGED events
  BY <1>0, <1>1, <1>6 DEF Positions
<1> QED
  BY <1>0, <1>2, <1>3, <1>4, <1>5, <1>6, Aside, AppendsOrNot DEF ReserveLock, ReserveEnd

\* A reservation is counted when it begins; when it ends it owns a seat, and
\* when it is given up it is the one that is counted back.
LEMMA OwnStep ==
  ASSUME SeatInv, NEW t \in Threads, Call(t) \/ Run(t)
  PROVE  OwnInv'
<1> USE DEF OwnInv
<1>0. IInv /\ OwnInv /\ \A u \in Threads \ {t} : Same(u)
  BY OthersStay DEF SeatInv
<1>1. /\ \A e \in Positions : SeatsOf(e)' = SeatsOf(e)
      /\ \A e \in Positions : reservations[e] \in Nat /\ \A i \in SeatsOf(e) : data[e][i] \in Nat
      /\ rid[t] \in Nat
  BY <1>0, Shape, SeatNumbers
<1>2. /\ \A u \in Threads \ {t} : (Writer(u)' <=> Writer(u)) /\ ev'[u] = ev[u] /\ rid'[u] = rid[u]
      /\ \A u \in Threads : Writer(t) /\ Writer(u) => u = t
  BY <1>0, OneWriter DEF Same, Writer
<1>3. CASE CreateAppend(t) /\ list' # list
  <2>1. ~Writer(t)
    BY <1>3 DEF CreateAppend, Writer
  <2>2. /\ \A e \in Positions' \ Positions : reservations'[e] = 0
        /\ \A e \in Positions : reservations'[e] = reservations[e] /\ data'[e] = data[e]
    BY <1>0, <1>3, Appended
  <2> QED
    BY <1>0, <1>1, <1>2, <2>1, <2>2
<1>4. CASE ReserveId(t)
  <2>1. /\ Positions' = Positions /\ UNCHANGED <<data, ev>> /\ Writer(t)' /\ ~Writer(t)
        /\ pc' = [pc EXCEPT ![t] = "lock_seat"]
    BY <1>0, <1>4 DEF ReserveId, Positions, Writer, IInv, Typed, TypeOK, ControlOK
  <2>2. /\ ev[t] \in Positions
        /\ \A d \in Positions : d # ev[t] => reservations'[d] = reservations[d]
        /\ reservations'[ev[t]] = reservations[ev[t]] + 1
        /\ rid'[t] = reservations[ev[t]] + 1
    BY <1>0, <1>4, Counted DEF IInv, Typed, TypeOK, LocalsOK
  <2>3. SUFFICES ASSUME NEW e \in Positions, NEW r \in 1 .. reservations'[e]
                 PROVE  \/ \E i \in SeatsOf(e) : data[e][i] = r
                        \/ \E u \in Threads : Writer(u)' /\ ev'[u] = e /\ rid'[u] = r
    BY <1>1, <2>1
  <2>4. CASE r \in 1 .. reservations[e]
    BY <1>0, <1>2, <2>1, <2>4
  <2>5. CASE r \notin 1 .. reservations[e]
    <3>1. e = ev[t] /\ r = reservations[ev[t]] + 1
      BY <1>1, <2>2, <2>5
    <3> QED
      BY <2>1, <2>2, <3>1
  <2> QED
    BY <2>4, <2>5
<1>5. CASE ReserveLock(t)
  <2>1. /\ Positions' = Positions /\ UNCHANGED <<reservations, data, ev, rid>>
        /\ pc' = [pc EXCEPT ![t] = "seats"] /\ pc \in [Threads -> Labels]
    BY <1>0, <1>5 DEF ReserveLock, Positions, IInv, Typed, TypeOK, ControlOK
  <2>2. \A u \in Threads : Writer(u) => Writer(u)'
    BY <1>2, <2>1 DEF Writer
  <2> QED
    BY <1>0, <1>1, <2>1, <2>2
<1>6. CASE ReserveSeat(t)
  <2>1. Positions' = Positions /\ UNCHANGED <<reservations, pc, ev, rid>>
    BY <1>6 DEF ReserveSeat, Positions
  <2>2. \A e \in Positions : \A i \in SeatsOf(e) : data[e][i] # 0 => data'[e][i] = data[e][i]
    BY <1>0, <1>6, SeatWritten
  <2>3. \A u \in Threads : Writer(u)' <=> Writer(u)
    BY <2>1 DEF Writer
  <2>4. SUFFICES ASSUME NEW e \in Positions, NEW r \in 1 .. reservations[e]
                 PROVE  \/ \E i \in SeatsOf(e) : data'[e][i] = r
                        \/ \E u \in Threads : Writer(u) /\ ev[u] = e /\ rid[u] = r
    BY <1>1, <2>1, <2>3
  <2>5. r # 0
    BY <1>1
  <2> QED
    BY <1>0, <2>2, <2>5
<1>7. CASE GiveUp(t)
  <2> DEFINE e == ev[t]
  <2>1. Positions' = Positions
    BY <1>7 DEF GiveUp, Positions
  <2>2. rid[t] = reservations[e] /\ Writer(t)
    BY <1>0, <1>7 DEF IInv, CountInv, Writer, GiveUp
  <2>3. {i \in SeatsOf(e) : data[e][i] = rid[t]} = Taken(e, req[t], idx[t] - 1)
    BY <1>7 DEF SeatInv, WriterInv, Writer, GiveUp
  <2>4. /\ e \in Positions
        /\ \A d \in Positions : d # e => data'[d] = data[d] /\ reservations'[d] = reservations[d]
        /\ reservations'[e] = reservations[e] - 1
    BY <1>0, <1>7, SeatsCleared
  <2>5. \A i \in SeatsOf(e) : data'[e][i] = IF i \in Taken(e, req[t], idx[t] - 1) THEN 0 ELSE data[e][i]
    BY <1>0, <1>7, SeatsCleared DEF Taken
  <2> HIDE DEF e
  <2>6. \A i \in SeatsOf(e) : data[e][i] # rid[t] => data'[e][i] = data[e][i]
    BY <2>3, <2>5
  <2>7. SUFFICES ASSUME NEW d \in Positions, NEW r \in 1 .. reservations'[d]
                 PROVE  \E i \in SeatsOf(d) : data'[d][i] = r
    BY <1>1, <2>1
  <2>8. r \in 1 .. reservations[d] /\ (d = e => r # rid[t])
    BY <1>1, <2>2, <2>4
  <2>9. ~\E u \in Threads : Writer(u) /\ ev[u] = d /\ rid[u] = r
    BY <1>2, <2>2, <2>8 DEF e
  <2>10. PICK i \in SeatsOf(d) : data[d][i] = r
    BY <1>0, <2>8, <2>9
  <2> QED
    BY <2>4, <2>6, <2>8, <2>10
<1>8. CASE ReserveEnd(t)
  <2>1. Positions' = Positions /\ UNCHANGED <<reservations, data, ev, rid>> /\ Writer(t)
    BY <1>8 DEF ReserveEnd, Positions, Writer
  <2>2. /\ req[t].op = "reserve" /\ req[t] \in Requests /\ idx[t] \in Nat
        /\ ev[t] \in Positions
    BY <1>0, <1>8, SeatNumbers DEF ReserveEnd, IInv, CallInv
  <2>3. Len(req[t].seats) \in Nat /\ Len(req[t].seats) > 0
    BY <2>2, RequestSeats
  <2>4. 1 \in 1 .. idx[t] - 1
    BY <1>8, <2>2, <2>3 DEF ReserveEnd
  <2>5. SeatIndex(ev[t], req[t].seats[1]) \in Taken(ev[t], req[t], idx[t] - 1)
    BY <2>4 DEF Taken
  <2>6. \E i \in SeatsOf(ev[t]) : data[ev[t]][i] = rid[t]
    <3>1. {i \in SeatsOf(ev[t]) : data[ev[t]][i] = rid[t]} = Taken(ev[t], req[t], idx[t] - 1)
      BY <1>8 DEF SeatInv, WriterInv, Writer, ReserveEnd
    <3> QED
      BY <2>5, <3>1
  <2> QED
    BY <1>0, <1>1, <1>2, <2>1, <2>2, <2>6
<1>9. CASE UNCHANGED events /\ ~Writer(t)
  BY <1>0, <1>1, <1>2, <1>9 DEF Positions
<1>10. CreateAppend(t) => ~Writer(t)
  BY DEF CreateAppend, Writer
<1> QED
  BY <1>0, <1>3, <1>4, <1>5, <1>6, <1>7, <1>8, <1>9, <1>10, Aside, AppendsOrNot

\* The seats of another thread's reservation stay as they are: the one that is
\* being made belongs to the only thread that may write seats.
LEMMA WriterStep ==
  ASSUME SeatInv, NEW t \in Threads, Call(t) \/ Run(t)
  PROVE  WriterInv'
<1>0. /\ IInv /\ WriterInv /\ BoundInv /\ \A u \in Threads \ {t} : Same(u)
      /\ ev \in [Threads -> Nat] /\ idx \in [Threads -> Nat] /\ rid \in [Threads -> Nat]
      /\ pc \in [Threads -> Labels]
  BY OthersStay DEF SeatInv, IInv, Typed, TypeOK, LocalsOK, ControlOK
<1>1. \A e \in Positions : SeatsOf(e)' = SeatsOf(e) /\ \A r, n : Taken(e, r, n)' = Taken(e, r, n)
  BY <1>0, Shape
<1>2. \A u \in Threads : Writer(u) => ev[u] \in Positions
  BY <1>0 DEF IInv, CallInv, Writer
<1>3. SUFFICES ASSUME NEW u \in Threads, Writer(u)'
               PROVE  /\ pc'[u] = "lock_seat" =>
                          \A i \in SeatsOf(ev[u])' : data'[ev'[u]][i] # rid'[u]
                      /\ pc'[u] = "seats" =>
                          {i \in SeatsOf(ev[u])' : data'[ev'[u]][i] = rid'[u]}
                            = Taken(ev[u], req[u], idx[u] - 1)'
  BY DEF WriterInv
<1>4. CASE u # t
  <2>1. Same(u) /\ Writer(u) /\ ev[u] \in Positions
    BY <1>0, <1>2, <1>3, <1>4 DEF Same, Writer
  <2>2. ~Writer(t)
    BY <1>0, <1>4, <2>1, OneWriter
  <2>3. ~ReserveSeat(t) /\ ~GiveUp(t) /\ ~ReserveLock(t) /\ ~ReserveEnd(t)
    BY <2>2 DEF ReserveSeat, GiveUp, ReserveLock, ReserveEnd, Writer
  <2>4. data'[ev[u]] = data[ev[u]]
    BY <1>0, <2>1, <2>3, Aside, Appended, AppendsOrNot DEF ReserveId
  <2> QED
    BY <1>0, <1>1, <2>1, <2>4 DEF WriterInv, Same
<1>5. CASE u = t
  <2>1. CASE ReserveId(t)
    <3>1. /\ UNCHANGED <<data, ev>> /\ ev[t] \in Positions /\ rid'[t] = reservations[ev[t]] + 1
          /\ pc'[t] = "lock_seat"
      BY <1>0, <2>1, Counted DEF ReserveId
    <3>2. \A i \in SeatsOf(ev[t]) : data[ev[t]][i] <= reservations[ev[t]] /\ data[ev[t]][i] \in Nat
                                    /\ reservations[ev[t]] \in Nat
      BY <1>0, <3>1, SeatNumbers DEF BoundInv
    <3> QED
      BY <1>1, <1>5, <3>1, <3>2
  <2>2. CASE ReserveLock(t)
    <3>1. /\ UNCHANGED <<data, ev, rid, req>> /\ pc[t] = "lock_seat" /\ idx'[t] = 1
          /\ pc'[t] = "seats" /\ ev[t] \in Positions
      BY <1>0, <1>2, <2>2 DEF ReserveLock, Writer
    <3>2. Taken(ev[t], req[t], 0) = {}
      BY DEF Taken
    <3>3. \A i \in SeatsOf(ev[t]) : data[ev[t]][i] # rid[t]
      BY <1>0, <3>1 DEF WriterInv, Writer
    <3>4. Taken(ev[t], req[t], idx[t] - 1)' = {}
      BY <1>1, <3>1, <3>2
    <3> QED
      BY <1>1, <1>5, <3>1, <3>3, <3>4
  <2>3. CASE ReserveSeat(t)
    <3> DEFINE e == ev[t]
               s == SeatIndex(e, req[t].seats[idx[t]])
    <3>1. /\ UNCHANGED <<ev, rid, req, pc>> /\ pc[t] = "seats" /\ idx'[t] = idx[t] + 1
          /\ e \in Positions /\ idx[t] \in Nat \ {0}
      BY <1>0, <1>2, <2>3 DEF ReserveSeat, Writer, IInv, CallInv
    <3>2. /\ s \in SeatsOf(e)
          /\ \A i \in SeatsOf(e) : data'[e][i] = IF i = s THEN rid[t] ELSE data[e][i]
      BY <1>0, <2>3, SeatWritten DEF Seat
    <3>3. {i \in SeatsOf(e) : data[e][i] = rid[t]} = Taken(e, req[t], idx[t] - 1)
      BY <1>0, <3>1 DEF WriterInv, Writer
    <3>4. Taken(e, req[t], idx[t]) = Taken(e, req[t], idx[t] - 1) \cup {s}
      BY <3>1, TakenMore
    <3>5. Taken(ev[t], req[t], idx[t] - 1)' = Taken(e, req[t], idx[t])
      BY <1>1, <3>1
    <3> HIDE DEF s, e
    <3>6. {i \in SeatsOf(e) : data'[e][i] = rid[t]} = Taken(e, req[t], idx[t])
      BY <3>2, <3>3, <3>4
    <3> QED
      BY <1>1, <1>5, <3>1, <3>5, <3>6 DEF e
  <2>4. ReserveId(t) \/ ReserveLock(t) \/ ReserveSeat(t)
    <3>1. CreateAppend(t) \/ GiveUp(t) \/ ReserveEnd(t) => ~Writer(t)'
      BY <1>0 DEF CreateAppend, GiveUp, ReserveEnd, Writer
    <3> QED
      BY <1>0, <1>3, <1>5, <3>1, Aside
  <2> QED
    BY <2>1, <2>2, <2>3, <2>4
<1> QED
  BY <1>4, <1>5

\* What becomes of the seats of a reservation r that is not the one in the making.
LEMMA OthersSeats ==
  ASSUME SeatInv, NEW t \in Threads, Call(t) \/ Run(t), NEW e \in Positions,
         NEW r \in 1 .. reservations[e],
         \A u \in Threads : Writer(u) /\ ev[u] = e => r # rid[u]
  PROVE  /\ r \in 1 .. reservations'[e]
         /\ \A u \in Threads : Writer(u)' /\ ev'[u] = e => r # rid'[u]
         /\ {i \in SeatsOf(e)' : data'[e][i] = r} = {i \in SeatsOf(e) : data[e][i] = r}
<1>0. /\ IInv /\ \A u \in Threads \ {t} : Same(u)
      /\ pc \in [Threads -> Labels] /\ idx \in [Threads -> Nat] /\ rid \in [Threads -> Nat]
      /\ rid[t] \in Nat
  BY OthersStay DEF SeatInv, IInv, Typed, TypeOK, LocalsOK, ControlOK
<1>1. /\ SeatsOf(e)' = SeatsOf(e) /\ reservations[e] \in Nat /\ r \in Nat /\ r > 0
      /\ \A i \in SeatsOf(e) : data[e][i] \in Nat
  BY <1>0, Shape, SeatNumbers
<1>2. \A u \in Threads \ {t} : (Writer(u)' <=> Writer(u)) /\ ev'[u] = ev[u] /\ rid'[u] = rid[u]
  BY <1>0 DEF Same, Writer
<1>3. CASE reservations'[e] = reservations[e] /\ data'[e] = data[e]
           /\ (Writer(t)' => Writer(t) /\ ev'[t] = ev[t] /\ rid'[t] = rid[t])
  BY <1>1, <1>2, <1>3
<1>4. CASE CreateAppend(t)
  <2>1. ~Writer(t)'
    BY <1>0, <1>4 DEF CreateAppend, Writer
  <2> QED
    BY <1>0, <1>3, <1>4, <2>1, Appended, AppendsOrNot
<1>5. CASE ReserveId(t)
  <2>1. /\ UNCHANGED <<data, ev>> /\ rid'[t] = reservations[ev[t]] + 1
        /\ reservations'[e] = IF e = ev[t] THEN reservations[e] + 1 ELSE reservations[e]
    BY <1>0, <1>5, Counted DEF ReserveId
  <2> QED
    BY <1>1, <1>2, <2>1
<1>6. CASE ReserveSeat(t)
  <2>1. /\ UNCHANGED <<reservations, ev, rid, pc>> /\ Writer(t) /\ Writer(t)'
    BY <1>6 DEF ReserveSeat, Writer
  <2>2. CASE ev[t] # e
    BY <1>0, <1>3, <1>6, <2>1, <2>2, SeatWritten
  <2>3. CASE ev[t] = e
    <3>1. r # rid[t]
      BY <2>1, <2>3
    <3>2. \A i \in SeatsOf(e) : data'[e][i] = r <=> data[e][i] = r
      <4>1. /\ data[ev[t]][Seat(t)] = 0
            /\ \A i \in SeatsOf(ev[t]) :
                 data'[ev[t]][i] = IF i = Seat(t) THEN rid[t] ELSE data[ev[t]][i]
        BY <1>0, <1>6, SeatWritten
      <4> QED
        BY <1>1, <2>3, <3>1, <4>1
    <3> QED
      BY <1>1, <1>2, <2>1, <3>1, <3>2
  <2> QED
    BY <2>2, <2>3
<1>7. CASE GiveUp(t)
  <2>1. Writer(t) /\ ~Writer(t)' /\ pc[t] = "seats"
    BY <1>0, <1>7 DEF GiveUp, Writer
  <2>2. CASE ev[t] # e
    BY <1>0, <1>3, <1>7, <2>1, <2>2, SeatsCleared
  <2>3. CASE ev[t] = e
    <3>1. r # rid[t] /\ rid[t] = reservations[e]
      BY <1>0, <2>1, <2>3 DEF IInv, CountInv
    <3>2. {i \in SeatsOf(e) : data[e][i] = rid[t]} = Taken(e, req[t], idx[t] - 1)
      BY <2>1, <2>3 DEF SeatInv, WriterInv
    <3>3. \A i \in SeatsOf(e) : data'[e][i] = IF i \in Taken(e, req[t], idx[t] - 1) THEN 0 ELSE data[e][i]
      <4>1. \A i \in SeatsOf(ev[t]) :
              data'[ev[t]][i] = IF i \in Taken(ev[t], req[t], idx[t] - 1) THEN 0 ELSE data[ev[t]][i]
        BY <1>0, <1>7, SeatsCleared DEF Taken
      <4> QED
        BY <2>3, <4>1
    <3>4. \A i \in SeatsOf(e) : data'[e][i] = r <=> data[e][i] = r
      BY <1>1, <3>1, <3>2, <3>3
    <3>5. reservations'[e] = reservations[e] - 1
      BY <1>0, <1>7, <2>3, SeatsCleared
    <3> QED
      BY <1>1, <1>2, <2>1, <3>1, <3>4, <3>5
  <2> QED
    BY <2>2, <2>3
<1>8. CASE ReserveLock(t) \/ ReserveEnd(t)
  BY <1>3, <1>8 DEF ReserveLock, ReserveEnd, Writer
<1>9. CASE UNCHANGED events /\ ~Writer(t)'
  BY <1>3, <1>9
<1> QED
  BY <1>0, <1>4, <1>5, <1>6, <1>7, <1>8, <1>9, Aside

\* A reservation that has been made keeps its seats and its id.
LEMMA GrantStep ==
  ASSUME SeatInv, NEW t \in Threads, Call(t) \/ Run(t)
  PROVE  GrantInv'
<1>0. /\ IInv /\ GrantInv /\ \A u \in Threads \ {t} : Same(u)
      /\ pc \in [Threads -> Labels] /\ idx \in [Threads -> Nat]
  BY OthersStay DEF SeatInv, IInv, Typed, TypeOK, LocalsOK, ControlOK
<1>1. \A e \in Positions : /\ e \in Positions' /\ SeatsOf(e)' = SeatsOf(e)
                           /\ \A r, n : Taken(e, r, n)' = Taken(e, r, n)
  BY <1>0, Shape
<1>2. SUFFICES ASSUME NEW u \in Threads, Granted(u)'
               PROVE  /\ ev'[u] \in Positions' /\ rid'[u] \in 1 .. reservations'[ev'[u]]
                      /\ \A v \in Threads : Writer(v)' /\ ev'[v] = ev'[u] => rid'[u] # rid'[v]
                      /\ {i \in SeatsOf(ev[u])' : data'[ev'[u]][i] = rid'[u]}
                           = Taken(ev[u], req[u], Len(req[u].seats))'
  BY DEF GrantInv
<1>3. CASE u # t
  <2>1. Same(u) /\ Granted(u)
    BY <1>0, <1>2, <1>3 DEF Same, Granted
  <2>2. /\ ev[u] \in Positions /\ rid[u] \in 1 .. reservations[ev[u]]
        /\ \A v \in Threads : Writer(v) /\ ev[v] = ev[u] => rid[u] # rid[v]
        /\ {i \in SeatsOf(ev[u]) : data[ev[u]][i] = rid[u]}
             = Taken(ev[u], req[u], Len(req[u].seats))
    BY <1>0, <2>1 DEF GrantInv
  <2>3. /\ rid[u] \in 1 .. reservations'[ev[u]]
        /\ \A v \in Threads : Writer(v)' /\ ev'[v] = ev[u] => rid[u] # rid'[v]
        /\ {i \in SeatsOf(ev[u])' : data'[ev[u]][i] = rid[u]}
             = {i \in SeatsOf(ev[u]) : data[ev[u]][i] = rid[u]}
    <3> DEFINE e == ev[u]
               r == rid[u]
    <3>1. /\ e \in Positions /\ r \in 1 .. reservations[e]
          /\ \A v \in Threads : Writer(v) /\ ev[v] = e => r # rid[v]
      BY <2>2
    <3> HIDE DEF e, r
    <3>2. /\ r \in 1 .. reservations'[e]
          /\ \A v \in Threads : Writer(v)' /\ ev'[v] = e => r # rid'[v]
          /\ {i \in SeatsOf(e) : data'[e][i] = r} = {i \in SeatsOf(e) : data[e][i] = r}
      BY <1>1, <3>1, OthersSeats
    <3> QED
      BY <1>1, <2>1, <2>2, <3>2 DEF e, r, Same
  <2> QED
    BY <1>1, <2>1, <2>2, <2>3 DEF Same
<1>4. CASE u = t
  <2>1. ReserveEnd(t)
    <3>1. /\ CreateAppend(t) => req[t].op = "create" /\ req'[t] = req[t]
          /\ ReserveId(t) \/ ReserveLock(t) \/ ReserveSeat(t) => pc'[t] # "done"
          /\ GiveUp(t) => status'[t] = 1
      BY <1>0 DEF CreateAppend, ReserveId, ReserveLock, ReserveSeat, GiveUp, IInv, CallInv,
                  Typed, TypeOK, ControlOK
    <3> QED
      BY <1>0, <1>2, <1>4, <3>1, Aside DEF Granted
  <2>2. /\ UNCHANGED <<events, ev, rid, req, idx>> /\ Writer(t) /\ pc[t] = "seats"
        /\ idx[t] > Len(req[t].seats) /\ pc'[t] = "done" /\ Positions' = Positions
    BY <1>0, <2>1 DEF ReserveEnd, Writer, Positions
  <2>3. /\ ev[t] \in Positions /\ Len(req[t].seats) \in Nat
        /\ idx[t] \in 1 .. Len(req[t].seats) + 1
        /\ rid[t] = reservations[ev[t]] /\ rid[t] > 0 /\ rid[t] \in Nat
    BY <1>0, <2>2, RequestSeats, SeatNumbers DEF IInv, CallInv, CountInv
  <2>4. idx[t] - 1 = Len(req[t].seats)
    BY <2>2, <2>3
  <2>5. {i \in SeatsOf(ev[t]) : data[ev[t]][i] = rid[t]} = Taken(ev[t], req[t], Len(req[t].seats))
    BY <2>2, <2>4 DEF SeatInv, WriterInv
  <2>6. \A v \in Threads : ~Writer(v)'
    <3>1. \A v \in Threads \ {t} : ~Writer(v)
      BY <1>0, <2>2, OneWriter
    <3> QED
      BY <1>0, <2>2, <3>1 DEF Same, Writer
  <2> QED
    BY <1>1, <1>4, <2>2, <2>3, <2>5, <2>6
<1> QED
  BY <1>3, <1>4

\* There are no events when the process starts.
LEMMA InitSeatInv == Init => SeatInv
<1> SUFFICES ASSUME Init PROVE SeatInv
  OBVIOUS
<1>1. \A t \in Threads : ~Writer(t) /\ ~Granted(t)
  BY DEF Init, Writer, Granted
<1>2. Positions = {}
  BY DEF Init, Positions
<1> QED
  BY <1>1, <1>2, InitIInv DEF SeatInv, BoundInv, OwnInv, WriterInv, GrantInv

\* Every step keeps the owners of the seats in order.
LEMMA NextSeatInv == SeatInv /\ [Next]_vars => SeatInv'
<1> SUFFICES ASSUME SeatInv, [Next]_vars PROVE SeatInv'
  OBVIOUS
<1>0. IInv'
  BY NextIInv DEF SeatInv
<1>1. ASSUME NEW t \in Threads, Call(t) \/ Run(t) PROVE SeatInv'
  BY <1>0, <1>1, BoundStep, OwnStep, WriterStep, GrantStep DEF SeatInv
<1>2. CASE UNCHANGED vars
  <2> USE DEF vars, Positions, SeatsOf, Writer, Granted, Taken, SeatIndex
  <2>1. BoundInv' /\ OwnInv'
    BY <1>2 DEF SeatInv, BoundInv, OwnInv
  <2>2. WriterInv'
    BY <1>2 DEF SeatInv, WriterInv
  <2>3. GrantInv'
    <3>1. SUFFICES ASSUME NEW t \in Threads, Granted(t)
                   PROVE  /\ ev'[t] \in Positions /\ rid'[t] \in 1 .. reservations'[ev'[t]]
                          /\ \A u \in Threads : Writer(u) /\ ev'[u] = ev'[t] => rid'[t] # rid'[u]
                          /\ {i \in SeatsOf(ev[t])' : data'[ev'[t]][i] = rid'[t]}
                               = Taken(ev[t], req[t], Len(req[t].seats))'
      BY <1>2 DEF GrantInv
    <3>2. {i \in SeatsOf(ev[t]) : data[ev[t]][i] = rid[t]}
            = Taken(ev[t], req[t], Len(req[t].seats))
      BY <3>1 DEF SeatInv, GrantInv
    <3>3. {i \in SeatsOf(ev[t])' : data'[ev'[t]][i] = rid'[t]}
            = Taken(ev[t], req[t], Len(req[t].seats))'
      BY <1>2, <3>2
    <3> QED
      BY <1>2, <3>1, <3>3 DEF SeatInv, GrantInv
  <2> QED
    BY <1>0, <2>1, <2>2, <2>3 DEF SeatInv
<1> QED
  BY <1>1, <1>2 DEF Next, Quiet

\* While no thread may write seats, the seats of an event are owned by exactly
\* the reservations it has counted: a RESERVE of Part 1 that fails half way gives
\* back all its seats, none of another, and its id.
THEOREM RollbackIsComplete == Spec => []RollbackComplete
<1>1. SeatInv => RollbackComplete
  <2> SUFFICES ASSUME SeatInv, NEW e \in Positions, wr["event"] = NoThread
               PROVE  Owners(e) = 1 .. reservations[e]
    BY DEF RollbackComplete
  <2>1. \A t \in Threads : ~Writer(t)
    BY ThreadsAssumption DEF SeatInv, IInv, LockInv
  <2>2. /\ reservations[e] \in Nat
        /\ \A i \in SeatsOf(e) : data[e][i] \in Nat /\ data[e][i] <= reservations[e]
    BY SeatNumbers DEF SeatInv, BoundInv
  <2>3. \A r \in 1 .. reservations[e] : \E i \in SeatsOf(e) : data[e][i] = r
    BY <2>1 DEF SeatInv, OwnInv
  <2>4. Owners(e) \subseteq 1 .. reservations[e]
    BY <2>2 DEF Owners
  <2>5. 1 .. reservations[e] \subseteq Owners(e)
    BY <2>2, <2>3 DEF Owners
  <2> QED
    BY <2>4, <2>5
<1> QED
  BY InitSeatInv, NextSeatInv, <1>1, PTL DEF Spec

\* A RESERVE of Part 1 that succeeded owns all the seats it asked for and no
\* other, whatever the other threads did since.
THEOREM ReservationIsHonoured == Spec => []ReservationHonoured
<1>1. SeatInv => ReservationHonoured
  BY DEF SeatInv, GrantInv, Granted, ReservationHonoured, Taken
<1> QED
  BY InitSeatInv, NextSeatInv, <1>1, PTL DEF Spec

----------------------------------------------------------------------------
(* The pieces of the output.                                               *)

Piece(i, t, c) == output[i].by = t /\ output[i].call = c

Busy(t) == pc[t] \notin {"idle", "done"}

\* No piece is of a call that has not begun.
PastInv == \A i \in 1 .. Len(output) : output[i].call <= calls[output[i].by]

\* A thread that has written in the call it is in keeps file_Lock, so the last
\* piece is its own.
LastInv ==
  \A t \in Threads : Busy(t) /\ (\E i \in 1 .. Len(output) : Piece(i, t, calls[t])) =>
    file = t /\ Piece(Len(output), t, calls[t])

PieceInv == IInv /\ PastInv /\ LastInv /\ PiecesTogether

\* A step writes one piece, with file_Lock, or none.
LEMMA WritesOrNot ==
  ASSUME IInv, NEW t \in Threads, Call(t) \/ Run(t)
  PROVE  /\ \A u \in Threads \ {t} : (Busy(u)' <=> Busy(u)) /\ calls'[u] = calls[u]
         /\ \/ /\ UNCHANGED <<output, file>> /\ calls'[t] = calls[t] /\ (Busy(t)' => Busy(t))
            \/ UNCHANGED <<output, file>> /\ calls'[t] = calls[t] + 1
            \/ /\ UNCHANGED output /\ calls'[t] = calls[t] /\ ~Busy(t)' /\ file \in {NoThread, t}
            \/ /\ output' = Written(t) /\ calls'[t] = calls[t] /\ Busy(t)
               /\ file \in {NoThread, t} /\ (Busy(t)' => file' = t)
<1> USE DEF Busy
<1>0. pc \in [Threads -> Labels] /\ calls \in [Threads -> Nat]
  BY DEF IInv, Typed, TypeOK, ControlOK
<1>1. CASE Call(t)
  BY <1>0, <1>1 DEF Call
<1>2. CASE Finish(t)
  BY <1>0, <1>2 DEF Finish
<1>3. CASE LockList(t)
  BY <1>0, <1>3 DEF LockList
<1>4. CASE LockEvent(t)
  BY <1>0, <1>4 DEF LockEvent
<1>5. CASE Find(t)
  BY <1>0, <1>5 DEF Find
<1>6. CASE CreateAlloc(t)
  BY <1>0, <1>6 DEF CreateAlloc
<1>7. CASE CreateLock(t)
  BY <1>0, <1>7 DEF CreateLock
<1>8. CASE CreateAppend(t)
  BY <1>0, <1>8 DEF CreateAppend
<1>9. CASE ReserveId(t)
  BY <1>0, <1>9 DEF ReserveId
<1>10. CASE ReserveLock(t)
  BY <1>0, <1>10 DEF ReserveLock
<1>11. CASE ReserveSeat(t)
  BY <1>0, <1>11 DEF ReserveSeat
<1>12. CASE GiveUp(t)
  BY <1>0, <1>12 DEF GiveUp
<1>13. CASE ReserveEnd(t)
  BY <1>0, <1>13 DEF ReserveEnd
<1>14. CASE ShowLock(t)
  BY <1>0, <1>14 DEF ShowLock
<1>15. CASE ShowSeat(t)
  BY <1>0, <1>15 DEF ShowSeat
<1>16. CASE ShowEnd(t)
  BY <1>0, <1>16 DEF ShowEnd
<1>17. CASE ListEvent(t)
  BY <1>0, <1>17 DEF ListEvent
<1>18. CASE ListEnd(t)
  BY <1>0, <1>18 DEF ListEnd
<1>19. CASE Flush(t)
  BY <1>0, <1>19 DEF Flush, LockFile
<1>20. CASE FlushFail(t)
  BY <1>0, <1>20 DEF FlushFail
<1>21. CASE Write(t)
  BY <1>0, <1>21 DEF Write
<1> QED
  BY <1>1, <1>2, <1>3, <1>4, <1>5, <1>6, <1>7, <1>8, <1>9, <1>10, <1>11, <1>12, <1>13,
     <1>14, <1>15, <1>16, <1>17, <1>18, <1>19, <1>20, <1>21
     DEF Run, Lookup, Create, Reserve, Answer

\* What is in the output file after a piece more.
LEMMA OnePiece ==
  ASSUME IInv, NEW t \in Threads, output' = Written(t), Busy(t)
  PROVE  /\ Len(output) \in Nat /\ Len(output') = Len(output) + 1
         /\ \A i \in 1 .. Len(output) : output'[i] = output[i]
         /\ output'[Len(output) + 1].by = t /\ output'[Len(output) + 1].call = calls[t]
<1> DEFINE p == [by |-> t, call |-> calls[t], text |-> buffer[t]]
<1>1. output \in Seq([by : Threads, call : Nat, text : Seq(Nat)])
      /\ p \in [by : Threads, call : Nat, text : Seq(Nat)] /\ p.by = t /\ p.call = calls[t]
  BY DEF IInv, Typed, TypeOK, LocalsOK, ControlOK
<1>2. output' = Append(output, p)
  BY DEF Written
<1> HIDE DEF p
<1> QED
  BY <1>1, <1>2, AppendProperties, LenProperties

\* The steps keep the pieces of a call together.
LEMMA PieceStep ==
  ASSUME PieceInv, NEW t \in Threads, Call(t) \/ Run(t)
  PROVE  PastInv' /\ LastInv' /\ PiecesTogether'
<1> DEFINE n == Len(output)
<1>0. /\ IInv /\ PastInv /\ LastInv /\ PiecesTogether /\ NoThread \notin Threads
      /\ \A i \in 1 .. n : output[i].by \in Threads /\ output[i].call \in Nat
      /\ \A u \in Threads : calls[u] \in Nat
      /\ n \in Nat
  <2>1. output \in Seq([by : Threads, call : Nat, text : Seq(Nat)]) /\ calls \in [Threads -> Nat]
    BY DEF PieceInv, IInv, Typed, TypeOK, LocalsOK, ControlOK
  <2>2. \A i \in 1 .. n : output[i] \in [by : Threads, call : Nat, text : Seq(Nat)]
    BY <2>1, ElementOfSeq
  <2> QED
    BY <2>1, <2>2, ThreadsAssumption, LenProperties DEF PieceInv
<1>1. \A u \in Threads \ {t} : (Busy(u)' <=> Busy(u)) /\ calls'[u] = calls[u]
  BY <1>0, WritesOrNot
<1>2. CASE output' = Written(t) /\ Busy(t)
  <2>1. /\ Len(output') = n + 1 /\ \A i \in 1 .. n : output'[i] = output[i]
        /\ output'[n + 1].by = t /\ output'[n + 1].call = calls[t]
    BY <1>0, <1>2, OnePiece
  <2>2. calls'[t] = calls[t] /\ file \in {NoThread, t} /\ (Busy(t)' => file' = t)
    BY <1>0, <1>2, <2>1, WritesOrNot
  <2>3. \A u \in Threads : calls'[u] = calls[u]
    BY <1>1, <2>2
  <2>4. PastInv'
    BY <1>0, <2>1, <2>3 DEF PastInv
  <2>5. LastInv'
    <3>1. SUFFICES ASSUME NEW u \in Threads, Busy(u)', NEW i \in 1 .. n + 1,
                          output'[i].by = u, output'[i].call = calls[u]
                   PROVE  /\ file' = u
                          /\ output'[n + 1].by = u /\ output'[n + 1].call = calls[u]
      BY <2>1, <2>3 DEF LastInv, Piece
    <3>2. CASE u = t
      BY <2>1, <2>2, <3>1, <3>2
    <3>3. CASE u # t
      <4>1. i \in 1 .. n /\ Piece(i, u, calls[u]) /\ Busy(u)
        BY <1>0, <1>1, <2>1, <3>1, <3>3 DEF Piece
      <4>2. file = u
        BY <1>0, <4>1 DEF LastInv
      <4> QED
        BY <1>0, <2>2, <3>3, <4>2
    <3> QED
      BY <3>2, <3>3
  <2>6. PiecesTogether'
    <3>1. SUFFICES ASSUME NEW i \in 1 .. n + 1, NEW j \in 1 .. n + 1, NEW k \in 1 .. n + 1,
                          i < j, j < k,
                          output'[i].by = output'[k].by, output'[i].call = output'[k].call
                   PROVE  output'[j].by = output'[i].by /\ output'[j].call = output'[i].call
      BY <2>1 DEF PiecesTogether
    <3>2. i \in 1 .. n /\ j \in 1 .. n
      BY <1>0, <3>1
    <3>3. CASE k \in 1 .. n
      BY <1>0, <2>1, <3>1, <3>2, <3>3 DEF PiecesTogether
    <3>4. CASE k = n + 1
      <4>1. Piece(i, t, calls[t])
        BY <2>1, <3>1, <3>2, <3>4 DEF Piece
      <4>2. n \in 1 .. n /\ Piece(n, t, calls[t])
        BY <1>0, <1>2, <3>2, <4>1 DEF LastInv
      <4>3. Piece(j, t, calls[t])
        BY <1>0, <3>1, <3>2, <4>1, <4>2 DEF PiecesTogether, Piece
      <4> QED
        BY <2>1, <3>2, <4>1, <4>3 DEF Piece
    <3> QED
      BY <1>0, <3>3, <3>4
  <2> QED
    BY <2>4, <2>5, <2>6
<1>3. CASE UNCHANGED output
  <2>1. CASE output' = Written(t) /\ Busy(t)
    BY <1>2, <2>1
  <2>2. CASE ~(output' = Written(t) /\ Busy(t))
    <3>1. \/ file' = file /\ calls'[t] = calls[t] /\ (Busy(t)' => Busy(t))
          \/ file' = file /\ calls'[t] = calls[t] + 1
          \/ calls'[t] = calls[t] /\ ~Busy(t)' /\ file \in {NoThread, t}
      BY <1>0, <2>2, WritesOrNot
    <3>2. \A u \in Threads : calls[u] <= calls'[u]
      BY <1>0, <1>1, <3>1
    <3>3. PastInv'
      BY <1>0, <1>1, <1>3, <3>1 DEF PastInv
    <3>4. LastInv'
      <4>1. SUFFICES ASSUME NEW u \in Threads, Busy(u)', NEW i \in 1 .. n, Piece(i, u, calls'[u])
                     PROVE  file' = u /\ Piece(n, u, calls'[u])
        BY <1>3 DEF LastInv, Piece
      <4>2. calls'[u] = calls[u]
        BY <1>0, <1>1, <3>1, <4>1 DEF PastInv, Piece
      <4>3. CASE Busy(u) /\ file' = file
        BY <1>0, <4>1, <4>2, <4>3 DEF LastInv
      <4>4. CASE u # t /\ file \in {NoThread, t}
        BY <1>0, <1>1, <4>1, <4>2, <4>4 DEF LastInv
      <4> QED
        BY <1>0, <1>1, <3>1, <4>1, <4>2, <4>3, <4>4
    <3>5. PiecesTogether'
      BY <1>0, <1>3 DEF PiecesTogether
    <3> QED
      BY <3>3, <3>4, <3>5
  <2> QED
    BY <2>1, <2>2
<1> QED
  BY <1>0, <1>2, <1>3, WritesOrNot

\* Nothing is written when the process starts.
LEMMA InitPieceInv == Init => PieceInv
<1> SUFFICES ASSUME Init PROVE PieceInv
  OBVIOUS
<1>1. 1 .. Len(output) = {}
  BY DEF Init
<1> QED
  BY <1>1, InitIInv DEF PieceInv, PastInv, LastInv, PiecesTogether

\* Every step keeps the pieces of a call together.
LEMMA NextPieceInv == PieceInv /\ [Next]_vars => PieceInv'
<1> SUFFICES ASSUME PieceInv, [Next]_vars PROVE PieceInv'
  OBVIOUS
<1>0. IInv'
  BY NextIInv DEF PieceInv
<1>1. ASSUME NEW t \in Threads, Call(t) \/ Run(t) PROVE PieceInv'
  BY <1>0, <1>1, PieceStep DEF PieceInv
<1>2. CASE UNCHANGED vars
  <2>1. PastInv' /\ LastInv' /\ PiecesTogether'
    BY <1>2 DEF PieceInv, PastInv, LastInv, PiecesTogether, Piece, Busy, vars
  <2> QED
    BY <1>0, <2>1 DEF PieceInv
<1> QED
  BY <1>1, <1>2 DEF Next, Quiet

\* The pieces of one SHOW or LIST follow each other in the output file, although
\* the mutex is taken at the first flush only: no other thread writes in between.
THEOREM PiecesStayTogether == Spec => []PiecesTogether
<1>1. PieceInv => PiecesTogether
  BY DEF PieceInv
<1> QED
  BY InitPieceInv, NextPieceInv, <1>1, PTL DEF Spec

----------------------------------------------------------------------------
(* What SHOW and LIST print.                                               *)

\* The part of the text that is written or in the buffer.
Sent(t) == Text(t) \o buffer[t]

\* Who holds a lock, by where he is; a lock held for writing has no reader.
HoldInv ==
  /\ \A l \in Locks : wr[l] # NoThread => rd[l] = {}
  /\ \A t \in Threads :
       /\ pc[t] = "list" \/ (pc[t] = "write" /\ req[t].op = "list") => t \in rd["list"]
       /\ pc[t] = "show_seats" => t \in rd["seat"]
       /\ pc[t] = "append" => wr["list"] = t
       /\ pc[t] = "seats" => wr["seat"] = t

\* A command that has not come to its text has written nothing.
Early(t) == pc[t] \in {"lock_list", "lock_event", "find", "show"}
FreshInv ==
  \A t \in Threads :
    /\ pc[t] = "idle" \/ Early(t) => buffer[t] = << >> /\ idx[t] = 0
    /\ Early(t) => Text(t) = << >>

\* The seats of event e after its first m reservations, all of which are made.
Seating(e, m) ==
  [j \in 1 .. list[e].rows * list[e].cols |-> IF data[e][j - 1] <= m THEN data[e][j - 1] ELSE 0]
Settled(e, m) ==
  m \in 0 .. reservations[e] /\ \A u \in Threads : Writer(u) /\ ev[u] = e => m < rid[u]
Shown(t, s) ==
  \E e \in Positions, m \in Nat : e = ev[t] /\ Settled(e, m) /\ s = Seating(e, m)

\* SHOW has put the seats before idx in its text, and nobody writes a seat; then
\* the seats are let go, and what it read stays the seating of that moment.
ShowInv ==
  \A t \in Threads :
    /\ pc[t] = "show_seats" =>
         /\ idx[t] <= list[ev[t]].rows * list[ev[t]].cols /\ Len(Sent(t)) = idx[t]
         /\ \A j \in 1 .. idx[t] : Sent(t)[j] = data[ev[t]][j - 1]
    /\ pc[t] = "write" /\ req[t].op = "show" => Shown(t, Sent(t))
    /\ Printed(t, "show") => Shown(t, Text(t))

\* LIST has put the ids before its node in its text, and nobody appends.
ListInv ==
  \A t \in Threads :
    /\ pc[t] = "list" =>
         /\ ev[t] \in 1 .. Len(list) + 1 /\ Len(Sent(t)) = ev[t] - 1
         /\ \A j \in 1 .. ev[t] - 1 : Sent(t)[j] = list[j].id
    /\ pc[t] = "write" /\ req[t].op = "list" => Sent(t) = [j \in Positions |-> list[j].id]

TextInv == SeatInv /\ PieceInv /\ HoldInv /\ FreshInv /\ ShowInv /\ ListInv

----------------------------------------------------------------------------
(* The text.                                                               *)

\* The pieces of a call are sequences of numbers.
LEMMA PiecesTyped ==
  ASSUME TypeOK, NEW t \in Threads
  PROVE  /\ Pieces(t) \in Seq(Seq(Nat)) /\ Len(Pieces(t)) = Len(output) /\ Text(t) \in Seq(Nat)
         /\ Len(output) \in Nat /\ buffer[t] \in Seq(Nat) /\ Sent(t) \in Seq(Nat)
<1>1. output \in Seq([by : Threads, call : Nat, text : Seq(Nat)]) /\ buffer[t] \in Seq(Nat)
  BY DEF TypeOK, LocalsOK
<1>2. PICK n \in Nat : n = Len(output)
  BY <1>1, LenProperties
<1>3. ASSUME NEW j \in 1 .. n
      PROVE  (IF output[j].by = t /\ output[j].call = calls[t] THEN output[j].text ELSE << >>) \in Seq(Nat)
  <2>1. output[j] \in [by : Threads, call : Nat, text : Seq(Nat)]
    BY <1>1, <1>2, <1>3, ElementOfSeq
  <2> QED
    BY <2>1
<1>4. Pieces(t) \in [1 .. n -> Seq(Nat)]
  BY <1>2, <1>3 DEF Pieces
<1>5. Pieces(t) \in Seq(Seq(Nat)) /\ Len(Pieces(t)) = n
  BY <1>4
<1>6. Text(t) \in Seq(Nat)
  BY <1>5, FlattenType DEF Text
<1> QED
  BY <1>1, <1>2, <1>5, <1>6, ConcatProperties DEF Sent

\* A function on 1 .. k is a sequence.
LEMMA FunctionIsSeq ==
  ASSUME NEW X, NEW k \in Nat, NEW f \in [1 .. k -> X]
  PROVE  f \in Seq(X) /\ Len(f) = k
OBVIOUS

\* A sequence of texts with one more at its end.
LEMMA OneMore ==
  ASSUME NEW n \in Nat, NEW x \in Seq(Nat), NEW s \in Seq(Seq(Nat)), Len(s) = n,
         NEW q \in Seq(Seq(Nat)), Len(q) = n + 1,
         \A j \in 1 .. n + 1 : q[j] = IF j <= n THEN s[j] ELSE x
  PROVE  q = Append(s, x)
<1>1. PICK a \in Seq(Seq(Nat)) : a = Append(s, x)
  BY AppendProperties
<1>2. Len(a) = n + 1 /\ \A j \in 1 .. n + 1 : a[j] = IF j <= n THEN s[j] ELSE x
  <2>1. Len(a) = n + 1 /\ a[n + 1] = x /\ \A j \in 1 .. n : a[j] = s[j]
    BY <1>1, AppendProperties
  <2>2. \A j \in 1 .. n + 1 : j \in 1 .. n \/ (j = n + 1 /\ ~(j <= n))
    OBVIOUS
  <2> QED
    BY <2>1, <2>2
<1>3. Len(q) = Len(a) /\ \A j \in 1 .. Len(q) : q[j] = a[j]
  BY <1>2
<1>4. q = a
  BY <1>3, SeqEqual
<1> QED
  BY <1>1, <1>4, Zenon

\* A text stays when nothing is written,
LEMMA TextStays ==
  ASSUME NEW t \in Threads, UNCHANGED output, calls'[t] = calls[t]
  PROVE  Text(t)' = Text(t)
BY DEF Text, Pieces

\* a write adds the buffer to the writer's text and leaves the others,
LEMMA TextWritten ==
  ASSUME TypeOK, NEW t \in Threads, NEW u \in Threads, output' = Written(u), calls'[t] = calls[t]
  PROVE  Text(t)' = IF t = u THEN Text(t) \o buffer[t] ELSE Text(t)
<1>1. output \in Seq([by : Threads, call : Nat, text : Seq(Nat)]) /\ buffer[u] \in Seq(Nat)
      /\ calls[u] \in Nat
  BY DEF TypeOK, LocalsOK, ControlOK
<1>2. PICK p \in [by : Threads, call : Nat, text : Seq(Nat)] :
        p = [by |-> u, call |-> calls[u], text |-> buffer[u]]
  BY <1>1
<1>3. output' = Append(output, p) /\ p.by = u /\ p.call = calls[u] /\ p.text = buffer[u]
  BY <1>2 DEF Written
<1>4. PICK n \in Nat : n = Len(output)
  BY <1>1, LenProperties
<1>5. Len(output') = n + 1 /\ output'[n + 1] = p /\ \A j \in 1 .. n : output'[j] = output[j]
  BY <1>1, <1>3, <1>4, AppendProperties
<1>6. PICK x \in Seq(Nat) : x = IF t = u THEN buffer[t] ELSE << >>
  BY <1>1, EmptySeq
<1>7. PICK s \in Seq(Seq(Nat)) : s = Pieces(t)
  BY PiecesTyped
<1>8. Len(s) = n /\ \A j \in 1 .. n :
        s[j] = IF output[j].by = t /\ output[j].call = calls[t] THEN output[j].text ELSE << >>
  BY <1>4, <1>7, PiecesTyped DEF Pieces
<1>9. PICK q : q = Pieces(t)'
  OBVIOUS
<1>10. q = [j \in 1 .. n + 1 |->
              IF output'[j].by = t /\ output'[j].call = calls'[t] THEN output'[j].text ELSE << >>]
  BY <1>5, <1>9 DEF Pieces
<1>11. \A j \in 1 .. n + 1 : q[j] = IF j <= n THEN s[j] ELSE x
  <2>0. \A j \in 1 .. n + 1 :
          q[j] = IF output'[j].by = t /\ output'[j].call = calls'[t] THEN output'[j].text ELSE << >>
    BY <1>10
  <2>1. ASSUME NEW j \in 1 .. n PROVE q[j] = s[j]
    <3>1. j \in 1 .. n + 1 /\ output'[j] = output[j]
      BY <1>5
    <3> QED
      BY <1>8, <2>0, <3>1
  <2>2. q[n + 1] = x
    <3>1. n + 1 \in 1 .. n + 1 /\ output'[n + 1] = p
      BY <1>5
    <3>2. q[n + 1] = IF p.by = t /\ p.call = calls'[t] THEN p.text ELSE << >>
      BY <2>0, <3>1
    <3>3. t = u => calls[u] = calls'[t]
      OBVIOUS
    <3> QED
      BY <1>3, <1>6, <3>2, <3>3
  <2>3. ASSUME NEW j \in 1 .. n + 1 PROVE q[j] = IF j <= n THEN s[j] ELSE x
    <3>1. j \in 1 .. n \/ (j = n + 1 /\ ~(j <= n))
      OBVIOUS
    <3> QED
      BY <2>1, <2>2, <3>1
  <2> QED
    BY <2>3
<1>12. q = Append(s, x)
  <2>1. q = [j \in 1 .. n + 1 |-> q[j]]
    BY <1>10
  <2>2. \A j \in 1 .. n + 1 : q[j] \in Seq(Nat)
    BY <1>8, <1>11
  <2>3. q \in [1 .. n + 1 -> Seq(Nat)]
    BY <2>1, <2>2
  <2>4. q \in Seq(Seq(Nat)) /\ Len(q) = n + 1
    <3>1. n + 1 \in Nat
      OBVIOUS
    <3> QED
      BY <2>3, <3>1, FunctionIsSeq, Zenon
  <2>5. Len(s) = n
    BY <1>8
  <2> QED
    BY <1>11, <2>4, <2>5, OneMore
<1>13. FlattenSeq(q) = FlattenSeq(s) \o x
  BY <1>12, FlattenAppend
<1>14. PICK z \in Seq(Nat) : z = FlattenSeq(s)
  BY FlattenType
<1>15. z \o << >> = z
  BY ConcatEmptySeq
<1> QED
  BY <1>6, <1>7, <1>9, <1>13, <1>14, <1>15, Zenon DEF Text

\* and a call that has just begun has none.
LEMMA TextBegins ==
  ASSUME TypeOK, PastInv, NEW t \in Threads, UNCHANGED output, calls'[t] = calls[t] + 1
  PROVE  Text(t)' = << >>
<1>1. PICK n \in Nat : n = Len(output)
  BY PiecesTyped
<1>2. calls[t] \in Nat /\ \A j \in 1 .. n : output[j] \in [by : Threads, call : Nat, text : Seq(Nat)]
  BY <1>1, ElementOfSeq DEF TypeOK, ControlOK, LocalsOK
<1>3. ASSUME NEW j \in 1 .. n PROVE ~(output[j].by = t /\ output[j].call = calls[t] + 1)
  BY <1>1, <1>2 DEF PastInv
<1>4. PICK q : q = Pieces(t)'
  OBVIOUS
<1>5. q = [j \in 1 .. n |-> << >>]
  BY <1>1, <1>3, <1>4 DEF Pieces
<1>6. q \in Seq(Seq(Nat)) /\ Len(q) = n /\ \A j \in 1 .. n : q[j] = << >>
  <2>1. << >> \in Seq(Nat)
    OBVIOUS
  <2>2. q \in [1 .. n -> Seq(Nat)] /\ \A j \in 1 .. n : q[j] = << >>
    BY <1>5, <2>1
  <2> QED
    BY <2>2
<1>7. FlattenSeq(q) = << >>
  BY <1>6, FlattenNothing
<1> QED
  BY <1>4, <1>7 DEF Text

\* A sequence is what its members are.
LEMMA SeqIsFunction ==
  ASSUME NEW s \in Seq(Nat)
  PROVE  s = [j \in 1 .. Len(s) |-> s[j]]
OBVIOUS

\* What is put in the buffer comes at the end of the text,
LEMMA SentPut ==
  ASSUME TypeOK, NEW t \in Threads, NEW x \in Nat, UNCHANGED output, calls'[t] = calls[t],
         buffer'[t] = Append(buffer[t], x)
  PROVE  Sent(t)' = Append(Sent(t), x)
<1>1. PICK a \in Seq(Nat), b \in Seq(Nat) : a = Text(t) /\ b = buffer[t]
  BY PiecesTyped
<1>2. Text(t)' = a /\ buffer'[t] = Append(b, x)
  BY <1>1, TextStays
<1>3. a \o Append(b, x) = Append(a \o b, x)
  <2>0. <<x>> \in Seq(Nat)
    OBVIOUS
  <2>1. PICK z \in Seq(Nat) : z = <<x>>
    BY <2>0, Zenon
  <2>2. PICK c \in Seq(Nat) : c = a \o b
    BY ConcatProperties
  <2>3. Append(b, x) = b \o z /\ Append(c, x) = c \o z
    BY <2>1, AppendIsConcat
  <2>4. (a \o b) \o z = a \o (b \o z)
    BY Associative, Zenon
  <2> QED
    BY <2>2, <2>3, <2>4, Zenon
<1> QED
  BY <1>1, <1>2, <1>3, Zenon DEF Sent

\* and a flush leaves the text as it is.
LEMMA SentFlushed ==
  ASSUME TypeOK, NEW t \in Threads, output' = Written(t), calls'[t] = calls[t],
         buffer'[t] = << >>
  PROVE  Sent(t)' = Sent(t) /\ Text(t)' = Sent(t)
<1>1. PICK s \in Seq(Nat) : s = Sent(t)
  BY PiecesTyped
<1>2. Text(t)' = s
  BY <1>1, TextWritten DEF Sent
<1>3. s \o << >> = s
  BY ConcatEmptySeq
<1> QED
  BY <1>1, <1>2, <1>3, Zenon DEF Sent

\* A step leaves the texts of the other threads alone.
LEMMA OthersText ==
  ASSUME IInv, NEW t \in Threads, Call(t) \/ Run(t)
  PROVE  \A u \in Threads \ {t} : /\ buffer'[u] = buffer[u] /\ Text(u)' = Text(u)
                                  /\ Sent(u)' = Sent(u)
<1>1. buffer' = buffer \/ \E b : buffer' = [buffer EXCEPT ![t] = b]
  BY DEF Run, Lookup, Create, Reserve, Answer, Call, Finish, LockList, LockEvent, Find,
         CreateAlloc, CreateLock, CreateAppend, ReserveId, ReserveLock, ReserveSeat, GiveUp,
         ReserveEnd, ShowLock, ShowSeat, ShowEnd, ListEvent, ListEnd, Flush, FlushFail, Write, Put
<1>2. SUFFICES ASSUME NEW u \in Threads \ {t}
               PROVE  buffer'[u] = buffer[u] /\ Text(u)' = Text(u)
  BY DEF Sent
<1>3. buffer'[u] = buffer[u]
  BY <1>1 DEF IInv, Typed, TypeOK, LocalsOK
<1>4. calls'[u] = calls[u] /\ (UNCHANGED output \/ output' = Written(t))
  BY WritesOrNot
<1>5. CASE UNCHANGED output
  BY <1>3, <1>4, <1>5, TextStays
<1>6. CASE output' = Written(t)
  BY <1>3, <1>4, <1>6, TextWritten DEF IInv, Typed
<1> QED
  BY <1>4, <1>5, <1>6

----------------------------------------------------------------------------
(* The steps.                                                              *)

\* Who walks the list or the seats holds the lock, and so does who changes them.
LEMMA HoldStep ==
  ASSUME IInv, HoldInv, NEW t \in Threads, Call(t) \/ Run(t)
  PROVE  HoldInv'
<1> USE DEF HoldInv
<1>0. /\ HoldInv /\ NoThread \notin Threads
      /\ rd \in [Locks -> SUBSET Threads] /\ wr \in [Locks -> Threads \cup {NoThread}]
      /\ pc \in [Threads -> Labels] /\ req \in [Threads -> Requests \cup {NoRequest}]
      /\ {"list", "event", "seat"} = Locks
      /\ pc[t] \in {"show", "show_seats"} => req[t].op = "show"
  BY ThreadsAssumption DEF IInv, Typed, TypeOK, ControlOK, Locks, CallInv
<1>1. CASE Call(t)
  BY <1>0, <1>1 DEF Call
<1>2. CASE Finish(t)
  BY <1>0, <1>2 DEF Finish
<1>3. CASE LockList(t)
  BY <1>0, <1>3 DEF LockList
<1>4. CASE LockEvent(t)
  BY <1>0, <1>4 DEF LockEvent
<1>5. CASE Find(t)
  <2>1. req[t].op \in {"create", "reserve", "show"}
    BY <1>5, FindOp DEF Find
  <2>2. pc' = [pc EXCEPT ![t] = pc'[t]] /\ pc'[t] \in {"create", "reserve", "show", "done"}
    BY <1>0, <1>5, <2>1 DEF Find
  <2> QED
    BY <1>0, <1>5, <2>2 DEF Find
<1>6. CASE CreateAlloc(t)
  BY <1>0, <1>6 DEF CreateAlloc
<1>7. CASE CreateLock(t)
  BY <1>0, <1>7 DEF CreateLock
<1>8. CASE CreateAppend(t)
  BY <1>0, <1>8 DEF CreateAppend
<1>9. CASE ReserveId(t)
  BY <1>0, <1>9 DEF ReserveId
<1>10. CASE ReserveLock(t)
  BY <1>0, <1>10 DEF ReserveLock
<1>11. CASE ReserveSeat(t)
  BY <1>0, <1>11 DEF ReserveSeat
<1>12. CASE GiveUp(t)
  BY <1>0, <1>12 DEF GiveUp
<1>13. CASE ReserveEnd(t)
  BY <1>0, <1>13 DEF ReserveEnd
<1>14. CASE ShowLock(t)
  BY <1>0, <1>14 DEF ShowLock
<1>15. CASE ShowSeat(t)
  BY <1>0, <1>15 DEF ShowSeat
<1>16. CASE ShowEnd(t)
  BY <1>0, <1>16 DEF ShowEnd
<1>17. CASE ListEvent(t)
  BY <1>0, <1>17 DEF ListEvent
<1>18. CASE ListEnd(t)
  BY <1>0, <1>18 DEF ListEnd
<1>19. CASE Flush(t)
  BY <1>0, <1>19 DEF Flush, LockFile
<1>20. CASE FlushFail(t)
  BY <1>0, <1>20 DEF FlushFail
<1>21. CASE Write(t)
  BY <1>0, <1>21 DEF Write
<1> QED
  BY <1>1, <1>2, <1>3, <1>4, <1>5, <1>6, <1>7, <1>8, <1>9, <1>10, <1>11, <1>12, <1>13,
     <1>14, <1>15, <1>16, <1>17, <1>18, <1>19, <1>20, <1>21
     DEF Run, Lookup, Create, Reserve, Answer

\* A command comes to its text with an empty buffer and nothing written.
LEMMA FreshStep ==
  ASSUME IInv, PastInv, FreshInv, NEW t \in Threads, Call(t) \/ Run(t)
  PROVE  FreshInv'
<1>0. /\ TypeOK /\ pc \in [Threads -> Labels] /\ calls \in [Threads -> Nat]
      /\ buffer \in [Threads -> Seq(Nat)] /\ idx \in [Threads -> Nat]
  BY DEF IInv, Typed, TypeOK, ControlOK, LocalsOK
<1>1. SUFFICES ASSUME NEW u \in Threads
               PROVE  /\ pc'[u] = "idle" \/ Early(u)' => buffer'[u] = << >> /\ idx'[u] = 0
                      /\ Early(u)' => Text(u)' = << >>
  BY DEF FreshInv
<1>2. CASE u # t
  BY <1>2, OthersStay, OthersText DEF FreshInv, Same, Early
<1>3. CASE u = t /\ Call(t)
  <2>1. /\ pc[t] = "idle" /\ pc'[t] = "lock_list" /\ calls'[t] = calls[t] + 1
        /\ UNCHANGED <<output, buffer, idx>>
    BY <1>0, <1>3 DEF Call
  <2> QED
    BY <1>0, <1>3, <2>1, TextBegins DEF FreshInv
<1>4. CASE u = t /\ Finish(t)
  BY <1>0, <1>4 DEF Finish, Early
<1>5. CASE u = t /\ (LockList(t) \/ LockEvent(t) \/ Find(t))
  <2>1. Early(t) /\ UNCHANGED <<output, buffer, idx, calls>> /\ pc'[t] # "idle"
    <3>1. Find(t) => req[t].op # "idle"
      BY FindOp DEF Find
    <3> QED
      BY <1>0, <1>5, <3>1 DEF LockList, LockEvent, Find, Early
  <2> QED
    BY <1>5, <2>1, TextStays DEF FreshInv
<1>6. CASE ~Call(t) /\ ~Finish(t) /\ ~LockList(t) /\ ~LockEvent(t) /\ ~Find(t) /\ u = t
  <2>1. pc'[t] # "idle" /\ ~Early(t)'
    BY <1>0, <1>6
       DEF Run, Lookup, Create, Reserve, Answer, CreateAlloc, CreateLock, CreateAppend, ReserveId,
           ReserveLock, ReserveSeat, GiveUp, ReserveEnd, ShowLock, ShowSeat, ShowEnd, ListEvent,
           ListEnd, Flush, FlushFail, Write, Early
  <2> QED
    BY <1>6, <2>1
<1> QED
  BY <1>2, <1>3, <1>4, <1>5, <1>6

----------------------------------------------------------------------------
(* What a SHOW has read stays a seating of its event.                      *)

\* The data of an event is one natural for each of its seats.
LEMMA SeatCount ==
  ASSUME IInv, NEW e \in Positions
  PROVE  /\ list[e].rows * list[e].cols \in Nat
         /\ \A j \in 1 .. list[e].rows * list[e].cols : data[e][j - 1] \in Nat /\ j - 1 \in SeatsOf(e)
<1>1. list[e].rows * list[e].cols \in Nat /\ data[e] \in [SeatsOf(e) -> Nat]
  BY NodeTypes DEF IInv, Typed
<1>2. PICK n \in Nat : n = list[e].rows * list[e].cols
  BY <1>1
<1>3. SeatsOf(e) = 0 .. n - 1
  BY <1>2 DEF SeatsOf
<1>4. \A j \in 1 .. n : j - 1 \in 0 .. n - 1
  OBVIOUS
<1> QED
  BY <1>1, <1>2, <1>3, <1>4

\* The counts and the seats are numbers.
Numbers ==
  \A e \in Positions : reservations[e] \in Nat /\ \A i \in SeatsOf(e) : data[e][i] \in Nat

\* So they are after a step.
LEMMA NumbersTyped == IInv => Numbers
BY SeatNumbers DEF Numbers

\* Only a thread at the seats changes them.
LEMMA DataKept ==
  ASSUME IInv, NEW t \in Threads, Call(t) \/ Run(t), pc[t] # "seats", NEW e \in Positions
  PROVE  e \in Positions' /\ list'[e] = list[e] /\ data'[e] = data[e]
<1>1. e \in Positions' /\ list'[e] = list[e]
  BY EventsStep
<1>2. CASE CreateAppend(t)
  BY <1>1, <1>2, Appended, AppendsOrNot
<1>3. CASE ~CreateAppend(t)
  <2>1. ~ReserveSeat(t) /\ ~GiveUp(t) /\ ~ReserveEnd(t)
    BY DEF ReserveSeat, GiveUp, ReserveEnd
  <2> QED
    BY <1>1, <1>3, <2>1, Aside DEF ReserveId, ReserveLock
<1> QED
  BY <1>2, <1>3

\* A settled seating stays settled, and what it says of the seats: the seats of
\* its reservations stay theirs, and those of later ones stay theirs or free.
LEMMA SeatingStays ==
  ASSUME SeatInv, NEW t \in Threads, Call(t) \/ Run(t), NEW e \in Positions,
         NEW m \in Nat, Settled(e, m)
  PROVE  Settled(e, m)' /\ Seating(e, m)' = Seating(e, m)
<1>0. /\ IInv /\ IInv' /\ e \in Positions' /\ list'[e] = list[e]
      /\ reservations[e] \in Nat /\ reservations'[e] \in Nat
      /\ \A u \in Threads \ {t} : Same(u)
  <2>1. IInv /\ IInv'
    BY NextIInv DEF SeatInv, Next
  <2>2. e \in Positions' /\ list'[e] = list[e]
    BY <2>1, EventsStep
  <2>3. reservations'[e] \in Nat
    <3>1. Numbers'
      BY <2>1, NumbersTyped, PTL
    <3> QED
      BY <2>2, <3>1 DEF Numbers
  <2> QED
    BY <2>1, <2>2, <2>3, SeatNumbers, OthersStay
<1>1. m <= reservations[e] /\ \A u \in Threads : Writer(u) /\ ev[u] = e => m < rid[u]
  BY DEF Settled
<1>2. \A r \in 1 .. m :
        /\ r \in 1 .. reservations'[e]
        /\ {i \in SeatsOf(e)' : data'[e][i] = r} = {i \in SeatsOf(e) : data[e][i] = r}
  <2>1. SUFFICES ASSUME NEW r \in 1 .. m
                 PROVE  /\ r \in 1 .. reservations'[e]
                        /\ {i \in SeatsOf(e)' : data'[e][i] = r} = {i \in SeatsOf(e) : data[e][i] = r}
    OBVIOUS
  <2>2. r \in 1 .. reservations[e]
    BY <1>0, <1>1
  <2>3. \A u \in Threads : Writer(u) /\ ev[u] = e => r # rid[u]
    BY <1>0, <1>1, SeatNumbers
  <2> QED
    BY <2>2, <2>3, OthersSeats
<1>3. m <= reservations'[e]
  <2>1. m = 0 \/ m \in 1 .. m
    OBVIOUS
  <2> QED
    BY <1>0, <1>2, <2>1
<1>4. ASSUME NEW u \in Threads, Writer(u)', ev'[u] = e PROVE m < rid'[u]
  <2>1. rid'[u] = reservations'[e] /\ rid'[u] > 0
    BY <1>0, <1>4 DEF IInv, CountInv
  <2>2. \A r \in 1 .. m : r # rid'[u]
    <3>1. SUFFICES ASSUME NEW r \in 1 .. m PROVE r # rid'[u]
      OBVIOUS
    <3>2. r \in 1 .. reservations[e]
      BY <1>0, <1>1
    <3>3. \A v \in Threads : Writer(v) /\ ev[v] = e => r # rid[v]
      BY <1>0, <1>1, SeatNumbers
    <3> QED
      BY <1>4, <3>2, <3>3, OthersSeats
  <2>3. m \in 1 .. m \/ m = 0
    OBVIOUS
  <2> QED
    BY <1>0, <1>3, <2>1, <2>2, <2>3
<1>5. Settled(e, m)'
  BY <1>0, <1>3, <1>4 DEF Settled
<1>6. PICK n \in Nat : n = list[e].rows * list[e].cols
  BY <1>0, SeatCount
<1>7. \A j \in 1 .. n : /\ j - 1 \in SeatsOf(e) /\ data[e][j - 1] \in Nat
                        /\ j - 1 \in SeatsOf(e)' /\ data'[e][j - 1] \in Nat
  <2>1. \A j \in 1 .. n : j - 1 \in SeatsOf(e) /\ data[e][j - 1] \in Nat
    BY <1>0, <1>6, SeatCount
  <2>2. Numbers'
    BY <1>0, NumbersTyped, PTL
  <2> QED
    BY <1>0, <2>1, <2>2, Shape DEF Numbers
<1>8. ASSUME NEW j \in 1 .. n
      PROVE  (IF data'[e][j - 1] <= m THEN data'[e][j - 1] ELSE 0)
               = (IF data[e][j - 1] <= m THEN data[e][j - 1] ELSE 0)
  <2>1. \A r \in 1 .. m : data'[e][j - 1] = r <=> data[e][j - 1] = r
    BY <1>2, <1>7
  <2>2. data[e][j - 1] \in Nat /\ data'[e][j - 1] \in Nat
    BY <1>7
  <2> QED
    BY <2>1, <2>2
<1>9. Seating(e, m) = [j \in 1 .. n |-> IF data[e][j - 1] <= m THEN data[e][j - 1] ELSE 0]
  BY <1>6 DEF Seating
<1>10. Seating(e, m)' = [j \in 1 .. n |-> IF data'[e][j - 1] <= m THEN data'[e][j - 1] ELSE 0]
  BY <1>0, <1>6 DEF Seating
<1> QED
  BY <1>5, <1>8, <1>9, <1>10

\* So what a SHOW has read stays a seating of its event.
LEMMA ShownStays ==
  ASSUME SeatInv, NEW t \in Threads, Call(t) \/ Run(t), NEW u \in Threads, ev'[u] = ev[u],
         NEW s, Shown(u, s)
  PROVE  Shown(u, s)'
<1>1. PICK e \in Positions, m \in Nat : e = ev[u] /\ Settled(e, m) /\ s = Seating(e, m)
  BY DEF Shown
<1>2. Settled(e, m)' /\ Seating(e, m)' = Seating(e, m)
  BY <1>1, SeatingStays
<1>3. e \in Positions' /\ e = ev'[u]
  BY <1>1, EventsStep DEF SeatInv
<1>4. Settled(e, m)' /\ s = Seating(e, m)'
  BY <1>1, <1>2, Zenon
<1> QED
  BY <1>3, <1>4, Zenon DEF Shown

\* When SHOW has read the last seat it has the seating of its event without the
\* reservation in the making, if there is one.
LEMMA WholeRead ==
  ASSUME SeatInv, HoldInv, ShowInv, NEW t \in Threads, ShowEnd(t)
  PROVE  Shown(t, Sent(t))
<1>1. /\ IInv /\ TypeOK /\ NoThread \notin Threads /\ pc[t] = "show_seats" /\ idx[t] \in Nat
      /\ idx[t] \notin SeatsOf(ev[t])
  BY ThreadsAssumption, SeatNumbers DEF SeatInv, IInv, Typed, ShowEnd
<1>2. PICK e \in Positions : e = ev[t]
  BY <1>1 DEF IInv, CallInv
<1>3. PICK n \in Nat : n = list[e].rows * list[e].cols
  BY <1>1, SeatCount
<1>4. PICK s \in Seq(Nat) : s = Sent(t)
  BY <1>1, PiecesTyped
<1>5. idx[t] = n /\ Len(s) = n /\ \A j \in 1 .. n : s[j] = data[e][j - 1]
  <2>1. /\ idx[t] <= n /\ Len(s) = idx[t]
        /\ \A j \in 1 .. idx[t] : s[j] = data[e][j - 1]
    BY <1>1, <1>2, <1>3, <1>4 DEF ShowInv
  <2>2. idx[t] \notin 0 .. n - 1
    BY <1>1, <1>2, <1>3 DEF SeatsOf
  <2> QED
    BY <1>1, <2>1, <2>2
<1>6. /\ \A j \in 1 .. n : /\ j - 1 \in SeatsOf(e) /\ data[e][j - 1] \in Nat
                           /\ data[e][j - 1] <= reservations[e]
      /\ reservations[e] \in Nat
  BY <1>1, <1>3, SeatCount, SeatNumbers DEF SeatInv, BoundInv
<1>7. PICK m \in Nat : Settled(e, m) /\ \A j \in 1 .. n : data[e][j - 1] <= m
  <2>1. CASE \A u \in Threads : ~(Writer(u) /\ ev[u] = e)
    BY <1>6, <2>1 DEF Settled
  <2>2. ASSUME NEW u \in Threads, Writer(u), ev[u] = e
        PROVE  \E m \in Nat : Settled(e, m) /\ \A j \in 1 .. n : data[e][j - 1] <= m
    <3>1. rid[u] = reservations[e] /\ reservations[e] > 0
      BY <1>1, <2>2 DEF IInv, CountInv
    <3>2. wr["seat"] = NoThread
      BY <1>1 DEF HoldInv, Locks
    <3>3. pc[u] = "lock_seat"
      BY <1>1, <2>2, <3>2 DEF HoldInv, Writer
    <3>4. \A i \in SeatsOf(e) : data[e][i] # rid[u]
      BY <2>2, <3>3 DEF SeatInv, WriterInv
    <3>5. PICK m \in Nat : m = reservations[e] - 1
      BY <1>6, <3>1
    <3>6. ASSUME NEW j \in 1 .. n PROVE data[e][j - 1] <= m
      <4>1. data[e][j - 1] # reservations[e]
        BY <1>6, <3>1, <3>4
      <4> QED
        BY <1>6, <3>5, <4>1
    <3>7. \A v \in Threads : Writer(v) /\ ev[v] = e => m < rid[v]
      BY <1>1, <1>6, <3>5 DEF IInv, CountInv
    <3>8. Settled(e, m)
      BY <1>6, <3>5, <3>7 DEF Settled
    <3> QED
      BY <3>6, <3>8
  <2> QED
    BY <2>1, <2>2
<1>8. s = Seating(e, m)
  <2>1. \A j \in 1 .. n : s[j] = IF data[e][j - 1] <= m THEN data[e][j - 1] ELSE 0
    BY <1>5, <1>7
  <2>2. s = [j \in 1 .. n |-> s[j]]
    BY <1>5, SeqIsFunction
  <2>3. Seating(e, m) = [j \in 1 .. n |-> IF data[e][j - 1] <= m THEN data[e][j - 1] ELSE 0]
    BY <1>3 DEF Seating
  <2>4. [j \in 1 .. n |-> s[j]] = [j \in 1 .. n |-> IF data[e][j - 1] <= m THEN data[e][j - 1] ELSE 0]
    BY <2>1
  <2> QED
    BY <2>2, <2>3, <2>4, Zenon
<1> QED
  BY <1>2, <1>4, <1>7, <1>8, Zenon DEF Shown

----------------------------------------------------------------------------
(* SHOW.                                                                   *)

\* The steps that do not add to the text of a SHOW.
LEMMA NoShow ==
  ASSUME IInv, NEW t \in Threads, Call(t) \/ Run(t),
         ~ShowLock(t), ~ShowSeat(t), ~Flush(t), ~ShowEnd(t), ~Write(t)
  PROVE  pc'[t] # "show_seats" /\ ~(pc'[t] = "write" /\ req'[t].op = "show") /\ ~Printed(t, "show")'
<1> USE DEF Printed
<1>0. /\ pc \in [Threads -> Labels] /\ req \in [Threads -> Requests \cup {NoRequest}]
      /\ status \in [Threads -> {0, 1}] /\ CallInv
  BY DEF IInv, Typed, TypeOK, ControlOK
<1>1. CASE Find(t)
  <2>1. req[t].op \in {"create", "reserve", "show"}
    BY <1>1, FindOp DEF Find
  <2> QED
    BY <1>0, <1>1, <2>1 DEF Find
<1>2. CASE ~Find(t)
  BY <1>0, <1>2
     DEF Run, Lookup, Create, Reserve, Answer, Call, Finish, LockList, LockEvent, CreateAlloc,
         CreateLock, CreateAppend, ReserveId, ReserveLock, ReserveSeat, GiveUp, ReserveEnd,
         ListEvent, ListEnd, FlushFail, CallInv
<1> QED
  BY <1>1, <1>2

\* The steps of SHOW that add to its text, and the last one.
LEMMA OwnShow ==
  ASSUME SeatInv, HoldInv, FreshInv, ShowInv, NEW t \in Threads,
         ShowLock(t) \/ ShowSeat(t) \/ Flush(t)
  PROVE  pc'[t] = "show_seats" =>
           /\ idx'[t] <= list'[ev'[t]].rows * list'[ev'[t]].cols /\ Len(Sent(t)') = idx'[t]
           /\ \A j \in 1 .. idx'[t] : Sent(t)'[j] = data'[ev'[t]][j - 1]
<1>0. /\ IInv /\ TypeOK /\ pc \in [Threads -> Labels] /\ idx \in [Threads -> Nat]
      /\ buffer \in [Threads -> Seq(Nat)] /\ idx[t] \in Nat
  BY DEF SeatInv, IInv, Typed, TypeOK, ControlOK, LocalsOK
<1>1. SUFFICES ASSUME pc'[t] = "show_seats"
               PROVE  /\ idx'[t] <= list'[ev'[t]].rows * list'[ev'[t]].cols /\ Len(Sent(t)') = idx'[t]
                      /\ \A j \in 1 .. idx'[t] : Sent(t)'[j] = data'[ev'[t]][j - 1]
  OBVIOUS
<1>2. pc[t] \in {"show", "show_seats"} /\ UNCHANGED <<list, data, ev, calls>>
  BY <1>0, <1>1 DEF ShowLock, ShowSeat, Flush
<1>3. PICK e \in Positions : e = ev[t]
  BY <1>0, <1>2 DEF IInv, CallInv
<1>4. PICK n \in Nat : n = list[e].rows * list[e].cols
  BY <1>0, SeatCount
<1>5. CASE ShowLock(t)
  <2>1. idx[t] = 0 /\ idx'[t] = 0 /\ Sent(t)' = << >> \o << >>
    <3>1. buffer[t] = << >> /\ Text(t) = << >> /\ idx[t] = 0
      BY <1>5 DEF ShowLock, FreshInv, Early
    <3>2. UNCHANGED <<output, buffer, idx>>
      BY <1>5 DEF ShowLock
    <3>3. Text(t)' = Text(t)
      BY <1>2, <3>2, TextStays
    <3> QED
      BY <3>1, <3>2, <3>3 DEF Sent
  <2>2. Len(<< >> \o << >>) = 0
    OBVIOUS
  <2> QED
    BY <1>2, <1>3, <1>4, <2>1, <2>2
<1>6. PICK s \in Seq(Nat) : s = Sent(t)
  BY <1>0, PiecesTyped
<1>7. CASE ShowSeat(t)
  <2>0. PICK k \in Nat : k = idx[t]
    BY <1>0
  <2>1. k \in 0 .. n - 1 /\ pc[t] = "show_seats" /\ idx'[t] = k + 1
    BY <1>0, <1>3, <1>4, <1>7, <2>0 DEF ShowSeat, SeatsOf
  <2>2. PICK x \in Nat : x = data[e][k]
    <3>1. k + 1 \in 1 .. n /\ (k + 1) - 1 = k
      BY <2>1
    <3>2. \A j \in 1 .. n : data[e][j - 1] \in Nat
      BY <1>0, <1>4, SeatCount
    <3> QED
      BY <3>1, <3>2
  <2>3. UNCHANGED output /\ buffer'[t] = Append(buffer[t], x)
    BY <1>0, <1>3, <1>7, <2>0, <2>2 DEF ShowSeat, Put
  <2>4. Sent(t)' = Append(s, x)
    BY <1>0, <1>2, <1>6, <2>3, SentPut
  <2>5. Len(s) = k /\ \A j \in 1 .. k : s[j] = data[e][j - 1]
    BY <1>3, <1>6, <2>0, <2>1 DEF ShowInv
  <2>6. PICK r \in Seq(Nat) : r = Append(s, x)
    BY AppendProperties
  <2>7. Len(r) = k + 1 /\ r[k + 1] = x /\ \A j \in 1 .. k : r[j] = s[j]
    BY <2>5, <2>6, AppendProperties
  <2>8. ASSUME NEW j \in 1 .. k + 1 PROVE r[j] = data[e][j - 1]
    <3>1. CASE j = k + 1
      <4>1. j - 1 = k
        BY <3>1
      <4> QED
        BY <2>2, <2>7, <3>1, <4>1
    <3>2. CASE j # k + 1
      <4>1. j \in 1 .. k
        BY <3>2
      <4> QED
        BY <2>5, <2>7, <4>1
    <3> QED
      BY <3>1, <3>2
  <2>9. Sent(t)' = r
    BY <2>4, <2>6, Zenon
  <2> QED
    BY <1>2, <1>3, <1>4, <2>1, <2>7, <2>8, <2>9
<1>8. CASE Flush(t)
  <2>1. /\ output' = Written(t) /\ buffer'[t] = << >> /\ UNCHANGED <<pc, idx>>
    BY <1>0, <1>8 DEF Flush
  <2>2. Sent(t)' = Sent(t)
    BY <1>0, <1>2, <2>1, SentFlushed
  <2> QED
    BY <1>1, <1>2, <2>1, <2>2 DEF ShowInv
<1> QED
  BY <1>5, <1>7, <1>8

\* No thread writes a seat while SHOW reads them, and the seats it has read make
\* up a seating of its event that no other reservation changes.
LEMMA ShowStep ==
  ASSUME SeatInv, HoldInv, FreshInv, ShowInv, NEW t \in Threads, Call(t) \/ Run(t)
  PROVE  ShowInv'
<1>0. /\ IInv /\ TypeOK /\ NoThread \notin Threads /\ "seat" \in Locks
  BY ThreadsAssumption DEF SeatInv, IInv, Typed, Locks
<1>1. SUFFICES ASSUME NEW u \in Threads
               PROVE  /\ pc'[u] = "show_seats" =>
                           /\ idx'[u] <= list'[ev'[u]].rows * list'[ev'[u]].cols
                           /\ Len(Sent(u)') = idx'[u]
                           /\ \A j \in 1 .. idx'[u] : Sent(u)'[j] = data'[ev'[u]][j - 1]
                      /\ pc'[u] = "write" /\ req'[u].op = "show" => Shown(u, Sent(u))'
                      /\ Printed(u, "show")' => Shown(u, Text(u))'
  BY DEF ShowInv
<1>2. ASSUME Shown(u, Sent(u)), ev'[u] = ev[u]
      PROVE  \A x : x = Sent(u) => Shown(u, x)'
  BY <1>2, ShownStays
<1>3. ASSUME Shown(u, Text(u)), ev'[u] = ev[u]
      PROVE  \A x : x = Text(u) => Shown(u, x)'
  BY <1>3, ShownStays
<1>4. CASE u # t
  <2>1. Same(u) /\ Text(u)' = Text(u) /\ Sent(u)' = Sent(u)
    BY <1>0, <1>4, OthersStay, OthersText
  <2>2. pc[u] = "show_seats" =>
          ev[u] \in Positions /\ list'[ev[u]] = list[ev[u]] /\ data'[ev[u]] = data[ev[u]]
    <3>1. SUFFICES ASSUME pc[u] = "show_seats"
                   PROVE  ev[u] \in Positions /\ list'[ev[u]] = list[ev[u]]
                          /\ data'[ev[u]] = data[ev[u]]
      OBVIOUS
    <3>2. wr["seat"] = NoThread /\ ev[u] \in Positions
      BY <1>0, <3>1 DEF HoldInv, IInv, CallInv
    <3>3. pc[t] # "seats"
      BY <1>0, <3>2 DEF HoldInv
    <3> QED
      BY <1>0, <3>2, <3>3, DataKept
  <2>3. pc'[u] = "write" /\ req'[u].op = "show" => Shown(u, Sent(u))'
    <3>1. SUFFICES ASSUME pc'[u] = "write", req'[u].op = "show" PROVE Shown(u, Sent(u))'
      OBVIOUS
    <3>2. Shown(u, Sent(u)) /\ ev'[u] = ev[u]
      BY <2>1, <3>1 DEF Same, ShowInv
    <3>3. PICK x : x = Sent(u)
      OBVIOUS
    <3>4. Shown(u, x)' /\ x = Sent(u)'
      BY <1>2, <2>1, <3>2, <3>3
    <3> QED
      BY <3>4, Zenon DEF Shown
  <2>4. Printed(u, "show")' => Shown(u, Text(u))'
    <3>1. SUFFICES ASSUME Printed(u, "show")' PROVE Shown(u, Text(u))'
      OBVIOUS
    <3>2. Shown(u, Text(u)) /\ ev'[u] = ev[u]
      BY <2>1, <3>1 DEF Same, ShowInv, Printed
    <3>3. PICK x : x = Text(u)
      OBVIOUS
    <3>4. Shown(u, x)' /\ x = Text(u)'
      BY <1>3, <2>1, <3>2, <3>3
    <3> QED
      BY <3>4, Zenon DEF Shown
  <2> QED
    BY <2>1, <2>2, <2>3, <2>4 DEF Same, ShowInv
<1>5. CASE u = t /\ (ShowLock(t) \/ ShowSeat(t) \/ Flush(t))
  <2>1. pc'[t] # "write" /\ pc'[t] # "done"
    BY <1>0, <1>5 DEF ShowLock, ShowSeat, Flush, TypeOK, ControlOK
  <2> QED
    BY <1>5, <2>1, OwnShow DEF Printed
<1>6. CASE u = t /\ ShowEnd(t)
  <2>1. pc'[t] = "write" /\ UNCHANGED <<output, calls, buffer, ev>>
    BY <1>0, <1>6 DEF ShowEnd, TypeOK, ControlOK
  <2>2. Sent(t)' = Sent(t) /\ Shown(t, Sent(t))
    BY <1>6, <2>1, TextStays, WholeRead DEF Sent
  <2>3. PICK x : x = Sent(t)
    OBVIOUS
  <2>4. Shown(t, x)' /\ x = Sent(t)'
    BY <1>2, <1>6, <2>1, <2>2, <2>3
  <2>5. Shown(t, Sent(t))'
    BY <2>4, Zenon DEF Shown
  <2> QED
    BY <1>6, <2>1, <2>5 DEF Printed
<1>7. CASE u = t /\ Write(t)
  <2>1. pc'[t] = "done" /\ pc[t] = "write" /\ UNCHANGED <<calls, ev, req, buffer>>
    BY <1>0, <1>7 DEF Write, TypeOK, ControlOK
  <2>2. ASSUME Printed(t, "show")' PROVE Shown(t, Text(t))'
    <3>1. output' = Written(t) /\ req[t].op = "show"
      BY <1>0, <1>7, <2>1, <2>2 DEF Write, Printed, TypeOK, ControlOK
    <3>2. Text(t)' = Sent(t)
      BY <1>0, <2>1, <3>1, TextWritten DEF Sent
    <3>3. Shown(t, Sent(t))
      BY <2>1, <3>1 DEF ShowInv
    <3>4. PICK x : x = Sent(t)
      OBVIOUS
    <3>5. Shown(t, x)' /\ x = Text(t)'
      BY <1>2, <1>7, <2>1, <3>2, <3>3, <3>4
    <3> QED
      BY <3>5, Zenon DEF Shown
  <2> QED
    BY <1>7, <2>1, <2>2
<1>8. CASE u = t /\ ~ShowLock(t) /\ ~ShowSeat(t) /\ ~Flush(t) /\ ~ShowEnd(t) /\ ~Write(t)
  BY <1>0, <1>8, NoShow
<1> QED
  BY <1>4, <1>5, <1>6, <1>7, <1>8

----------------------------------------------------------------------------
(* LIST.                                                                   *)

\* The steps that are not of a LIST.
LEMMA NoList ==
  ASSUME IInv, NEW t \in Threads, Call(t) \/ Run(t),
         ~LockList(t), ~ListEvent(t), ~Flush(t), ~ListEnd(t)
  PROVE  pc'[t] # "list" /\ ~(pc'[t] = "write" /\ req'[t].op = "list")
<1>0. /\ pc \in [Threads -> Labels] /\ req \in [Threads -> Requests \cup {NoRequest}]
      /\ status \in [Threads -> {0, 1}] /\ CallInv
  BY DEF IInv, Typed, TypeOK, ControlOK
<1>1. CASE Find(t)
  <2>1. req[t].op \in {"create", "reserve", "show"}
    BY <1>1, FindOp DEF Find
  <2> QED
    BY <1>0, <1>1, <2>1 DEF Find
<1>2. CASE ~Find(t)
  BY <1>0, <1>2
     DEF Run, Lookup, Create, Reserve, Answer, Call, Finish, LockEvent, CreateAlloc, CreateLock,
         CreateAppend, ReserveId, ReserveLock, ReserveSeat, GiveUp, ReserveEnd, ShowLock, ShowSeat,
         ShowEnd, FlushFail, Write, CallInv
<1> QED
  BY <1>1, <1>2

\* The steps of LIST that add to its text.
LEMMA OwnList ==
  ASSUME IInv, FreshInv, ListInv, NEW t \in Threads, LockList(t) \/ ListEvent(t) \/ Flush(t)
  PROVE  pc'[t] = "list" =>
           /\ ev'[t] \in 1 .. Len(list') + 1 /\ Len(Sent(t)') = ev'[t] - 1
           /\ \A j \in 1 .. ev'[t] - 1 : Sent(t)'[j] = list'[j].id
<1>0. /\ TypeOK /\ pc \in [Threads -> Labels] /\ ev \in [Threads -> Nat]
      /\ buffer \in [Threads -> Seq(Nat)] /\ ev[t] \in Nat
  BY DEF IInv, Typed, TypeOK, ControlOK, LocalsOK
<1>1. SUFFICES ASSUME pc'[t] = "list"
               PROVE  /\ ev'[t] \in 1 .. Len(list') + 1 /\ Len(Sent(t)') = ev'[t] - 1
                      /\ \A j \in 1 .. ev'[t] - 1 : Sent(t)'[j] = list'[j].id
  OBVIOUS
<1>2. pc[t] \in {"lock_list", "list"} /\ UNCHANGED <<list, calls>>
  BY <1>0, <1>1 DEF LockList, ListEvent, Flush
<1>3. PICK n \in Nat : n = Len(list)
  BY <1>0, Basics
<1>4. CASE LockList(t)
  <2>1. ev'[t] = 1 /\ Sent(t)' = << >> \o << >>
    <3>1. buffer[t] = << >> /\ Text(t) = << >>
      BY <1>4 DEF LockList, FreshInv, Early
    <3>2. UNCHANGED <<output, buffer>> /\ ev'[t] = 1
      BY <1>0, <1>1, <1>4 DEF LockList
    <3>3. Text(t)' = Text(t)
      BY <1>2, <3>2, TextStays
    <3> QED
      BY <3>1, <3>2, <3>3 DEF Sent
  <2>2. Len(<< >> \o << >>) = 0
    OBVIOUS
  <2> QED
    BY <1>2, <1>3, <2>1, <2>2
<1>5. PICK s \in Seq(Nat) : s = Sent(t)
  BY <1>0, PiecesTyped
<1>6. CASE ListEvent(t)
  <2>1. PICK k \in Positions : k = ev[t]
    BY <1>6 DEF ListEvent
  <2>2. k \in 1 .. n /\ pc[t] = "list" /\ ev'[t] = k + 1
    BY <1>0, <1>3, <1>6, <2>1 DEF ListEvent, Positions
  <2>3. PICK x \in Nat : x = list[k].id
    BY <1>0, NodeTypes
  <2>4. UNCHANGED output /\ buffer'[t] = Append(buffer[t], x)
    BY <1>0, <1>6, <2>1, <2>3 DEF ListEvent, Put
  <2>5. Sent(t)' = Append(s, x)
    BY <1>0, <1>2, <1>5, <2>4, SentPut
  <2>6. Len(s) = k - 1 /\ \A j \in 1 .. k - 1 : s[j] = list[j].id
    BY <1>5, <2>1, <2>2 DEF ListInv
  <2>7. PICK r \in Seq(Nat) : r = Append(s, x)
    BY AppendProperties
  <2>8. Len(r) = k /\ r[k] = x /\ \A j \in 1 .. k - 1 : r[j] = s[j]
    BY <2>2, <2>6, <2>7, AppendProperties
  <2>9. ASSUME NEW j \in 1 .. k PROVE r[j] = list[j].id
    <3>1. j = k \/ j \in 1 .. k - 1
      BY <2>2
    <3> QED
      BY <2>3, <2>6, <2>8, <3>1
  <2>10. Sent(t)' = r
    BY <2>5, <2>7, Zenon
  <2>11. k + 1 \in 1 .. n + 1 /\ (k + 1) - 1 = k
    BY <2>2
  <2> QED
    BY <1>2, <1>3, <2>2, <2>8, <2>9, <2>10, <2>11
<1>7. CASE Flush(t)
  <2>1. /\ output' = Written(t) /\ buffer'[t] = << >> /\ UNCHANGED <<pc, ev>>
    BY <1>0, <1>7 DEF Flush
  <2>2. Sent(t)' = Sent(t)
    BY <1>0, <1>2, <2>1, SentFlushed
  <2> QED
    BY <1>1, <1>2, <2>1, <2>2 DEF ListInv
<1> QED
  BY <1>4, <1>6, <1>7

\* No thread appends an event from the walk of a LIST to its last write.
LEMMA ListStep ==
  ASSUME IInv, HoldInv, FreshInv, ListInv, NEW t \in Threads, Call(t) \/ Run(t)
  PROVE  ListInv'
<1>0. /\ TypeOK /\ NoThread \notin Threads /\ "list" \in Locks
  BY ThreadsAssumption DEF IInv, Typed, Locks
<1>1. SUFFICES ASSUME NEW u \in Threads
               PROVE  /\ pc'[u] = "list" =>
                           /\ ev'[u] \in 1 .. Len(list') + 1 /\ Len(Sent(u)') = ev'[u] - 1
                           /\ \A j \in 1 .. ev'[u] - 1 : Sent(u)'[j] = list'[j].id
                      /\ pc'[u] = "write" /\ req'[u].op = "list" =>
                           Sent(u)' = [j \in Positions' |-> list'[j].id]
  BY DEF ListInv
<1>2. CASE u # t
  <2>1. Same(u) /\ Sent(u)' = Sent(u)
    BY <1>2, OthersStay, OthersText
  <2>2. pc[u] = "list" \/ (pc[u] = "write" /\ req[u].op = "list") => UNCHANGED list
    <3>1. SUFFICES ASSUME pc[u] = "list" \/ (pc[u] = "write" /\ req[u].op = "list")
                   PROVE  UNCHANGED list
      OBVIOUS
    <3>2. wr["list"] = NoThread
      BY <1>0, <3>1 DEF HoldInv
    <3>3. ~CreateAppend(t)
      BY <1>0, <3>2 DEF HoldInv, CreateAppend
    <3> QED
      BY <3>3, Aside DEF ReserveId, ReserveLock, ReserveSeat, GiveUp, ReserveEnd
  <2> QED
    BY <2>1, <2>2 DEF Same, ListInv, Positions
<1>3. CASE u = t /\ (LockList(t) \/ ListEvent(t) \/ Flush(t))
  <2>1. pc'[t] # "write"
    BY <1>0, <1>3 DEF LockList, ListEvent, Flush, TypeOK, ControlOK
  <2> QED
    BY <1>3, <2>1, OwnList
<1>4. CASE u = t /\ ListEnd(t)
  <2>1. /\ pc'[t] = "write" /\ pc[t] = "list" /\ UNCHANGED <<list, output, calls, buffer>>
        /\ ev[t] \notin Positions
    BY <1>0, <1>4 DEF ListEnd, TypeOK, ControlOK
  <2>2. Sent(t)' = Sent(t)
    BY <2>1, TextStays DEF Sent
  <2>3. PICK n \in Nat : n = Len(list)
    BY <1>0, Basics
  <2>4. PICK s \in Seq(Nat) : s = Sent(t)
    BY <1>0, PiecesTyped
  <2>5. Len(s) = n /\ \A j \in 1 .. n : s[j] = list[j].id
    <3>1. ev[t] \in 1 .. n + 1 /\ Len(s) = ev[t] - 1 /\ \A j \in 1 .. ev[t] - 1 : s[j] = list[j].id
      BY <2>1, <2>3, <2>4 DEF ListInv
    <3>2. ev[t] \notin 1 .. n
      BY <2>1, <2>3 DEF Positions
    <3>3. ev[t] = n + 1 /\ ev[t] - 1 = n
      BY <3>1, <3>2
    <3> QED
      BY <3>1, <3>3
  <2>6. s = [j \in 1 .. n |-> list[j].id]
    <3>1. s = [j \in 1 .. n |-> s[j]]
      BY <2>5, SeqIsFunction
    <3>2. [j \in 1 .. n |-> s[j]] = [j \in 1 .. n |-> list[j].id]
      BY <2>5
    <3> QED
      BY <3>1, <3>2, Zenon
  <2>7. Positions' = 1 .. n
    BY <2>1, <2>3 DEF Positions
  <2>8. Sent(t)' = [j \in Positions' |-> list'[j].id]
    BY <2>1, <2>2, <2>4, <2>6, <2>7, Zenon
  <2> QED
    BY <1>4, <2>1, <2>8
<1>5. CASE u = t /\ ~LockList(t) /\ ~ListEvent(t) /\ ~Flush(t) /\ ~ListEnd(t)
  BY <1>5, NoList
<1> QED
  BY <1>2, <1>3, <1>4, <1>5

----------------------------------------------------------------------------
(* What the texts hold, in every run.                                      *)

\* No command has begun when the process starts.
LEMMA InitTextInv == Init => TextInv
<1> SUFFICES ASSUME Init PROVE TextInv
  OBVIOUS
<1>1. HoldInv
  BY DEF Init, HoldInv
<1>2. FreshInv
  BY DEF Init, FreshInv, Early
<1>3. ShowInv /\ ListInv
  BY DEF Init, ShowInv, ListInv, Printed
<1> QED
  BY <1>1, <1>2, <1>3, InitSeatInv, InitPieceInv DEF TextInv

\* Every step keeps what the texts hold.
LEMMA NextTextInv == TextInv /\ [Next]_vars => TextInv'
<1> SUFFICES ASSUME TextInv, [Next]_vars PROVE TextInv'
  OBVIOUS
<1>0. SeatInv' /\ PieceInv'
  BY NextSeatInv, NextPieceInv DEF TextInv
<1>1. ASSUME NEW t \in Threads, Call(t) \/ Run(t) PROVE TextInv'
  BY <1>0, <1>1, HoldStep, FreshStep, ShowStep, ListStep DEF TextInv, SeatInv, PieceInv
<1>2. CASE UNCHANGED vars
  <2> USE DEF vars
  <2>1. HoldInv' /\ FreshInv'
    BY <1>2 DEF TextInv, HoldInv, FreshInv, Early, Text, Pieces
  <2>2. \A t \in Threads : Text(t)' = Text(t) /\ Sent(t)' = Sent(t)
    BY <1>2 DEF Sent, Text, Pieces
  <2>3. ListInv'
    BY <1>2, <2>2, Zenon DEF TextInv, ListInv, Positions
  <2>4. ASSUME NEW t \in Threads, NEW s, Shown(t, s) PROVE Shown(t, s)'
    <3>1. PICK e \in Positions, m \in Nat : e = ev[t] /\ Settled(e, m) /\ s = Seating(e, m)
      BY <2>4 DEF Shown
    <3>2. Settled(e, m)' /\ e \in Positions' /\ e = ev'[t]
      BY <1>2, <3>1 DEF Settled, Writer, Positions
    <3>3. Seating(e, m)' = Seating(e, m)
      BY <1>2 DEF Seating
    <3> QED
      BY <3>1, <3>2, <3>3, Zenon DEF Shown
  <2>5. ASSUME NEW t \in Threads
        PROVE  /\ Shown(t, Sent(t)) => Shown(t, Sent(t))'
               /\ Shown(t, Text(t)) => Shown(t, Text(t))'
    <3>1. PICK a, b : a = Sent(t) /\ b = Text(t)
      OBVIOUS
    <3>2. /\ Shown(t, a) => Shown(t, a)' /\ a = Sent(t)'
          /\ Shown(t, b) => Shown(t, b)' /\ b = Text(t)'
      BY <2>2, <2>4, <3>1
    <3> QED
      BY <3>1, <3>2, Zenon DEF Shown
  <2>6. ShowInv'
    <3>1. \A t \in Threads :
            /\ pc[t] = "show_seats" =>
                 /\ idx[t] <= list[ev[t]].rows * list[ev[t]].cols /\ Len(Sent(t)') = idx[t]
                 /\ \A j \in 1 .. idx[t] : Sent(t)'[j] = data[ev[t]][j - 1]
            /\ pc[t] = "write" /\ req[t].op = "show" => Shown(t, Sent(t))'
            /\ Printed(t, "show") => Shown(t, Text(t))'
      BY <2>2, <2>5, Zenon DEF TextInv, ShowInv
    <3> QED
      BY <1>2, <3>1, Zenon DEF ShowInv, Printed
  <2> QED
    BY <1>0, <2>1, <2>3, <2>6 DEF TextInv
<1> QED
  BY <1>1, <1>2 DEF Next, Quiet

\* A SHOW of Part 1 prints the seating of its event after some number of its
\* reservations, whole and with none of a reservation in the making, however
\* often the buffer was written before the end and whatever was reserved since.
THEOREM ShowIsPrintedWhole == Spec => []ShowWhole
<1>1. TextInv => ShowWhole
  <2> SUFFICES ASSUME TextInv, NEW t \in Threads, Printed(t, "show")
               PROVE  \E m \in 0 .. reservations[ev[t]] :
                        Text(t) = [j \in 1 .. list[ev[t]].rows * list[ev[t]].cols |->
                                     IF data[ev[t]][j - 1] <= m THEN data[ev[t]][j - 1] ELSE 0]
    BY DEF ShowWhole
  <2>1. PICK e \in Positions, m \in Nat : e = ev[t] /\ Settled(e, m) /\ Text(t) = Seating(e, m)
    BY DEF TextInv, ShowInv, Shown
  <2>2. m \in 0 .. reservations[ev[t]]
    BY <2>1 DEF Settled
  <2> QED
    BY <2>1, <2>2, Zenon DEF Seating
<1> QED
  BY InitTextInv, NextTextInv, <1>1, PTL DEF Spec

\* A LIST of Part 1 prints every event there is when its text goes to the file,
\* each once and in order: list_Lock is held from the walk to the last write.
THEOREM ListIsPrintedWhole == Spec => []ListWhole
<1>1. TextInv => ListWhole
  BY DEF TextInv, ListInv, ListWhole, Sent
<1> QED
  BY InitTextInv, NextTextInv, <1>1, PTL DEF Spec

----------------------------------------------------------------------------
(* No deadlock.  The locks are taken in the order list, event, seat, file:  *)
(* the holder of one waits, if at all, for a later one.                     *)

Someone == \E u \in Threads : ~At(u, "idle") /\ ~Blocked(u)

\* The holder of the file waits for nothing.
LEMMA FileHolderRuns ==
  ASSUME IInv, file # NoThread
  PROVE  Someone
<1>1. file \in Threads
  BY DEF IInv, Typed, TypeOK, ControlOK
<1>2. pc[file] \in {"show_seats", "list", "write"}
  BY <1>1 DEF IInv, LockInv
<1>3. ~At(file, "idle") /\ ~Blocked(file)
  BY <1>2 DEF Blocked
<1> QED
  BY <1>1, <1>3 DEF Someone

\* A thread that does not wait, or waits for the file, is no deadlock.
LEMMA WriterRuns ==
  ASSUME IInv, NEW u \in Threads, pc[u] \in {"show_seats", "list", "write"}
  PROVE  Someone
<1>1. CASE file # NoThread
  BY <1>1, FileHolderRuns
<1>2. CASE file = NoThread
  <2>1. ~At(u, "idle") /\ ~Blocked(u)
    BY <1>2 DEF Blocked
  <2> QED
    BY <2>1 DEF Someone
<1> QED
  BY <1>1, <1>2

\* A lock that is not free has a holder.
LEMMA Held ==
  ASSUME IInv, NEW l \in Locks, wr[l] # NoThread \/ rd[l] # {}
  PROVE  \E u \in Threads : wr[l] = u \/ u \in rd[l]
BY DEF IInv, Typed, TypeOK, ControlOK

\* The holder of the seats waits for nothing but the file.
LEMMA SeatHolderRuns ==
  ASSUME IInv, wr["seat"] # NoThread \/ rd["seat"] # {}
  PROVE  Someone
<1>1. PICK u \in Threads : wr["seat"] = u \/ u \in rd["seat"]
  BY Held DEF Locks
<1>2. pc[u] \in {"seats", "show_seats"}
  BY <1>1 DEF IInv, LockInv
<1>3. CASE pc[u] = "seats"
  <2>1. ~At(u, "idle") /\ ~Blocked(u)
    BY <1>3 DEF Blocked
  <2> QED
    BY <2>1 DEF Someone
<1> QED
  BY <1>2, <1>3, WriterRuns

\* The holder of the events waits for nothing but the seats.
LEMMA EventHolderRuns ==
  ASSUME IInv, wr["event"] # NoThread \/ rd["event"] # {}
  PROVE  Someone
<1>1. PICK u \in Threads : wr["event"] = u \/ u \in rd["event"]
  BY Held DEF Locks
<1>2. pc[u] \in {"find", "lock_seat", "seats"}
  BY <1>1 DEF IInv, LockInv, Writer
<1>3. CASE wr["seat"] # NoThread \/ rd["seat"] # {}
  BY <1>3, SeatHolderRuns
<1>4. CASE ~(wr["seat"] # NoThread \/ rd["seat"] # {})
  <2>1. ~At(u, "idle") /\ ~Blocked(u)
    BY <1>2, <1>4 DEF Blocked
  <2> QED
    BY <2>1 DEF Someone
<1> QED
  BY <1>3, <1>4

\* The holder of the list waits for nothing but the events or the file.
LEMMA ListHolderRuns ==
  ASSUME IInv, wr["list"] # NoThread \/ rd["list"] # {}
  PROVE  Someone
<1>1. PICK u \in Threads : wr["list"] = u \/ u \in rd["list"]
  BY Held DEF Locks
<1>2. pc[u] \in {"append", "lock_event", "find", "list", "write"}
  BY <1>1 DEF IInv, LockInv
<1>3. CASE wr["event"] # NoThread \/ rd["event"] # {}
  BY <1>3, EventHolderRuns
<1>4. CASE /\ ~(wr["event"] # NoThread \/ rd["event"] # {})
           /\ pc[u] \in {"append", "lock_event", "find"}
  <2>1. ~At(u, "idle") /\ ~Blocked(u)
    BY <1>4 DEF Blocked
  <2> QED
    BY <2>1 DEF Someone
<1> QED
  BY <1>2, <1>3, <1>4, WriterRuns

\* Whatever the threads of a job file are doing, one of them can go on: no two
\* operations of operations.c wait for each other.
THEOREM NeverDeadlocked == Spec => []NoDeadlock
<1>1. ASSUME IInv, NEW t \in Threads, Blocked(t) PROVE Someone
  BY <1>1, ListHolderRuns, EventHolderRuns, SeatHolderRuns, FileHolderRuns DEF Blocked
<1>2. IInv => NoDeadlock
  BY <1>1 DEF NoDeadlock, Someone
<1> QED
  BY InitIInv, NextIInv, <1>2, PTL DEF Spec

=============================================================================
