------------------------- MODULE EmsRefinementProofs -------------------------
(***************************************************************************)
(* Proof that EmsServer implements EventStore under the mapping of          *)
(* EmsServerRefinement, for any number of workers, events and requests:    *)
(* every step of a thread is a step of the abstract store, or none.        *)
(***************************************************************************)
EXTENDS EmsServerRefinement, EmsServerProofs, FiniteSetTheorems

Inv == IInv /\ SeatInv /\ AnswerInv

----------------------------------------------------------------------------
(* The mapping.                                                            *)

USE DEF At, Goto, Set, Finish, Send, Clear, ReadLock, ReadUnlock, WriteLock,
        WriteUnlock, LockEvent, UnlockEvent, events, rwl, locals, budget

\* What the seats of an event stand for, without CHOOSE.
SeatsRule ==
  \A e \in Positions : \A i \in SeatsOf(e) :
    /\ \A w \in Workers : i \in Unwritten(e, w) => SeatsBar[e][i] = rid[w]
    /\ (\A w \in Workers : i \notin Unwritten(e, w)) => SeatsBar[e][i] = data[e][i]

\* At most one worker writes the seats of an event.
LEMMA SeatsRuleHolds == Inv => SeatsRule
<1> SUFFICES ASSUME Inv, NEW e \in Positions, NEW i \in SeatsOf(e)
             PROVE  /\ \A w \in Workers : i \in Unwritten(e, w) => SeatsBar[e][i] = rid[w]
                    /\ (\A w \in Workers : i \notin Unwritten(e, w))
                         => SeatsBar[e][i] = data[e][i]
  BY DEF SeatsRule
<1>1. CASE \A w \in Workers : i \notin Unwritten(e, w)
  BY <1>1 DEF SeatsBar
<1>2. ASSUME NEW w \in Workers, i \in Unwritten(e, w)
      PROVE  SeatsBar[e][i] = rid[w]
  <2>1. (CHOOSE v \in Workers : i \in Unwritten(e, v)) = w
    <3>1. \A v \in Workers : i \in Unwritten(e, v) => v = w
      BY <1>2, Alone DEF Unwritten, Inv
    <3> QED
      BY <1>2, <3>1
  <2> QED
    BY <1>2, <2>1 DEF SeatsBar
<1> QED
  BY <1>1, <1>2

SeatsTyped ==
  /\ SeatsBar \in Seq(SeatMaps) /\ Len(SeatsBar) = Len(list)
  /\ \A e \in Positions : SeatsBar[e] \in [SeatsOf(e) -> Nat] /\ SizeOf(e) \in Nat

\* The seats of each event, in the order of the list.
LEMMA SeatsBarType == Inv => SeatsTyped
<1> SUFFICES ASSUME Inv PROVE SeatsTyped
  OBVIOUS
<1>0. TypeOK
  BY DEF Inv, IInv, Typed
<1>1. ASSUME NEW e \in Positions
      PROVE  SeatsBar[e] \in [SeatsOf(e) -> Nat] /\ SizeOf(e) \in Nat
             /\ SeatsBar[e] \in SeatMaps
  <2>1. SizeOf(e) \in Nat
    BY <1>0, <1>1, NodeTypes DEF SizeOf
  <2>2. ASSUME NEW i \in SeatsOf(e) PROVE SeatsBar[e][i] \in Nat
    <3>1. SeatsRule
      BY SeatsRuleHolds
    <3>2. CASE \A w \in Workers : i \notin Unwritten(e, w)
      <4>1. data[e][i] \in Nat
        BY <1>0, NodeTypes
      <4> QED
        BY <3>1, <3>2, <4>1 DEF SeatsRule
    <3>3. ASSUME NEW w \in Workers, i \in Unwritten(e, w) PROVE SeatsBar[e][i] \in Nat
      <4>1. rid[w] \in Nat
        BY <1>0, LocalTypes, Basics
      <4> QED
        BY <3>1, <3>3, <4>1 DEF SeatsRule
    <3> QED
      BY <3>2, <3>3
  <2>3. DOMAIN SeatsBar[e] = SeatsOf(e) /\ SeatsBar[e] = [i \in SeatsOf(e) |-> SeatsBar[e][i]]
    BY DEF SeatsBar
  <2>4. SeatsBar[e] \in [SeatsOf(e) -> Nat]
    BY <2>2, <2>3
  <2> QED
    BY <2>1, <2>4 DEF SeatsOf, SeatMaps
<1>2. SeatsBar \in [1 .. Len(list) -> SeatMaps]
  BY <1>1 DEF SeatsBar, Positions
<1>3. Len(list) \in Nat
  BY <1>0, Basics
<1>4. SeatsBar \in Seq(SeatMaps) /\ Len(SeatsBar) = Len(list)
  BY <1>2, <1>3
<1> QED
  BY <1>1, <1>4 DEF SeatsTyped

\* The store is empty at the start on both levels.
LEMMA InitRefines == Init => Store!Init
<1> SUFFICES ASSUME Init PROVE Store!Init
  OBVIOUS
<1>1. \A w \in Workers : /\ pc[w] = "idle" /\ req[w] = NoRequest /\ ev[w] = 0 /\ rid[w] = 0
                         /\ out[w] = << >> /\ status[w] = 0
  BY DEF Init, Threads, NULL
<1>2. list = << >> /\ SeatsBar = << >>
  <2>1. Inv
    BY InitInv, InitSeats, InitAnswers DEF Inv
  <2>2. list = << >> /\ Len(list) = 0
    BY DEF Init
  <2> QED
    BY <2>1, <2>2, SeatsBarType, EmptySeq DEF SeatsTyped
<1>3. PhaseBar = [c \in Workers |-> "idle"]
  BY <1>1 DEF PhaseBar, Decided
<1>4. GrantBar = [c \in Workers |-> <<0, 0>>]
  BY <1>1 DEF GrantBar
<1>5. TargetBar = [c \in Workers |-> 0]
  BY <1>1 DEF TargetBar, NoRequest
<1>6. SentBar = [c \in Workers |-> << >>]
  BY <1>1 DEF SentBar
<1>7. [w \in Workers |-> req[w]] = [c \in Workers |-> NoRequest]
      /\ [w \in Workers |-> status[w]] = [c \in Workers |-> 0]
  BY <1>1
<1> QED
  BY <1>2, <1>3, <1>4, <1>5, <1>6, <1>7 DEF Store!Init, Store!NoGrant, Store!NoTarget

\* The clients of the abstract store but w are as they were.
LEMMA OneBar ==
  ASSUME NEW w \in Workers, \A v \in Workers \ {w} : Same(v)
  PROVE  /\ PhaseBar' = [PhaseBar EXCEPT ![w] = PhaseBar'[w]]
         /\ GrantBar' = [GrantBar EXCEPT ![w] = GrantBar'[w]]
         /\ TargetBar' = [TargetBar EXCEPT ![w] = TargetBar'[w]]
         /\ SentBar' = [SentBar EXCEPT ![w] = SentBar'[w]]
         /\ [v \in Workers |-> req'[v]] = [[v \in Workers |-> req[v]] EXCEPT ![w] = req'[w]]
         /\ [v \in Workers |-> status'[v]]
              = [[v \in Workers |-> status[v]] EXCEPT ![w] = status'[w]]
<1>1. PhaseBar' = [PhaseBar EXCEPT ![w] = PhaseBar'[w]]
  BY DEF PhaseBar, Same, Decided
<1>2. GrantBar' = [GrantBar EXCEPT ![w] = GrantBar'[w]]
  BY DEF GrantBar, Same
<1>3. TargetBar' = [TargetBar EXCEPT ![w] = TargetBar'[w]]
  BY DEF TargetBar, Same
<1>4. SentBar' = [SentBar EXCEPT ![w] = SentBar'[w]]
  BY ZenonT(30) DEF SentBar, Same, Decided
<1>5. [v \in Workers |-> req'[v]] = [[v \in Workers |-> req[v]] EXCEPT ![w] = req'[w]]
  BY DEF Same
<1>6. [v \in Workers |-> status'[v]]
              = [[v \in Workers |-> status[v]] EXCEPT ![w] = status'[w]]
  BY DEF Same
<1> QED
  BY <1>1, <1>2, <1>3, <1>4, <1>5, <1>6

\* What does not change for the worker does not change.
LEMMA Kept ==
  ASSUME NEW w \in Workers, \A v \in Workers \ {w} : Same(v)
  PROVE  /\ PhaseBar'[w] = PhaseBar[w] => PhaseBar' = PhaseBar
         /\ GrantBar'[w] = GrantBar[w] => GrantBar' = GrantBar
         /\ TargetBar'[w] = TargetBar[w] => TargetBar' = TargetBar
         /\ SentBar'[w] = SentBar[w] => SentBar' = SentBar
         /\ req'[w] = req[w] => [v \in Workers |-> req'[v]] = [v \in Workers |-> req[v]]
         /\ status'[w] = status[w]
              => [v \in Workers |-> status'[v]] = [v \in Workers |-> status[v]]
<1>1. ASSUME NEW v \in Workers \ {w}
      PROVE  /\ PhaseBar'[v] = PhaseBar[v] /\ GrantBar'[v] = GrantBar[v]
             /\ TargetBar'[v] = TargetBar[v] /\ SentBar'[v] = SentBar[v]
             /\ req'[v] = req[v] /\ status'[v] = status[v]
  BY DEF PhaseBar, GrantBar, TargetBar, SentBar, Decided, Same
<1>2. PhaseBar'[w] = PhaseBar[w] => PhaseBar' = PhaseBar
  BY <1>1 DEF PhaseBar
<1>3. GrantBar'[w] = GrantBar[w] => GrantBar' = GrantBar
  BY <1>1 DEF GrantBar
<1>4. TargetBar'[w] = TargetBar[w] => TargetBar' = TargetBar
  BY <1>1 DEF TargetBar
<1>5. SentBar'[w] = SentBar[w] => SentBar' = SentBar
  BY <1>1 DEF SentBar
<1>6. req'[w] = req[w] => [v \in Workers |-> req'[v]] = [v \in Workers |-> req[v]]
  BY <1>1
<1>7. status'[w] = status[w]
        => [v \in Workers |-> status'[v]] = [v \in Workers |-> status[v]]
  BY <1>1
<1> QED
  BY <1>2, <1>3, <1>4, <1>5, <1>6, <1>7

\* Nothing the abstract store has changes when nothing of the worker's does.
LEMMA SilentStep ==
  ASSUME NEW w \in Workers, \A v \in Workers \ {w} : Same(v),
         UNCHANGED <<list, SeatsBar, PhaseBar[w], GrantBar[w], TargetBar[w], SentBar[w],
                     req[w], status[w]>>
  PROVE  UNCHANGED Store!vars
BY Kept DEF Store!vars

\* The invariant gives the rule for the seats after every step as well.
LEMMA NextRule ==
  ASSUME Inv, [Next]_vars
  PROVE  Inv' /\ SeatsRule' /\ SeatsTyped'
<1>1. Inv'
  BY NextInv, NextSeats, NextAnswers DEF Inv
<1>2. Inv' => SeatsRule' /\ SeatsTyped'
  BY SeatsRuleHolds, SeatsBarType, PTL
<1> QED
  BY <1>1, <1>2

\* What holds around a step of a worker.
LEMMA WorkerMoves ==
  ASSUME Inv, NEW w \in Workers, Call(w) \/ Run(w)
  PROVE  /\ TypeOK /\ UniqueIds /\ w \in Threads /\ Told(w)
         /\ \A v \in Workers \ {w} : Same(v)
         /\ Inv' /\ SeatsRule' /\ SeatsTyped'
<1>1. TypeOK /\ UniqueIds /\ w \in Threads /\ Told(w)
  BY Basics DEF Inv, IInv, Typed, ListInv, AnswerInv
<1>2. Next
  BY DEF Next
<1>3. \A v \in Workers \ {w} : Same(v)
  BY <1>1, OneMoves, Basics
<1>4. Inv' /\ SeatsRule' /\ SeatsTyped'
  BY <1>2, NextRule
<1> QED
  BY <1>1, <1>3, <1>4

\* A decided answer.
LEMMA Answered ==
  ASSUME NEW w \in Workers, \A v \in Workers \ {w} : Same(v), NEW s, NEW m,
         PhaseBar'[w] = "answered", status'[w] = s, SentBar'[w] = m,
         req'[w] = req[w], TargetBar'[w] = TargetBar[w]
  PROVE  /\ Store!Answer(w, s, m) /\ TargetBar' = TargetBar
         /\ [v \in Workers |-> req'[v]] = [v \in Workers |-> req[v]]
BY OneBar, Kept DEF Store!Answer

\* A worker that does not move has the same seats to write.
LEMMA UnwrittenStays ==
  ASSUME NEW v \in Workers, NEW e, list' = list, Same(v)
  PROVE  Unwritten(e, v)' = Unwritten(e, v) /\ rid'[v] = rid[v]
BY DEF Same, Unwritten, SeatIndex

\* No seat of an event changes hands when none is written, and no worker gets or
\* finishes seats to write.
LEMMA EventUntouched ==
  ASSUME Inv, SeatsRule', list' = list, NEW e \in Positions, data'[e] = data[e],
         \A v \in Workers : /\ Unwritten(e, v)' = Unwritten(e, v)
                            /\ Unwritten(e, v) # {} => rid'[v] = rid[v]
  PROVE  SeatsBar'[e] = SeatsBar[e]
<1>1. SeatsRule
  BY SeatsRuleHolds
<1>2. Positions' = Positions /\ SeatsOf(e)' = SeatsOf(e)
  BY DEF Positions, SeatsOf, SizeOf
<1>3. ASSUME NEW i \in SeatsOf(e) PROVE SeatsBar'[e][i] = SeatsBar[e][i]
  <2>1. CASE \E v \in Workers : i \in Unwritten(e, v)
    BY <1>1, <1>2, <2>1 DEF SeatsRule
  <2>2. CASE \A v \in Workers : i \notin Unwritten(e, v)
    BY <1>1, <1>2, <2>2 DEF SeatsRule
  <2> QED
    BY <2>1, <2>2
<1> QED
  BY <1>2, <1>3 DEF SeatsBar

\* No seat changes hands in a step that grants and writes none.
LEMMA SeatsUntouched ==
  ASSUME Inv, SeatsRule', UNCHANGED <<list, data>>,
         \A v \in Workers : \/ Same(v)
                            \/ pc[v] # "reserve_write" /\ pc'[v] # "reserve_write"
  PROVE  SeatsBar' = SeatsBar
<1>1. ASSUME NEW e \in Positions, NEW v \in Workers
      PROVE  Unwritten(e, v)' = Unwritten(e, v) /\ (Unwritten(e, v) # {} => rid'[v] = rid[v])
  <2>1. CASE Same(v)
    BY <2>1, UnwrittenStays
  <2>2. CASE pc[v] # "reserve_write" /\ pc'[v] # "reserve_write"
    BY <2>2 DEF Unwritten
  <2> QED
    BY <2>1, <2>2
<1>2. ASSUME NEW e \in Positions PROVE SeatsBar'[e] = SeatsBar[e]
  BY <1>1, EventUntouched
<1> QED
  BY <1>2 DEF SeatsBar, Positions

----------------------------------------------------------------------------
(* Each operation is one step of the store, around silent ones.            *)

\* Requests and answers.
LEMMA CallRefines ==
  ASSUME Inv, NEW w \in Workers, Call(w) \/ Reply(w)
  PROVE  Store!Call(w) \/ Store!Return(w)
<1>0. TypeOK /\ w \in Threads /\ Told(w)
  BY WorkerMoves DEF Run
<1>1. \A v \in Workers \ {w} : Same(v)
  BY WorkerMoves DEF Run
<1>2. SeatsRule' /\ UNCHANGED <<list, data>>
  BY WorkerMoves DEF Run, Call, Reply
<1>3. CASE Call(w)
  <2>1. PICK r \in Requests : req' = [req EXCEPT ![w] = r] /\ pc' = [pc EXCEPT ![w] = r.op]
    BY <1>3 DEF Call
  <2>2. /\ pc'[w] \in {"create", "reserve", "show", "list"} /\ pc[w] = "idle"
        /\ req'[w] = r /\ UNCHANGED <<ev, last, idx, rid, out, status>>
    BY <1>0, <1>3, <2>1, Basics, RequestKinds DEF Call
  <2>3. SeatsBar' = SeatsBar
    BY <1>1, <1>2, <2>2, SeatsUntouched
  <2>4. /\ PhaseBar[w] = "idle" /\ PhaseBar'[w] = "called"
        /\ GrantBar'[w] = GrantBar[w] /\ TargetBar'[w] = TargetBar[w]
        /\ SentBar'[w] = SentBar[w]
    BY <1>0, <2>2 DEF PhaseBar, GrantBar, TargetBar, SentBar, Decided, Told, Fresh, NoRequest,
       NULL
  <2>5. [v \in Workers |-> req'[v]] = [[v \in Workers |-> req[v]] EXCEPT ![w] = r]
    BY <1>1, <2>2, OneBar
  <2>6. PhaseBar' = [PhaseBar EXCEPT ![w] = "called"]
    BY <1>1, <2>4, OneBar
  <2>7. GrantBar' = GrantBar /\ TargetBar' = TargetBar /\ SentBar' = SentBar
        /\ [v \in Workers |-> status'[v]] = [v \in Workers |-> status[v]]
    BY <1>1, <2>2, <2>4, Kept
  <2>8. UNCHANGED list
    BY <1>2
  <2> QED
    BY <2>3, <2>4, <2>5, <2>6, <2>7, <2>8 DEF Store!Call
<1>4. CASE Reply(w)
  <2>1. /\ pc[w] = "done" /\ pc'[w] = "idle" /\ req'[w] = NoRequest /\ ev'[w] = 0
        /\ rid'[w] = 0 /\ out'[w] = << >> /\ status'[w] = 0
    BY <1>0, <1>4, Basics DEF Reply
  <2>2. SeatsBar' = SeatsBar
    BY <1>1, <1>2, <2>1, SeatsUntouched
  <2>3. /\ PhaseBar[w] = "answered" /\ PhaseBar'[w] = "idle" /\ GrantBar'[w] = <<0, 0>>
        /\ TargetBar'[w] = 0 /\ SentBar'[w] = << >>
    BY <2>1 DEF PhaseBar, GrantBar, TargetBar, SentBar, Decided, NoRequest
  <2>4. /\ PhaseBar' = [PhaseBar EXCEPT ![w] = "idle"]
        /\ GrantBar' = [GrantBar EXCEPT ![w] = <<0, 0>>]
        /\ TargetBar' = [TargetBar EXCEPT ![w] = 0]
        /\ SentBar' = [SentBar EXCEPT ![w] = << >>]
        /\ [v \in Workers |-> req'[v]] = [[v \in Workers |-> req[v]] EXCEPT ![w] = NoRequest]
        /\ [v \in Workers |-> status'[v]] = [[v \in Workers |-> status[v]] EXCEPT ![w] = 0]
    BY <1>1, <2>1, <2>3, OneBar
  <2> QED
    BY <1>2, <2>2, <2>3, <2>4 DEF Store!Return, Store!NoGrant, Store!NoTarget
<1> QED
  BY <1>3, <1>4

\* A new event has its seats free.
LEMMA LinkSeatsBar ==
  ASSUME Inv, NEW w \in Workers, CreateLink(w)
  PROVE  SeatsBar' = Append(SeatsBar, [i \in 0 .. req[w].size[1] * req[w].size[2] - 1 |-> 0])
<1> DEFINE size == req[w].size[1] * req[w].size[2]
           free == [i \in 0 .. size - 1 |-> 0]
<1>0. /\ TypeOK /\ w \in Threads /\ IInv /\ Len(list) \in Nat /\ Run(w)
      /\ Positions = 1 .. Len(list)
  BY Basics DEF Inv, IInv, Typed, Run, Create, Positions
<1> PICK n \in Nat : n = Len(list) + 1
  BY <1>0
<1>1. /\ \A v \in Workers \ {w} : Same(v)
      /\ Inv' /\ SeatsRule' /\ SeatsTyped' /\ SeatsRule
  BY <1>0, WorkerMoves, SeatsRuleHolds
<1>2. /\ Positions' = Positions \cup {n} /\ Len(list') = n
      /\ \A e \in Positions : list'[e] = list[e] /\ data'[e] = data[e]
      /\ \A i \in SeatsOf(n)' : data'[n][i] = 0
  BY <1>0, Linked DEF Positions
<1>3. size \in Nat /\ SeatsOf(n)' = 0 .. size - 1
  <2>1. req[w] \in CreateRequests
    BY DEF Inv, IInv, CallInv, CreateLink, CreateLabels
  <2>2. size \in Nat /\ req[w].id \in EventIds /\ req[w].size \in Nat \X Nat
    BY <2>1, SizesAssumption DEF CreateRequests
  <2>3. list'[n] = [id |-> req[w].id, rows |-> req[w].size[1], cols |-> req[w].size[2]]
    BY <1>0, <2>2, AppendProperties DEF CreateLink, TypeOK, EventsOK
  <2> QED
    BY <2>2, <2>3 DEF SeatsOf, SizeOf
<1> HIDE DEF size
<1>4. ASSUME NEW v \in Workers
      PROVE  /\ \A e \in Positions : Unwritten(e, v)' = Unwritten(e, v)
             /\ Unwritten(n, v)' = {}
             /\ \A e \in Positions : Unwritten(e, v) # {} => rid'[v] = rid[v]
  <2>1. CASE v = w
    <3>1. pc[w] = "create_append" /\ pc'[w] = "create_count"
      BY <1>0, Basics DEF CreateLink
    <3> QED
      BY <2>1, <3>1 DEF Unwritten
  <2>2. CASE v # w
    <3>1. pc'[v] = pc[v] /\ ev'[v] = ev[v] /\ req'[v] = req[v] /\ idx'[v] = idx[v]
          /\ rid'[v] = rid[v]
      BY <1>1, <2>2 DEF Same
    <3>2. pc[v] = "reserve_write" => ev[v] \in Positions /\ ev[v] # n
      BY <1>0, Reserving
    <3>3. \A e \in Positions : list'[e].cols = list[e].cols
      BY <1>2
    <3>4. Unwritten(n, v)' = {}
      BY <3>1, <3>2 DEF Unwritten
    <3>5. ASSUME NEW e \in Positions PROVE Unwritten(e, v)' = Unwritten(e, v)
      BY <3>1, <3>3 DEF Unwritten, SeatIndex
    <3> QED
      BY <3>1, <3>4, <3>5
  <2> QED
    BY <2>1, <2>2
<1>5. ASSUME NEW e \in Positions PROVE SeatsBar'[e] = SeatsBar[e]
  <2>1. SeatsOf(e)' = SeatsOf(e) /\ e \in Positions'
    BY <1>2 DEF SeatsOf, SizeOf
  <2>2. ASSUME NEW i \in SeatsOf(e) PROVE SeatsBar'[e][i] = SeatsBar[e][i]
    <3>1. CASE \E v \in Workers : i \in Unwritten(e, v)
      BY <1>1, <1>4, <2>1, <3>1 DEF SeatsRule
    <3>2. CASE \A v \in Workers : i \notin Unwritten(e, v)
      BY <1>1, <1>2, <1>4, <2>1, <3>2 DEF SeatsRule
    <3> QED
      BY <3>1, <3>2
  <2> QED
    BY <2>1, <2>2 DEF SeatsBar
<1>6. SeatsBar'[n] = free
  <2>1. n \in Positions'
    BY <1>2
  <2>2. ASSUME NEW i \in SeatsOf(n)' PROVE SeatsBar'[n][i] = 0
    BY <1>1, <1>2, <1>4, <2>1 DEF SeatsRule
  <2> QED
    BY <1>3, <2>1, <2>2 DEF SeatsBar
<1>7. free \in SeatMaps
  BY <1>3 DEF SeatMaps
<1>8. SeatsBar \in Seq(SeatMaps) /\ Len(SeatsBar) = Len(list)
  BY SeatsBarType DEF SeatsTyped
<1>9. SeatsBar' \in Seq(SeatMaps) /\ Len(SeatsBar') = n
  BY <1>1, <1>2 DEF SeatsTyped
<1> DEFINE a == Append(SeatsBar, free)
<1>10. /\ a \in Seq(SeatMaps) /\ Len(a) = n /\ a[n] = free
       /\ \A e \in Positions : a[e] = SeatsBar[e]
  BY <1>0, <1>7, <1>8, AppendProperties
<1>11. \A e \in 1 .. n : e = n \/ e \in Positions
  BY <1>0
<1> HIDE DEF a, free
<1>12. \A e \in 1 .. n : SeatsBar'[e] = a[e]
  BY <1>5, <1>6, <1>10, <1>11
<1>13. SeatsBar' = a
  BY <1>9, <1>10, <1>12, SeqEqual
<1> QED
  BY <1>13 DEF a, free, size

\* CREATE takes effect when the node is linked; nobody looks at the list before
\* it is counted.
LEMMA CreateRefines ==
  ASSUME Inv, NEW w \in Workers, Create(w)
  PROVE  Store!Create(w) \/ Store!CreateRefused(w) \/ UNCHANGED Store!vars
<1>0. TypeOK /\ w \in Threads /\ Told(w) /\ UniqueIds
  BY WorkerMoves DEF Run
<1>1. \A v \in Workers \ {w} : Same(v)
  BY WorkerMoves DEF Run
<1>2. Inv' /\ SeatsRule'
  BY WorkerMoves DEF Run
<1>3. pc[w] \in CreateLabels /\ UNCHANGED <<req, ev, last, idx, rid, out>>
  BY DEF Create, CreateLock, CreateFind, CreateFail, CreateLink, CreateCount, CreateLabels
<1>4. req[w] \in CreateRequests /\ req[w].op = "create" /\ out[w] = << >>
  BY <1>0, <1>3 DEF Inv, IInv, CallInv, CreateRequests, Told, Fresh, CreateLabels
<1>5. /\ GrantBar'[w] = GrantBar[w] /\ TargetBar'[w] = TargetBar[w]
      /\ SentBar'[w] = << >> /\ SentBar[w] = << >>
  BY <1>3, <1>4 DEF GrantBar, TargetBar, SentBar
<1>6. GrantBar' = GrantBar /\ req'[w] = req[w]
  BY <1>1, <1>3, <1>5, Kept
<1>7. ASSUME ~CreateLink(w) PROVE SeatsBar' = SeatsBar /\ UNCHANGED list
  <2>1. UNCHANGED <<list, data>>
    BY <1>7 DEF Create, CreateLock, CreateFind, CreateFail, CreateCount
  <2>2. pc[w] # "reserve_write" /\ pc'[w] # "reserve_write"
    BY <1>0, <1>7, Basics DEF Create, CreateLock, CreateFind, CreateFail, CreateCount
  <2> QED
    BY <1>1, <1>2, <2>1, <2>2, SeatsUntouched
<1>8. ASSUME ~CreateLink(w), pc[w] \in {"create_find", "create_append"}, pc'[w] = "done",
             status'[w] = 1
      PROVE  Store!CreateRefused(w)
  <2>1. PhaseBar[w] = "called" /\ PhaseBar'[w] = "answered"
    BY <1>8 DEF PhaseBar, Decided
  <2>2. /\ Store!Answer(w, 1, << >>) /\ TargetBar' = TargetBar
        /\ [v \in Workers |-> req'[v]] = [v \in Workers |-> req[v]]
    BY <1>1, <1>5, <1>6, <1>8, <2>1, Answered
  <2> QED
    BY <1>4, <1>6, <1>7, <1>8, <2>1, <2>2 DEF Store!CreateRefused, Store!Waits
<1>9. ASSUME ~CreateLink(w), PhaseBar'[w] = PhaseBar[w], status'[w] = status[w]
      PROVE  UNCHANGED Store!vars
  BY <1>1, <1>5, <1>6, <1>7, <1>9, SilentStep
<1>10. CASE CreateLock(w)
  <2>1. ~CreateLink(w) /\ PhaseBar'[w] = PhaseBar[w] /\ status'[w] = status[w]
    BY <1>0, <1>10, Basics DEF CreateLock, CreateLink, PhaseBar, Decided
  <2> QED
    BY <1>9, <2>1
<1>11. CASE CreateFind(w)
  <2>1. ~CreateLink(w) /\ pc[w] = "create_find"
    BY <1>11 DEF CreateFind, CreateLink
  <2>2. \/ pc'[w] = "done" /\ status'[w] = 1
        \/ pc'[w] = "create_append" /\ status'[w] = status[w]
    BY <1>0, <1>11, Basics DEF CreateFind
  <2>3. CASE pc'[w] = "done" /\ status'[w] = 1
    BY <1>8, <2>1, <2>3
  <2>4. CASE pc'[w] = "create_append" /\ status'[w] = status[w]
    BY <1>9, <2>1, <2>4 DEF PhaseBar, Decided
  <2> QED
    BY <2>2, <2>3, <2>4
<1>12. CASE CreateFail(w)
  <2>1. ~CreateLink(w) /\ pc[w] = "create_append" /\ pc'[w] = "done" /\ status'[w] = 1
    BY <1>0, <1>12, Basics DEF CreateFail, CreateLink
  <2> QED
    BY <1>8, <2>1
<1>13. CASE CreateCount(w)
  <2>1. ~CreateLink(w) /\ pc[w] = "create_count" /\ pc'[w] = "done" /\ status'[w] = 0
    BY <1>0, <1>13, Basics DEF CreateCount, CreateLink
  <2>2. status[w] = 0
    BY <1>0, <2>1 DEF Told, Fresh
  <2> QED
    BY <1>9, <2>1, <2>2 DEF PhaseBar, Decided
<1>14. CASE CreateLink(w)
  <2> DEFINE node == [id |-> req[w].id, rows |-> req[w].size[1], cols |-> req[w].size[2]]
             free == [i \in 0 .. req[w].size[1] * req[w].size[2] - 1 |-> 0]
  <2>1. pc[w] = "create_append" /\ pc'[w] = "create_count" /\ status'[w] = status[w]
        /\ list' = Append(list, node) /\ status[w] = 0
    BY <1>0, <1>14, Basics DEF CreateLink, Told, Fresh
  <2>2. SeatsBar' = Append(SeatsBar, free)
    BY <1>14, LinkSeatsBar
  <2>3. PhaseBar[w] = "called" /\ PhaseBar'[w] = "answered"
    BY <2>1 DEF PhaseBar, Decided
  <2>4. /\ Store!Answer(w, 0, << >>) /\ TargetBar' = TargetBar
        /\ [v \in Workers |-> req'[v]] = [v \in Workers |-> req[v]]
    BY <1>1, <1>5, <1>6, <2>1, <2>3, Answered
  <2>5. Store!Found(req[w].id) = {}
    BY <2>1 DEF Inv, IInv, ListInv, NewIdInv, Positions, Store!Found
  <2>6. Store!Waits(w, "create")
    BY <1>4, <2>3 DEF Store!Waits
  <2> HIDE DEF node, free
  <2>7. [v \in Workers |-> req[v]][w] = req[w]
    OBVIOUS
  <2>8. Store!Create(w)
    BY <1>6, <2>1, <2>2, <2>4, <2>5, <2>6, <2>7 DEF Store!Create, node, free
  <2> QED
    BY <2>8
<1> QED
  BY <1>10, <1>11, <1>12, <1>13, <1>14 DEF Create

\* get_event finds the one event there is with this id.
LEMMA FoundIs ==
  ASSUME TypeOK, UniqueIds, NEW id
  PROVE  /\ GetEvent(id) = 0 => Store!Found(id) = {}
         /\ GetEvent(id) # 0 => GetEvent(id) \in Positions /\ Store!Found(id) = {GetEvent(id)}
<1>1. /\ GetEvent(id) \in {0} \cup Positions
      /\ GetEvent(id) # 0 => list[GetEvent(id)].id = id
      /\ GetEvent(id) = 0 => \A e \in Positions : list[e].id # id
  BY GetEventFinds DEF NULL
<1> QED
  BY <1>1 DEF Store!Found, Positions, UniqueIds

\* A seat still to be written is one the request asks for.
LEMMA UnwrittenSeat ==
  ASSUME Inv, NEW v \in Workers, NEW e, NEW i \in Unwritten(e, v)
  PROVE  /\ pc[v] = "reserve_write" /\ ev[v] = e /\ rid[v] > 0 /\ rid[v] = reservations[e]
         /\ data[e][i] \in {0, rid[v]}
<1>1. pc[v] = "reserve_write" /\ ev[v] = e
  BY DEF Unwritten
<1>2. Written(v) /\ idx[v] \in 1 .. Len(req[v].seats) + 1
  BY <1>1 DEF Inv, SeatInv, Written
<1>3. Len(req[v].seats) \in Nat
  BY <1>1, Reserving, RequestSeats DEF Inv
<1>4. i \in AllWanted(v)
  BY <1>1, <1>2, <1>3 DEF Unwritten, AllWanted, Wanted
<1> QED
  BY <1>1, <1>2, <1>4 DEF Written

\* SHOW reads a seat as the store has it, or as free although a worker that has
\* not answered has it.
LEMMA ShowSeatRefines ==
  ASSUME Inv, NEW w \in Workers, ShowSeat(w), SeatsBar' = SeatsBar,
         PhaseBar' = PhaseBar, GrantBar' = GrantBar, TargetBar' = TargetBar,
         SentBar' = [SentBar EXCEPT ![w] = out'[w]], UNCHANGED list,
         [v \in Workers |-> req'[v]] = [v \in Workers |-> req[v]],
         [v \in Workers |-> status'[v]] = [v \in Workers |-> status[v]],
         req[w].op = "show", SentBar[w] = out[w], TargetBar[w] = ev[w], PhaseBar[w] = "called"
  PROVE  Store!ShowSeat(w)
<1>0. TypeOK /\ w \in Threads /\ Told(w) /\ SeatsRule /\ SeatsTyped /\ IInv
  BY Basics, SeatsRuleHolds, SeatsBarType DEF Inv, IInv, Typed, AnswerInv
<1>1. pc[w] = "show_data" /\ idx[w] \in SeatsOf(ev[w]) /\ idx[w] \in Nat
  BY <1>0, LocalTypes DEF ShowSeat
<1>2. ev[w] \in Positions /\ ev[w] # 0
  BY <1>0, <1>1, EventInUse DEF HasEvent, Positions
<1>3. PICK n \in Nat : n = data[ev[w]][idx[w]]
  BY <1>0, <1>1, <1>2, NodeTypes
<1>4. out[w] \in Seq(Nat) /\ Len(out[w]) - 2 = idx[w]
  BY <1>0, <1>1, LocalTypes DEF Told, ShowSent
<1>5. out'[w] = Append(out[w], n)
  <2>1. out'[w] = out[w] \o <<n>>
    BY <1>0, <1>3, Basics DEF ShowSeat
  <2> QED
    BY <1>4, <2>1, AppendIsConcat
<1>6. Store!Waits(w, "show") /\ TargetBar[w] # Store!NoTarget
  BY <1>2 DEF Store!Waits, Store!NoTarget
<1>7. idx[w] \in DOMAIN SeatsBar[ev[w]]
  BY <1>0, <1>1, <1>2 DEF SeatsTyped
<1>8. \/ n = SeatsBar[ev[w]][idx[w]]
      \/ n = 0 /\ Store!Unacknowledged(ev[w], SeatsBar[ev[w]][idx[w]])
  <2>1. CASE \A v \in Workers : idx[w] \notin Unwritten(ev[w], v)
    BY <1>0, <1>1, <1>2, <1>3, <2>1 DEF SeatsRule
  <2>2. ASSUME NEW v \in Workers, idx[w] \in Unwritten(ev[w], v), n # SeatsBar[ev[w]][idx[w]]
        PROVE  n = 0 /\ Store!Unacknowledged(ev[w], SeatsBar[ev[w]][idx[w]])
    <3>1. SeatsBar[ev[w]][idx[w]] = rid[v]
      BY <1>0, <1>1, <1>2, <2>2 DEF SeatsRule
    <3>2. pc[v] = "reserve_write" /\ ev[v] = ev[w] /\ rid[v] > 0 /\ n \in {0, rid[v]}
      BY <1>3, <2>2, UnwrittenSeat
    <3>3. PhaseBar[v] # "idle" /\ GrantBar[v] = <<ev[w], rid[v]>>
      BY <3>2 DEF PhaseBar, GrantBar, Decided
    <3> QED
      BY <2>2, <3>1, <3>2, <3>3 DEF Store!Unacknowledged
  <2> QED
    BY <2>1, <2>2
<1>9. SentBar' = [SentBar EXCEPT ![w] = Append(SentBar[w], n)]
  BY <1>5
<1> QED
  BY <1>1, <1>3, <1>4, <1>6, <1>7, <1>8, <1>9 DEF Store!ShowSeat

\* SHOW finds its event, sends its size and its seats, and ends.
LEMMA ShowRefines ==
  ASSUME Inv, NEW w \in Workers, Show(w)
  PROVE  \/ Store!ShowFound(w) \/ Store!ShowSize(w) \/ Store!ShowSeat(w) \/ Store!ShowEnd(w)
         \/ Store!ShowRefused(w) \/ UNCHANGED Store!vars
<1>0. TypeOK /\ w \in Threads /\ Told(w) /\ UniqueIds /\ IInv
  BY WorkerMoves DEF Run, Inv
<1>1. \A v \in Workers \ {w} : Same(v)
  BY WorkerMoves DEF Run
<1>2. Inv' /\ SeatsRule'
  BY WorkerMoves DEF Run
<1>3. pc[w] \in ShowLabels /\ UNCHANGED <<list, data, req, rid>>
  BY DEF Show, ShowLock, ShowFind, ShowSize, ShowSeat, ShowEnd, ShowFail, ShowLabels
<1>4. req[w].op = "show" /\ rid[w] = 0 /\ status[w] = 0
  BY <1>0, <1>3 DEF IInv, CallInv, ShowRequests, Told, Fresh, ShowLabels
<1>5. pc'[w] \in ShowLabels \cup {"done"}
  BY <1>0, Basics DEF Show, ShowLock, ShowFind, ShowSize, ShowSeat, ShowEnd, ShowFail, ShowLabels
<1>6. SeatsBar' = SeatsBar
  BY <1>1, <1>2, <1>3, <1>5, SeatsUntouched DEF ShowLabels
<1>7. /\ PhaseBar[w] = "called" /\ GrantBar'[w] = GrantBar[w]
      /\ PhaseBar'[w] = IF pc'[w] = "done" THEN "answered" ELSE "called"
      /\ TargetBar[w] = ev[w] /\ TargetBar'[w] = ev'[w]
      /\ SentBar[w] = out[w] /\ SentBar'[w] = out'[w]
  BY <1>3, <1>4, <1>5 DEF PhaseBar, GrantBar, TargetBar, SentBar, Decided, ShowLabels
<1>8. Store!Waits(w, "show")
  BY <1>4, <1>7 DEF Store!Waits
<1>9. GrantBar' = GrantBar /\ [v \in Workers |-> req'[v]] = [v \in Workers |-> req[v]]
  BY <1>1, <1>3, <1>7, Kept
<1>10. pc'[w] # "done" => PhaseBar' = PhaseBar
  BY <1>1, <1>7, Kept
<1>11. CASE ShowLock(w)
  <2>1. pc'[w] # "done" /\ ev'[w] = ev[w] /\ out'[w] = out[w] /\ status'[w] = status[w]
    BY <1>0, <1>11, Basics DEF ShowLock
  <2> QED
    BY <1>1, <1>3, <1>6, <1>7, <2>1, SilentStep
<1>12. CASE ShowFind(w)
  <2>1. ev[w] = 0 /\ out[w] = << >> /\ ev'[w] = GetEvent(req[w].id)
    BY <1>0, <1>12, Basics DEF ShowFind, Told, Fresh, NULL
  <2>2. CASE ev'[w] = 0
    <3>1. pc'[w] = "done" /\ status'[w] = 1 /\ out'[w] \in {<< >> \o <<0, 0>>, << >>}
      BY <1>0, <1>12, <2>1, <2>2, Basics DEF ShowFind, NULL
    <3>2. PICK m \in {<<0, 0>>, << >>} : out'[w] = m
      BY <3>1
    <3>3. Store!Answer(w, 1, m) /\ TargetBar' = TargetBar
      BY <1>1, <1>3, <1>7, <2>1, <2>2, <3>1, <3>2, Answered
    <3>4. Store!Found(req[w].id) = {}
      BY <1>0, <2>1, <2>2, FoundIs
    <3>5. Store!ShowRefused(w)
      BY <1>3, <1>6, <1>8, <1>9, <3>2, <3>3, <3>4 DEF Store!ShowRefused
    <3> QED
      BY <3>5
  <2>3. CASE ev'[w] # 0
    <3>1. pc'[w] # "done" /\ out'[w] = out[w] /\ status'[w] = status[w]
      BY <1>0, <1>12, <2>1, <2>3, Basics DEF ShowFind, NULL
    <3>2. ev'[w] \in Store!Found(req[w].id)
      BY <1>0, <2>1, <2>3, FoundIs
    <3>3. TargetBar' = [TargetBar EXCEPT ![w] = ev'[w]] /\ TargetBar[w] = 0
      BY <1>1, <1>7, <2>1, OneBar
    <3>4. SentBar' = SentBar /\ [v \in Workers |-> status'[v]] = [v \in Workers |-> status[v]]
      BY <1>1, <1>7, <3>1, Kept
    <3>5. Store!ShowFound(w)
      BY <1>3, <1>6, <1>8, <1>9, <1>10, <3>1, <3>2, <3>3, <3>4
         DEF Store!ShowFound, Store!NoTarget
    <3> QED
      BY <3>5
  <2> QED
    BY <2>2, <2>3
<1>13. ASSUME pc[w] \in {"show_size", "show_data"}
       PROVE  ev[w] \in Positions /\ ev[w] # 0 /\ SizeOf(ev[w]) \in Nat
  <2>1. ev[w] \in Positions
    BY <1>0, <1>13, EventInUse DEF HasEvent
  <2> QED
    BY <1>0, <2>1, NodeTypes DEF SizeOf, Positions
<1>14. CASE ShowSize(w)
  <2>1. /\ pc[w] = "show_size" /\ pc'[w] # "done" /\ ev'[w] = ev[w] /\ status'[w] = status[w]
        /\ out[w] = << >> /\ out'[w] = << >> \o <<list[ev[w]].rows, list[ev[w]].cols>>
    BY <1>0, <1>14, Basics DEF ShowSize, Told, Fresh
  <2>2. out'[w] = <<list[ev[w]].rows, list[ev[w]].cols>>
    BY <2>1
  <2>3. SentBar' = [SentBar EXCEPT ![w] = <<list[TargetBar[w]].rows, list[TargetBar[w]].cols>>]
    BY <1>1, <1>7, <2>2, OneBar
  <2>4. TargetBar' = TargetBar
        /\ [v \in Workers |-> status'[v]] = [v \in Workers |-> status[v]]
    BY <1>1, <1>7, <2>1, Kept
  <2>5. TargetBar[w] # 0 /\ SentBar[w] = << >>
    BY <1>7, <1>13, <2>1
  <2>6. Store!ShowSize(w)
    BY <1>3, <1>6, <1>8, <1>9, <1>10, <2>1, <2>3, <2>4, <2>5 DEF Store!ShowSize, Store!NoTarget
  <2> QED
    BY <2>6
<1>15. CASE ShowSeat(w)
  <2>1. pc'[w] # "done" /\ ev'[w] = ev[w] /\ status'[w] = status[w]
    BY <1>0, <1>15, Basics DEF ShowSeat
  <2>2. /\ TargetBar' = TargetBar /\ SentBar' = [SentBar EXCEPT ![w] = out'[w]]
        /\ [v \in Workers |-> status'[v]] = [v \in Workers |-> status[v]]
    BY <1>1, <1>7, <2>1, Kept, OneBar
  <2> QED
    BY <1>3, <1>4, <1>6, <1>7, <1>9, <1>10, <1>15, <2>1, <2>2, ShowSeatRefines
<1>16. CASE ShowEnd(w)
  <2>1. /\ pc[w] = "show_data" /\ pc'[w] = "done" /\ status'[w] = 0 /\ out'[w] = out[w]
        /\ ev'[w] = ev[w] /\ idx[w] \notin SeatsOf(ev[w]) /\ idx[w] \in Nat
    BY <1>0, <1>16, LocalTypes, Basics DEF ShowEnd
  <2>2. Len(out[w]) = SizeOf(ev[w]) + 2
    BY <1>0, <1>13, <2>1 DEF Told, ShowSent, SeatsOf
  <2>3. Store!Answer(w, 0, SentBar[w]) /\ TargetBar' = TargetBar
    <3>1. PICK m : m = SentBar[w]
      OBVIOUS
    <3>2. /\ PhaseBar'[w] = "answered" /\ SentBar'[w] = m /\ req'[w] = req[w]
          /\ TargetBar'[w] = TargetBar[w]
      BY <1>3, <1>7, <2>1, <3>1
    <3>3. Store!Answer(w, 0, m) /\ TargetBar' = TargetBar
      BY <1>1, <2>1, <3>2, Answered
    <3> QED
      BY <3>1, <3>3 DEF Store!Answer
  <2>4. /\ TargetBar[w] # 0
        /\ Len(SentBar[w]) = list[TargetBar[w]].rows * list[TargetBar[w]].cols + 2
    BY <1>7, <1>13, <2>1, <2>2 DEF SizeOf
  <2>5. Store!ShowEnd(w)
    BY <1>3, <1>6, <1>8, <1>9, <2>3, <2>4 DEF Store!ShowEnd, Store!NoTarget
  <2> QED
    BY <2>5
<1>17. CASE ShowFail(w)
  <2>1. /\ pc[w] \in {"show_size", "show_data"} /\ pc'[w] = "done" /\ status'[w] = 1
        /\ out'[w] = out[w] /\ ev'[w] = ev[w]
    BY <1>0, <1>17, Basics DEF ShowFail
  <2>2. Store!Answer(w, 1, SentBar[w]) /\ TargetBar' = TargetBar
    <3>1. PICK m : m = SentBar[w]
      OBVIOUS
    <3>2. /\ PhaseBar'[w] = "answered" /\ SentBar'[w] = m /\ req'[w] = req[w]
          /\ TargetBar'[w] = TargetBar[w]
      BY <1>3, <1>7, <2>1, <3>1
    <3>3. Store!Answer(w, 1, m) /\ TargetBar' = TargetBar
      BY <1>1, <2>1, <3>2, Answered
    <3> QED
      BY <3>1, <3>3 DEF Store!Answer
  <2>3. TargetBar[w] # 0
    BY <1>7, <1>13, <2>1
  <2>4. Store!ShowRefused(w)
    BY <1>3, <1>6, <1>8, <1>9, <2>2, <2>3 DEF Store!ShowRefused, Store!NoTarget
  <2> QED
    BY <2>4
<1> QED
  BY <1>11, <1>12, <1>14, <1>15, <1>16, <1>17 DEF Show

\* The listing has the number of events first, then their ids.
LEMMA ListingIs ==
  ASSUME TypeOK
  PROVE  /\ Store!Listing \in Seq(Nat) /\ Len(Store!Listing) = Len(list) + 1
         /\ Store!Listing[1] = Len(list)
         /\ \A j \in 1 .. Len(list) : Store!Listing[j + 1] = list[j].id
<1> DEFINE ids == [e \in 1 .. Len(list) |-> list[e].id]
<1>1. PICK n \in Nat : n = Len(list)
  BY Basics
<1>2. \A e \in 1 .. n : list[e].id \in Nat
  BY <1>1, NodeTypes, IdsAssumption DEF Positions
<1>3. ids \in Seq(Nat) /\ Len(ids) = n /\ \A e \in 1 .. n : ids[e] = list[e].id
  BY <1>1, <1>2
<1>4. <<n>> \in Seq(Nat) /\ Len(<<n>>) = 1 /\ <<n>>[1] = n
  BY <1>1
<1>5. Store!Listing = <<n>> \o ids
  BY <1>1 DEF Store!Listing
<1> HIDE DEF ids
<1>6. /\ <<n>> \o ids \in Seq(Nat) /\ Len(<<n>> \o ids) = 1 + n
      /\ \A i \in 1 .. 1 + n : (<<n>> \o ids)[i] = IF i <= 1 THEN <<n>>[i] ELSE ids[i - 1]
  BY <1>3, <1>4, ConcatProperties
<1>7. ASSUME NEW j \in 1 .. n PROVE (<<n>> \o ids)[j + 1] = list[j].id
  <2>1. j + 1 \in 1 .. 1 + n /\ ~(j + 1 <= 1) /\ (j + 1) - 1 = j
    BY <1>1
  <2> QED
    BY <1>3, <1>6, <2>1
<1>8. (<<n>> \o ids)[1] = n
  BY <1>1, <1>4, <1>6
<1> QED
  BY <1>1, <1>5, <1>6, <1>7, <1>8

\* What LIST has sent is the beginning of the listing.
LEMMA ListingPrefix ==
  ASSUME TypeOK, NEW m \in Seq(Nat), Len(m) <= Len(list) + 1,
         Len(m) > 0 => m[1] = Len(list),
         \A j \in 1 .. Len(m) - 1 : m[j + 1] = list[j].id
  PROVE  m = SubSeq(Store!Listing, 1, Len(m))
<1>1. Len(m) \in Nat /\ Len(list) \in Nat
  BY Basics
<1> DEFINE l == Store!Listing
<1>2. /\ l \in Seq(Nat) /\ Len(l) = Len(list) + 1 /\ l[1] = Len(list)
      /\ \A j \in 1 .. Len(list) : l[j + 1] = list[j].id
  BY ListingIs
<1> HIDE DEF l
<1>3. \A i \in 1 .. Len(m) : l[i] \in Nat
  BY <1>1, <1>2, ElementOfSeq
<1>4. /\ SubSeq(l, 1, Len(m)) \in Seq(Nat)
      /\ Len(SubSeq(l, 1, Len(m))) = Len(m)
      /\ \A i \in 1 .. Len(m) : SubSeq(l, 1, Len(m))[i] = l[i]
  <2>1. /\ SubSeq(l, 1, Len(m)) \in Seq(Nat)
        /\ Len(SubSeq(l, 1, Len(m))) = IF 1 <= Len(m) THEN Len(m) - 1 + 1 ELSE 0
        /\ \A i \in 1 .. Len(m) - 1 + 1 : SubSeq(l, 1, Len(m))[i] = l[1 + i - 1]
    BY <1>1, <1>3, SubSeqProperties
  <2> QED
    BY <1>1, <2>1
<1>5. ASSUME NEW i \in 1 .. Len(m) PROVE m[i] = l[i]
  <2>1. CASE i = 1
    BY <1>1, <1>2, <2>1
  <2>2. CASE i # 1
    <3>1. i - 1 \in 1 .. Len(m) - 1 /\ i - 1 \in 1 .. Len(list) /\ (i - 1) + 1 = i
      BY <1>1, <2>2
    <3> QED
      BY <1>2, <3>1
  <2> QED
    BY <2>1, <2>2
<1>6. m = SubSeq(l, 1, Len(m))
  BY <1>4, <1>5, SeqEqual
<1> QED
  BY <1>6 DEF l

\* LIST takes effect when its last number is written; the list is locked.
LEMMA ListRefines ==
  ASSUME Inv, NEW w \in Workers, List(w)
  PROVE  Store!ListAll(w) \/ Store!ListPart(w) \/ UNCHANGED Store!vars
<1>0. TypeOK /\ w \in Threads /\ Told(w) /\ UniqueIds /\ IInv
  BY WorkerMoves DEF Run, Inv
<1>1. \A v \in Workers \ {w} : Same(v)
  BY WorkerMoves DEF Run
<1>2. Inv' /\ SeatsRule' /\ Told(w)' /\ TypeOK'
  BY WorkerMoves DEF Run, Inv, AnswerInv, IInv, Typed
<1>3. pc[w] \in ListLabels /\ UNCHANGED <<list, data, req, idx, rid>>
  BY DEF List, ListLock, ListCount, ListId, ListFail, ListLabels
<1>4. req[w].op = "list" /\ rid[w] = 0 /\ status[w] = 0
  BY <1>0, <1>3 DEF Inv, SeatInv, Begins, Told, Fresh, ListLabels
<1>5. pc'[w] \in ListLabels \cup {"done"}
  BY <1>0, Basics DEF List, ListLock, ListCount, ListId, ListFail, ListLabels
<1>6. SeatsBar' = SeatsBar
  BY <1>1, <1>2, <1>3, <1>5, SeatsUntouched DEF ListLabels
<1>7. /\ PhaseBar[w] = "called" /\ GrantBar'[w] = GrantBar[w] /\ TargetBar'[w] = TargetBar[w]
      /\ PhaseBar'[w] = IF pc'[w] = "done" THEN "answered" ELSE "called"
      /\ SentBar[w] = << >> /\ SentBar'[w] = IF pc'[w] = "done" THEN out'[w] ELSE << >>
  BY <1>3, <1>4, <1>5 DEF PhaseBar, GrantBar, TargetBar, SentBar, Decided, ListLabels
<1>8. Store!Waits(w, "list")
  BY <1>4, <1>7 DEF Store!Waits
<1>9. GrantBar' = GrantBar /\ out'[w] \in Seq(Nat) /\ Len(list) \in Nat
  BY <1>0, <1>1, <1>2, <1>7, Kept, LocalTypes, Basics DEF TypeOK, LocalsOK
<1>10. ASSUME pc'[w] # "done", status'[w] = status[w] PROVE UNCHANGED Store!vars
  BY <1>1, <1>3, <1>6, <1>7, <1>10, SilentStep
<1>11. ASSUME pc'[w] = "done", NEW s, status'[w] = s
       PROVE  /\ Store!Answer(w, s, out'[w]) /\ TargetBar' = TargetBar
              /\ [v \in Workers |-> req'[v]] = [v \in Workers |-> req[v]]
  <2>1. PICK m : m = out'[w]
    OBVIOUS
  <2>2. /\ Store!Answer(w, s, m) /\ TargetBar' = TargetBar
        /\ [v \in Workers |-> req'[v]] = [v \in Workers |-> req[v]]
    BY <1>1, <1>3, <1>7, <1>11, <2>1, Answered
  <2> QED
    BY <2>1, <2>2 DEF Store!Answer
<1>12. ASSUME pc'[w] = "done", status'[w] = 0, out'[w][1] = Len(list) PROVE Store!ListAll(w)
  <2>1. /\ Len(out'[w]) = Len(list) + 1
        /\ \A j \in 1 .. Len(list) : out'[w][j + 1] = list[j].id
    BY <1>2, <1>3, <1>4, <1>12 DEF Told, ListDone
  <2>2. out'[w] = SubSeq(Store!Listing, 1, Len(list) + 1)
    <3>1. PICK m \in Seq(Nat) : m = out'[w]
      BY <1>9
    <3>2. /\ Len(m) = Len(list) + 1 /\ m[1] = Len(list)
          /\ \A j \in 1 .. Len(m) - 1 : m[j + 1] = list[j].id
      BY <1>9, <1>12, <2>1, <3>1
    <3>3. Len(m) <= Len(list) + 1
      BY <1>9, <3>2
    <3>4. m = SubSeq(Store!Listing, 1, Len(m))
      BY <1>0, <3>2, <3>3, ListingPrefix
    <3> QED
      BY <3>1, <3>2, <3>4
  <2>3. out'[w] = Store!Listing
    BY <1>0, <2>2, ListingIs, SubSeqFull
  <2>4. /\ Store!Answer(w, 0, out'[w]) /\ TargetBar' = TargetBar
        /\ [v \in Workers |-> req'[v]] = [v \in Workers |-> req[v]]
    BY <1>11, <1>12
  <2>5. Store!Answer(w, 0, Store!Listing)
    BY <2>3, <2>4 DEF Store!Answer
  <2> QED
    BY <1>3, <1>6, <1>8, <1>9, <2>4, <2>5 DEF Store!ListAll
<1>13. CASE ListLock(w)
  BY <1>0, <1>10, <1>13, Basics DEF ListLock
<1>14. CASE ListCount(w)
  <2>1. event_num = Len(list) /\ out[w] = << >> /\ pc[w] = "list_count"
    BY <1>0, <1>14, CountUnderLock DEF ListCount, Told, Fresh
  <2>2. out'[w] = << >> \o <<event_num>>
    BY <1>0, <1>14, <2>1, Basics DEF ListCount
  <2>3. out'[w][1] = Len(list)
    BY <2>1, <2>2
  <2>4. \/ pc'[w] = "done" /\ status'[w] = 0
        \/ pc'[w] # "done" /\ status'[w] = status[w]
    BY <1>0, <1>14, Basics DEF ListCount
  <2> QED
    BY <1>10, <1>12, <2>3, <2>4
<1>15. CASE ListId(w)
  <2>1. pc[w] = "list_ids" /\ ev[w] \in Positions /\ list[ev[w]].id \in Nat
    BY <1>0, <1>15, EventInUse, NodeTypes, IdsAssumption DEF ListId, HasEvent
  <2>2. PICK n \in Nat : n = list[ev[w]].id
    BY <2>1
  <2>3. out[w] \in Seq(Nat) /\ out'[w] = out[w] \o <<n>>
    BY <1>0, <1>15, <2>2, LocalTypes, Basics DEF ListId
  <2>4. out'[w][1] = out[w][1] /\ out[w][1] = Len(list)
    <3>1. Len(out[w]) = ev[w] /\ out[w][1] = Len(list)
      BY <1>0, <2>1 DEF Told, ListSent
    <3>2. 1 \in 1 .. Len(out[w])
      BY <2>1, <3>1, <1>9 DEF Positions
    <3> QED
      BY <2>3, <3>1, <3>2, SendOne
  <2>5. \/ pc'[w] = "done" /\ status'[w] = 0
        \/ pc'[w] # "done" /\ status'[w] = status[w]
    BY <1>0, <1>15, <2>1, Basics DEF ListId
  <2> QED
    BY <1>10, <1>12, <2>4, <2>5
<1>16. CASE ListFail(w)
  <2>1. /\ pc[w] \in {"list_count", "list_ids"} /\ pc'[w] = "done" /\ status'[w] = 1
        /\ out'[w] = out[w]
    BY <1>0, <1>16, Basics DEF ListFail
  <2>2. /\ Len(out[w]) \in 0 .. Len(list) /\ (Len(out[w]) > 0 => out[w][1] = Len(list))
        /\ \A j \in 1 .. Len(out[w]) - 1 : out[w][j + 1] = list[j].id
    <3>1. CASE pc[w] = "list_count"
      <4>1. out[w] = << >>
        BY <1>0, <3>1 DEF Told, Fresh
      <4>2. Len(out[w]) = 0
        BY <4>1
      <4> QED
        BY <1>9, <4>2
    <3>2. CASE pc[w] = "list_ids"
      <4>1. ev[w] \in 1 .. Len(list)
        BY <1>0, <3>2, EventInUse DEF HasEvent, Positions
      <4> QED
        BY <1>0, <1>9, <3>2, <4>1 DEF Told, ListSent
    <3> QED
      BY <2>1, <3>1, <3>2
  <2>3. out[w] = SubSeq(Store!Listing, 1, Len(out[w]))
    <3>1. out[w] \in Seq(Nat) /\ Len(out[w]) <= Len(list) + 1
      BY <1>0, <1>9, <2>2, LocalTypes
    <3> QED
      BY <1>0, <2>2, <3>1, ListingPrefix
  <2>4. /\ Store!Answer(w, 1, out'[w]) /\ TargetBar' = TargetBar
        /\ [v \in Workers |-> req'[v]] = [v \in Workers |-> req[v]]
    BY <1>11, <2>1
  <2>5. PICK n \in 0 .. Len(list) : n = Len(out[w])
    BY <2>2
  <2>6. Store!Answer(w, 1, SubSeq(Store!Listing, 1, n))
    BY <2>1, <2>3, <2>4, <2>5 DEF Store!Answer
  <2>7. n \in 0 .. Len(Store!Listing) - 1
    BY <1>0, <1>9, <2>5, ListingIs
  <2> QED
    BY <1>3, <1>6, <1>8, <1>9, <2>4, <2>6, <2>7 DEF Store!ListPart
<1> QED
  BY <1>13, <1>14, <1>15, <1>16 DEF List

\* The seats a RESERVE asks for, on both levels.
LEMMA WantedBar ==
  ASSUME NEW w \in Workers
  PROVE  /\ {Store!Index(ev[w], s) : s \in Store!Entries(w)} = AllWanted(w)
         /\ (\A s \in Store!Entries(w) : Store!Exists(ev[w], s)) <=> AllInBounds(w)
<1>1. Store!Entries(w) = {req[w].seats[j] : j \in 1 .. Len(req[w].seats)}
  BY DEF Store!Entries
<1>2. \A s : Store!Index(ev[w], s) = SeatIndex(list[ev[w]].cols, s[1], s[2])
  BY DEF Store!Index, SeatIndex
<1>3. \A s : Store!Exists(ev[w], s) <=> InBounds(ev[w], s)
  BY DEF Store!Exists, InBounds
<1>4. {Store!Index(ev[w], s) : s \in Store!Entries(w)} = AllWanted(w)
  BY <1>1, <1>2 DEF AllWanted, Wanted
<1> QED
  BY <1>1, <1>3, <1>4 DEF AllInBounds

\* While a worker checks the seats of an event, nobody has seats of it to write.
LEMMA NobodyWrites ==
  ASSUME Inv, NEW w \in Workers, pc[w] \in {"reserve_bounds", "reserve_check"}
  PROVE  /\ ev[w] \in Positions /\ SeatsBar[ev[w]] = data[ev[w]]
         /\ \A v \in Workers : ~Writes(v, ev[w]) /\ Unwritten(ev[w], v) = {}
<1>1. ev[w] \in Positions /\ data[ev[w]] \in [SeatsOf(ev[w]) -> Nat]
  BY Reserving DEF Inv
<1>2. \A v \in Workers : ~Writes(v, ev[w])
  BY Alone DEF Inv, Writes
<1>3. \A v \in Workers : Unwritten(ev[w], v) = {}
  BY <1>2 DEF Unwritten, Writes
<1>4. ASSUME NEW i \in SeatsOf(ev[w]) PROVE SeatsBar[ev[w]][i] = data[ev[w]][i]
  BY <1>1, <1>3, SeatsRuleHolds DEF SeatsRule
<1>5. SeatsBar[ev[w]] = data[ev[w]]
  BY <1>1, <1>4 DEF SeatsBar
<1> QED
  BY <1>1, <1>2, <1>3, <1>5

\* A RESERVE that takes its id is granted all the seats it asks for.
LEMMA GrantSeatsBar ==
  ASSUME Inv, NEW w \in Workers, ReserveId(w)
  PROVE  SeatsBar' = [SeatsBar EXCEPT ![ev[w]] =
           [i \in DOMAIN SeatsBar[ev[w]] |->
              IF i \in AllWanted(w) THEN rid'[w] ELSE SeatsBar[ev[w]][i]]]
<1>0. /\ TypeOK /\ w \in Threads /\ SeatsRule /\ SeatsRule' /\ Run(w)
      /\ \A v \in Workers \ {w} : Same(v)
  BY WorkerMoves, SeatsRuleHolds DEF Run, Reserve
<1>1. /\ pc[w] = "reserve_check" /\ pc'[w] = "reserve_write" /\ idx'[w] = 1
      /\ ev'[w] = ev[w] /\ req'[w] = req[w] /\ UNCHANGED <<list, data>>
  BY <1>0, Basics DEF ReserveId
<1>2. /\ ev[w] \in Positions /\ SeatsBar[ev[w]] = data[ev[w]]
      /\ \A v \in Workers : Unwritten(ev[w], v) = {}
  BY <1>1, NobodyWrites
<1>3. PICK e \in Positions : e = ev[w]
  BY <1>2
<1>4. Unwritten(e, w)' = AllWanted(w)
  BY <1>1, <1>3 DEF Unwritten, AllWanted, Wanted, SeatIndex
<1>5. \A v \in Workers \ {w} : Unwritten(e, v)' = {}
  BY <1>0, <1>1, <1>2, <1>3, UnwrittenStays
<1>6. Positions' = Positions /\ SeatsOf(e)' = SeatsOf(e)
  BY <1>1 DEF Positions, SeatsOf, SizeOf
<1>7. ASSUME NEW i \in SeatsOf(e)
      PROVE  SeatsBar'[e][i] = IF i \in AllWanted(w) THEN rid'[w] ELSE SeatsBar[e][i]
  <2>1. CASE i \in AllWanted(w)
    BY <1>0, <1>4, <1>6, <2>1 DEF SeatsRule
  <2>2. CASE i \notin AllWanted(w)
    <3>1. \A v \in Workers : i \notin Unwritten(e, v)'
      BY <1>4, <1>5, <2>2
    <3>2. SeatsBar'[e][i] = data'[e][i]
      BY <1>0, <1>6, <3>1 DEF SeatsRule
    <3> QED
      BY <1>1, <1>2, <1>3, <2>2, <3>2
  <2> QED
    BY <2>1, <2>2
<1>8. ASSUME NEW d \in Positions, d # e PROVE SeatsBar'[d] = SeatsBar[d]
  <2>1. Unwritten(d, w)' = {} /\ Unwritten(d, w) = {}
    BY <1>1, <1>3, <1>8 DEF Unwritten
  <2>2. \A v \in Workers \ {w} : Unwritten(d, v)' = Unwritten(d, v) /\ rid'[v] = rid[v]
    BY <1>0, <1>1, UnwrittenStays
  <2> QED
    BY <1>0, <1>1, <2>1, <2>2, EventUntouched
<1>9. DOMAIN SeatsBar[e] = SeatsOf(e) /\ DOMAIN SeatsBar = Positions
  BY DEF SeatsBar
<1>10. DOMAIN SeatsBar'[e] = SeatsOf(e) /\ DOMAIN SeatsBar' = Positions
  BY <1>6 DEF SeatsBar
<1>11. SeatsBar'[e] = [i \in DOMAIN SeatsBar[e] |->
                         IF i \in AllWanted(w) THEN rid'[w] ELSE SeatsBar[e][i]]
  BY <1>6, <1>7, <1>9, <1>10 DEF SeatsBar
<1>12. SeatsBar' = [SeatsBar EXCEPT ![e] = SeatsBar'[e]]
  BY <1>6, <1>8 DEF SeatsBar
<1> QED
  BY <1>3, <1>11, <1>12

\* Writing a granted seat changes nothing that was promised.
LEMMA WriteSeatsBar ==
  ASSUME Inv, NEW w \in Workers, ReserveWrite(w)
  PROVE  SeatsBar' = SeatsBar
<1>0. /\ TypeOK /\ w \in Threads /\ SeatsRule /\ SeatsRule' /\ IInv /\ SeatInv
      /\ \A v \in Workers \ {w} : Same(v)
  BY WorkerMoves, SeatsRuleHolds DEF Run, Reserve, Inv
<1>1. /\ pc[w] = "reserve_write" /\ pc'[w] = "reserve_write" /\ idx'[w] = idx[w] + 1
      /\ ev'[w] = ev[w] /\ req'[w] = req[w] /\ rid'[w] = rid[w] /\ UNCHANGED list
      /\ idx[w] <= Len(req[w].seats)
  BY <1>0, Basics DEF ReserveWrite
<1>2. /\ ev[w] \in Positions /\ idx[w] \in Nat /\ data[ev[w]] \in [SeatsOf(ev[w]) -> Nat]
      /\ Len(req[w].seats) \in Nat
  BY <1>0, <1>1, Reserving, RequestSeats
<1>3. PICK e \in Positions : e = ev[w]
  BY <1>2
<1>4. PICK k \in SeatsOf(e) :
        /\ k = SeatIndex(list[e].cols, req[w].seats[idx[w]][1], req[w].seats[idx[w]][2])
        /\ data'[e] = [data[e] EXCEPT ![k] = rid[w]]
        /\ \A d \in Positions \ {e} : data'[d] = data[d]
  BY <1>0, <1>3, OneWrite
<1>5. Unwritten(e, w) = Unwritten(e, w)' \cup {k}
  <2> DEFINE Place(j) == SeatIndex(list[e].cols, req[w].seats[j][1], req[w].seats[j][2])
  <2>1. idx[w] .. Len(req[w].seats) = (idx[w] + 1 .. Len(req[w].seats)) \cup {idx[w]}
    BY <1>1, <1>2
  <2>2. Unwritten(e, w) = {Place(j) : j \in idx[w] .. Len(req[w].seats)}
    BY <1>1, <1>3 DEF Unwritten
  <2>3. Unwritten(e, w)' = {Place(j) : j \in idx[w] + 1 .. Len(req[w].seats)}
    BY <1>1, <1>3 DEF Unwritten
  <2>4. k = Place(idx[w])
    BY <1>4
  <2> HIDE DEF Place
  <2> QED
    BY <2>1, <2>2, <2>3, <2>4
<1>6. \A v \in Workers \ {w} : \A d \in Positions :
        Unwritten(d, v)' = Unwritten(d, v) /\ rid'[v] = rid[v]
  BY <1>0, <1>1, UnwrittenStays
<1>7. \A v \in Workers \ {w} : Unwritten(e, v) = {}
  BY <1>0, <1>1, <1>3, Alone DEF Unwritten
<1>8. Positions' = Positions /\ SeatsOf(e)' = SeatsOf(e)
  BY <1>1 DEF Positions, SeatsOf, SizeOf
<1>9. ASSUME NEW i \in SeatsOf(e) PROVE SeatsBar'[e][i] = SeatsBar[e][i]
  <2>1. CASE i \in Unwritten(e, w)'
    <3>1. SeatsBar[e][i] = rid[w]
      BY <1>0, <1>5, <2>1 DEF SeatsRule
    <3>2. SeatsBar'[e][i] = rid'[w]
      BY <1>0, <1>8, <2>1 DEF SeatsRule
    <3> QED
      BY <1>1, <3>1, <3>2
  <2>2. CASE i \notin Unwritten(e, w)'
    <3>1. \A v \in Workers : i \notin Unwritten(e, v)'
      BY <1>6, <1>7, <2>2
    <3>2. SeatsBar'[e][i] = data'[e][i]
      BY <1>0, <1>8, <3>1 DEF SeatsRule
    <3>3. CASE i = k
      <4>1. i \in Unwritten(e, w) /\ data'[e][i] = rid[w]
        BY <1>2, <1>3, <1>4, <1>5, <3>3
      <4>2. SeatsBar[e][i] = rid[w]
        BY <1>0, <4>1 DEF SeatsRule
      <4> QED
        BY <3>2, <4>1, <4>2
    <3>4. CASE i # k
      <4>1. \A v \in Workers : i \notin Unwritten(e, v)
        BY <1>5, <1>7, <2>2, <3>4
      <4>2. SeatsBar[e][i] = data[e][i]
        BY <1>0, <4>1 DEF SeatsRule
      <4> QED
        BY <1>2, <1>3, <1>4, <3>2, <3>4, <4>2
    <3> QED
      BY <3>3, <3>4
  <2> QED
    BY <2>1, <2>2
<1>10. ASSUME NEW d \in Positions, d # e PROVE SeatsBar'[d] = SeatsBar[d]
  <2>1. Unwritten(d, w)' = {} /\ Unwritten(d, w) = {}
    BY <1>1, <1>3, <1>10 DEF Unwritten
  <2>2. \A v \in Workers : /\ Unwritten(d, v)' = Unwritten(d, v)
                           /\ Unwritten(d, v) # {} => rid'[v] = rid[v]
    BY <1>1, <1>6, <2>1
  <2>3. data'[d] = data[d]
    BY <1>3, <1>4, <1>10
  <2> QED
    BY <1>0, <1>1, <2>2, <2>3, EventUntouched
<1>11. SeatsBar'[e] = SeatsBar[e]
  BY <1>8, <1>9 DEF SeatsBar
<1> QED
  BY <1>8, <1>10, <1>11 DEF SeatsBar

\* EventStore counts with the same operator.
LEMMA SameCardinality == \A S : Store!Cardinality(S) = Cardinality(S)
BY DEF Store!Cardinality, Cardinality

\* RESERVE takes effect when it takes its id: then all its seats are free, and
\* nobody else can write them before it has.
LEMMA ReserveIdRefines ==
  ASSUME Inv, NEW w \in Workers, ReserveId(w),
         Store!Answer(w, 0, << >>), TargetBar' = TargetBar, Store!Waits(w, "reserve"),
         [v \in Workers |-> req'[v]] = [v \in Workers |-> req[v]],
         \A v \in Workers \ {w} : Same(v)
  PROVE  Store!Reserve(w)
<1>0. TypeOK /\ w \in Threads /\ UniqueIds /\ Told(w) /\ IInv /\ SeatInv
  BY WorkerMoves DEF Run, Reserve, Inv
<1>1. /\ pc[w] = "reserve_check" /\ ev'[w] = ev[w] /\ UNCHANGED <<list, data>>
      /\ rid'[w] = reservations[ev[w]] + 1 /\ idx[w] \notin SeatsOf(ev[w])
  BY <1>0, Basics DEF ReserveId
<1>2. /\ ev[w] \in Positions /\ SeatsBar[ev[w]] = data[ev[w]]
      /\ \A v \in Workers : ~Writes(v, ev[w])
  BY <1>1, NobodyWrites
<1>3. /\ reservations[ev[w]] \in Nat /\ data[ev[w]] \in [SeatsOf(ev[w]) -> Nat]
      /\ SizeOf(ev[w]) \in Nat /\ idx[w] \in Nat
  BY <1>0, <1>1, Reserving
<1>4. ev[w] \in Store!Found(req[w].id)
  BY <1>0, <1>1, <1>2 DEF Told, Named, Store!Found, Positions
<1>5. Store!Granted(ev[w]) = 1 .. reservations[ev[w]]
  <2>1. Owners(ev[w]) = 1 .. reservations[ev[w]]
    BY <1>0, <1>2, OwnersCounted
  <2>2. Store!Granted(ev[w]) = {data[ev[w]][i] : i \in DOMAIN data[ev[w]]} \ {0}
    BY <1>2 DEF Store!Granted
  <2>3. DOMAIN data[ev[w]] = SeatsOf(ev[w])
    BY <1>3
  <2> QED
    BY <2>1, <2>2, <2>3 DEF Owners
<1>6. Cardinality(Store!Granted(ev[w])) + 1 = rid'[w]
  <2>1. PICK n \in Nat : n = reservations[ev[w]]
    BY <1>3
  <2>2. Cardinality(1 .. n) = IF 1 > n THEN 0 ELSE n - 1 + 1
    BY FS_Interval
  <2> QED
    BY <1>1, <1>5, <2>1, <2>2
<1>7. Checked(w) /\ AllInBounds(w)
  BY <1>0, <1>1 DEF SeatInv, Checked
<1>8. \A s \in Store!Entries(w) : Store!Exists(ev[w], s)
  BY <1>7, WantedBar
<1>9. \A i \in AllWanted(w) : SeatsBar[ev[w]][i] = 0
  <2> SUFFICES ASSUME NEW i \in AllWanted(w) PROVE data[ev[w]][i] = 0
    BY <1>2
  <2>1. i \in SeatsOf(ev[w]) /\ i \in Nat
    BY <1>0, <1>1, <1>7, AllWantedSeats
  <2>2. i < idx[w]
    BY <1>1, <1>3, <2>1 DEF SeatsOf
  <2> QED
    BY <1>1, <1>7, <2>2 DEF Checked
<1>10. SeatsBar' = [SeatsBar EXCEPT ![ev[w]] =
           [i \in DOMAIN SeatsBar[ev[w]] |->
              IF i \in AllWanted(w) THEN rid'[w] ELSE SeatsBar[ev[w]][i]]]
  BY GrantSeatsBar
<1>11. GrantBar' = [GrantBar EXCEPT ![w] = <<ev[w], rid'[w]>>]
  <2>1. GrantBar'[w] = <<ev[w], rid'[w]>>
    BY <1>1, <1>3 DEF GrantBar
  <2> QED
    BY <2>1, OneBar
<1>12. PICK e \in Store!Found(req[w].id) : e = ev[w]
  BY <1>4
<1> DEFINE wanted == {Store!Index(e, s) : s \in Store!Entries(w)}
           id     == Store!Cardinality(Store!Granted(e)) + 1
<1>13. AllWanted(w) = wanted /\ rid'[w] = id
  BY <1>6, <1>12, WantedBar, SameCardinality
<1>14. /\ \A s \in Store!Entries(w) : Store!Exists(e, s)
       /\ \A i \in wanted : SeatsBar[e][i] = 0
  BY <1>8, <1>9, <1>12, <1>13
<1>15. /\ SeatsBar' = [SeatsBar EXCEPT ![e] =
             [i \in DOMAIN SeatsBar[e] |-> IF i \in wanted THEN id ELSE SeatsBar[e][i]]]
       /\ GrantBar' = [GrantBar EXCEPT ![w] = <<e, id>>]
  BY <1>10, <1>11, <1>12, <1>13
<1>16. [v \in Workers |-> req[v]][w] = req[w]
  OBVIOUS
<1>17. UNCHANGED list
  BY <1>1
<1> QED
  BY <1>14, <1>15, <1>16, <1>17 DEF Store!Reserve

\* A RESERVE is granted or refused in one step, for a reason that holds then.
LEMMA ReserveRefines ==
  ASSUME Inv, NEW w \in Workers, Reserve(w)
  PROVE  Store!Reserve(w) \/ Store!ReserveRefused(w) \/ UNCHANGED Store!vars
<1>0. TypeOK /\ w \in Threads /\ Told(w) /\ UniqueIds /\ IInv /\ SeatInv
  BY WorkerMoves DEF Run, Inv
<1>1. \A v \in Workers \ {w} : Same(v)
  BY WorkerMoves DEF Run
<1>2. Inv' /\ SeatsRule'
  BY WorkerMoves DEF Run
<1>3. pc[w] \in ReserveLabels /\ UNCHANGED <<list, req, out>>
  BY DEF Reserve, ReserveLock, ReserveFind, ReserveMutex, ReserveBounds, ReserveCheck,
     ReserveId, ReserveWrite, ReserveUnlock, ReserveLabels
<1>4. /\ req[w] \in ReserveRequests /\ req[w].op = "reserve"
      /\ out[w] = << >> /\ status[w] = 0
  BY <1>0, <1>3 DEF IInv, CallInv, ReserveRequests, Told, Fresh, ReserveLabels
<1>5. /\ TargetBar'[w] = TargetBar[w] /\ SentBar[w] = << >> /\ SentBar'[w] = << >>
      /\ PhaseBar[w] = IF pc[w] = "reserve_write" THEN "answered" ELSE "called"
  BY <1>3, <1>4 DEF TargetBar, SentBar, PhaseBar, Decided, ReserveLabels
<1>6. pc[w] # "reserve_write" => Store!Waits(w, "reserve")
  BY <1>4, <1>5 DEF Store!Waits
\* A step that does not take effect.
<1>7. ASSUME SeatsBar' = SeatsBar, PhaseBar'[w] = PhaseBar[w], GrantBar'[w] = GrantBar[w],
             status'[w] = status[w]
      PROVE  UNCHANGED Store!vars
  BY <1>1, <1>3, <1>5, <1>7, SilentStep
<1>8. ASSUME pc[w] # "reserve_write", pc'[w] # "reserve_write", UNCHANGED data, rid'[w] = rid[w]
      PROVE  SeatsBar' = SeatsBar /\ GrantBar'[w] = GrantBar[w]
  <2>1. SeatsBar' = SeatsBar
    BY <1>1, <1>2, <1>3, <1>8, SeatsUntouched
  <2>2. rid[w] = 0
    BY <1>0, <1>3, <1>8 DEF Told, Fresh, ReserveLabels
  <2> QED
    BY <1>8, <2>1, <2>2 DEF GrantBar
<1>9. ASSUME pc[w] # "reserve_write", UNCHANGED data, rid'[w] = rid[w],
             pc'[w] \in ReserveLabels \ {"reserve_write"}, status'[w] = status[w]
      PROVE  UNCHANGED Store!vars
  <2>1. PhaseBar'[w] = "called"
    BY <1>9 DEF PhaseBar, Decided, ReserveLabels
  <2> QED
    BY <1>5, <1>7, <1>8, <1>9, <2>1
\* A step that refuses.
<1>10. ASSUME pc[w] # "reserve_write", UNCHANGED data, rid'[w] = rid[w],
              pc'[w] = "done", status'[w] = 1,
              \A e \in Store!Found(req[w].id) : \E s \in Store!Entries(w) :
                Store!Exists(e, s) => SeatsBar[e][Store!Index(e, s)] # 0
       PROVE  Store!ReserveRefused(w)
  <2>1. PhaseBar'[w] = "answered"
    BY <1>10 DEF PhaseBar, Decided
  <2>2. SeatsBar' = SeatsBar /\ GrantBar' = GrantBar
    BY <1>1, <1>8, <1>10, Kept
  <2>3. /\ Store!Answer(w, 1, << >>) /\ TargetBar' = TargetBar
        /\ [v \in Workers |-> req'[v]] = [v \in Workers |-> req[v]]
    BY <1>1, <1>3, <1>5, <1>10, <2>1, Answered
  <2>4. [v \in Workers |-> req[v]][w] = req[w]
    OBVIOUS
  <2> QED
    BY <1>3, <1>6, <1>10, <2>2, <2>3, <2>4 DEF Store!ReserveRefused
<1>11. ASSUME pc[w] \in {"reserve_lock", "reserve_bounds", "reserve_check"}
       PROVE  ev[w] \in Positions /\ Store!Found(req[w].id) = {ev[w]}
  <2>1. ev[w] \in Positions
    BY <1>0, <1>11, EventInUse DEF HasEvent, MutexHeld
  <2> QED
    BY <1>0, <1>11, <2>1 DEF Told, Named, UniqueIds, Store!Found, Positions
<1>12. CASE ReserveLock(w)
  <2>1. /\ pc[w] = "reserve" /\ pc'[w] = "reserve_find" /\ UNCHANGED data
        /\ rid'[w] = rid[w] /\ status'[w] = status[w]
    BY <1>0, <1>12, Basics DEF ReserveLock
  <2> QED
    BY <1>9, <2>1 DEF ReserveLabels
<1>13. CASE ReserveFind(w)
  <2>1. /\ pc[w] = "reserve_find" /\ UNCHANGED data /\ rid'[w] = rid[w]
        /\ \/ GetEvent(req[w].id) = 0 /\ pc'[w] = "done" /\ status'[w] = 1
           \/ pc'[w] = "reserve_lock" /\ status'[w] = status[w]
    BY <1>0, <1>13, Basics DEF ReserveFind, NULL
  <2>2. CASE pc'[w] = "reserve_lock" /\ status'[w] = status[w]
    BY <1>9, <2>1, <2>2 DEF ReserveLabels
  <2>3. CASE GetEvent(req[w].id) = 0 /\ pc'[w] = "done" /\ status'[w] = 1
    BY <1>0, <1>10, <2>1, <2>3, FoundIs
  <2> QED
    BY <2>1, <2>2, <2>3
<1>14. CASE ReserveMutex(w)
  <2>1. /\ pc[w] = "reserve_lock" /\ pc'[w] = "reserve_bounds" /\ UNCHANGED data
        /\ rid'[w] = rid[w] /\ status'[w] = status[w]
    BY <1>0, <1>14, Basics DEF ReserveMutex
  <2> QED
    BY <1>9, <2>1 DEF ReserveLabels
<1>15. CASE ReserveBounds(w)
  <2>1. /\ pc[w] = "reserve_bounds" /\ UNCHANGED data /\ rid'[w] = rid[w]
        /\ \/ ~AllInBounds(w) /\ pc'[w] = "done" /\ status'[w] = 1
           \/ pc'[w] = "reserve_check" /\ status'[w] = status[w]
    BY <1>0, <1>15, Basics DEF ReserveBounds
  <2>2. CASE pc'[w] = "reserve_check" /\ status'[w] = status[w]
    BY <1>9, <2>1, <2>2 DEF ReserveLabels
  <2>3. CASE ~AllInBounds(w) /\ pc'[w] = "done" /\ status'[w] = 1
    <3>1. \E s \in Store!Entries(w) : ~Store!Exists(ev[w], s)
      BY <2>3, WantedBar
    <3>2. \A e \in Store!Found(req[w].id) : \E s \in Store!Entries(w) : ~Store!Exists(e, s)
      BY <1>11, <2>1, <3>1
    <3> QED
      BY <1>10, <2>1, <2>3, <3>2
  <2> QED
    BY <2>1, <2>2, <2>3
<1>16. CASE ReserveCheck(w)
  <2>1. /\ pc[w] = "reserve_check" /\ UNCHANGED data /\ rid'[w] = rid[w]
        /\ \/ Taken(w) /\ pc'[w] = "done" /\ status'[w] = 1
           \/ pc'[w] = "reserve_check" /\ status'[w] = status[w]
    BY <1>0, <1>16, Basics DEF ReserveCheck
  <2>2. CASE pc'[w] = "reserve_check" /\ status'[w] = status[w]
    BY <1>9, <2>1, <2>2 DEF ReserveLabels
  <2>3. CASE Taken(w) /\ pc'[w] = "done" /\ status'[w] = 1
    <3>1. idx[w] \in AllWanted(w) /\ SeatsBar[ev[w]][idx[w]] # 0
      BY <2>1, <2>3, NobodyWrites DEF Taken, AllWanted
    <3>2. PICK s \in Store!Entries(w) : Store!Index(ev[w], s) = idx[w]
      BY <3>1, WantedBar
    <3>3. \A e \in Store!Found(req[w].id) : SeatsBar[e][Store!Index(e, s)] # 0
      BY <1>11, <2>1, <3>1, <3>2
    <3> QED
      BY <1>10, <2>1, <2>3, <3>3
  <2> QED
    BY <2>1, <2>2, <2>3
<1>17. CASE ReserveId(w)
  <2>1. pc[w] = "reserve_check" /\ pc'[w] = "reserve_write" /\ status'[w] = 0
    BY <1>0, <1>4, <1>17, Basics DEF ReserveId
  <2>2. PhaseBar'[w] = "answered"
    BY <2>1 DEF PhaseBar, Decided
  <2>3. /\ Store!Answer(w, 0, << >>) /\ TargetBar' = TargetBar
        /\ [v \in Workers |-> req'[v]] = [v \in Workers |-> req[v]]
    BY <1>1, <1>3, <1>5, <2>1, <2>2, Answered
  <2> QED
    BY <1>1, <1>6, <1>17, <2>1, <2>3, ReserveIdRefines
<1>18. CASE ReserveWrite(w)
  <2>1. /\ pc[w] = "reserve_write" /\ pc'[w] = pc[w] /\ ev'[w] = ev[w] /\ rid'[w] = rid[w]
        /\ status'[w] = status[w]
    BY <1>0, <1>18, Basics DEF ReserveWrite
  <2>2. PhaseBar'[w] = PhaseBar[w] /\ GrantBar'[w] = GrantBar[w]
    BY <2>1 DEF PhaseBar, GrantBar, Decided
  <2> QED
    BY <1>7, <1>18, <2>1, <2>2, WriteSeatsBar
<1>19. CASE ReserveUnlock(w)
  <2>1. /\ pc[w] = "reserve_write" /\ pc'[w] = "done" /\ ev'[w] = ev[w] /\ rid'[w] = rid[w]
        /\ status'[w] = 0 /\ UNCHANGED data /\ idx[w] > Len(req[w].seats)
    BY <1>0, <1>19, Basics DEF ReserveUnlock
  <2>2. PhaseBar'[w] = PhaseBar[w] /\ GrantBar'[w] = GrantBar[w]
    BY <2>1 DEF PhaseBar, GrantBar, Decided
  <2>3. \A e \in Positions : Unwritten(e, w) = {} /\ Unwritten(e, w)' = {}
    <3>1. idx[w] .. Len(req[w].seats) = {}
      BY <1>0, <1>4, <2>1, LocalTypes, RequestSeats
    <3> QED
      BY <2>1, <3>1 DEF Unwritten
  <2>4. ASSUME NEW e \in Positions PROVE SeatsBar'[e] = SeatsBar[e]
    <3>1. \A v \in Workers : /\ Unwritten(e, v)' = Unwritten(e, v)
                             /\ Unwritten(e, v) # {} => rid'[v] = rid[v]
      BY <1>1, <1>3, <2>3, UnwrittenStays
    <3> QED
      BY <1>2, <1>3, <2>1, <3>1, EventUntouched
  <2>5. SeatsBar' = SeatsBar
    BY <1>3, <2>4 DEF SeatsBar, Positions
  <2> QED
    BY <1>4, <1>7, <2>1, <2>2, <2>5
<1> QED
  BY <1>12, <1>13, <1>14, <1>15, <1>16, <1>17, <1>18, <1>19 DEF Reserve

\* Every step of every thread is a step of the store, or none.
LEMMA StepRefines == Inv /\ [Next]_vars => [Store!Next]_(Store!vars)
<1> SUFFICES ASSUME Inv, [Next]_vars PROVE [Store!Next]_(Store!vars)
  OBVIOUS
<1>1. ASSUME NEW w \in Workers, Call(w) \/ Run(w) PROVE [Store!Next]_(Store!vars)
  <2>1. CASE Call(w) \/ Reply(w)
    BY <2>1, CallRefines DEF Store!Next
  <2>2. CASE Create(w)
    BY <2>2, CreateRefines DEF Store!Next
  <2>3. CASE Reserve(w)
    BY <2>3, ReserveRefines DEF Store!Next
  <2>4. CASE Show(w)
    BY <2>4, ShowRefines DEF Store!Next
  <2>5. CASE List(w)
    BY <2>5, ListRefines DEF Store!Next
  <2> QED
    BY <1>1, <2>1, <2>2, <2>3, <2>4, <2>5 DEF Run
<1>2. ASSUME Dump \/ Quiet \/ UNCHANGED vars PROVE UNCHANGED Store!vars
  <2>1. TypeOK
    BY DEF Inv, IInv, Typed
  <2>2. \A v \in Workers : Same(v)
    BY <1>2, <2>1, MainMoves DEF Quiet, vars, Same
  <2>3. UNCHANGED <<list, data>>
    BY <1>2 DEF Dump, DumpLock, DumpEmpty, DumpStart, DumpMutex, DumpSeat, DumpNext,
       Quiet, vars
  <2>4. SeatsRule'
    BY <1>2, NextRule
  <2>5. SeatsBar' = SeatsBar
    BY <2>2, <2>3, <2>4, SeatsUntouched
  <2>6. UNCHANGED <<PhaseBar, GrantBar, TargetBar, SentBar>>
    BY <2>2 DEF Same, PhaseBar, GrantBar, TargetBar, SentBar, Decided
  <2>7. /\ [v \in Workers |-> req'[v]] = [v \in Workers |-> req[v]]
        /\ [v \in Workers |-> status'[v]] = [v \in Workers |-> status[v]]
    BY <2>2 DEF Same
  <2> QED
    BY <2>3, <2>5, <2>6, <2>7 DEF Store!vars
<1> QED
  BY <1>1, <1>2 DEF Next

\* The server implements the abstract event store: whatever the number of
\* clients and the interleaving of their requests, each is answered as if CREATE,
\* RESERVE and LIST were one step each, and SHOW misses only seats of a
\* reservation that is not acknowledged yet.
THEOREM ServerRefinesStore == Spec => RefinesEventStore
<1>1. Init => Store!Init
  BY InitRefines
<1>2. Inv /\ [Next]_vars => [Store!Next]_(Store!vars)
  BY StepRefines
<1>3. Spec => []Inv
  <2>1. IInv /\ SeatInv /\ AnswerInv => Inv
    BY DEF Inv
  <2> QED
    BY <2>1, AnswerInvariance, PTL
<1> QED
  BY <1>1, <1>2, <1>3, PTL DEF Spec, RefinesEventStore, Store!Spec

=============================================================================
