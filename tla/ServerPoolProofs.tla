--------------------------- MODULE ServerPoolProofs ---------------------------
(***************************************************************************)
(* Proofs about ServerPool, for any number of workers and clients: every    *)
(* registration has one owner, in the order of arrival, no worker sleeps   *)
(* on work, and the sessions end before the state is freed.                *)
(***************************************************************************)
EXTENDS ServerPool, SequenceTheorems, FiniteSetTheorems, TLAPS

USE DEF MainAt, MainGoto, At, Goto, ClientGoto, Fault, signals, main, pool, workers, clients,
        Server, Rest

\* One step of the main thread (or of a signal), of a worker, of a client.
MainStep == Sigint \/ Sigusr1 \/ Main \/ EnqueueFail
WorkerStep(w) == Run(w) \/ SpuriousWakeup(w) \/ OpenFail(w)
ClientStep(c) == Client(c) \/ Register(c) \/ Crash(c)

----------------------------------------------------------------------------
(* Types.                                                                  *)

\* The head of a queue that is not empty is a client, and its tail a queue.
LEMMA HeadTail ==
  ASSUME NEW s \in Seq(Clients), s # << >>
  PROVE  Head(s) \in Clients /\ Tail(s) \in Seq(Clients) /\ Head(s) # Nobody
BY HeadTailProperties, NobodyAssumption

\* The main thread keeps the types: it has a setup message exactly when it is
\* about to enqueue it.
LEMMA TypeMain ==
  ASSUME TypeOK, MainStep
  PROVE  TypeOK'
<1> USE NobodyAssumption, FaultAssumption DEF TypeOK, MainLabels
<1>1. CASE Sigint
  BY <1>1 DEF Sigint, Interrupt
<1>2. CASE Sigusr1
  BY <1>2 DEF Sigusr1, Interrupt
<1>3. CASE Check
  BY <1>3 DEF Check
<1>4. CASE EnterRead
  BY <1>4 DEF EnterRead
<1>5. CASE Read
  BY <1>5, HeadTail DEF Read
<1>6. CASE Eintr
  BY <1>6 DEF Eintr
<1>7. CASE Dump
  BY <1>7 DEF Dump
<1>8. CASE Enqueue
  BY <1>8 DEF Enqueue, Push, Broadcast, WorkerLabels, Connected
<1>9. CASE Stop
  BY <1>9 DEF Stop
<1>10. CASE Wake
  BY <1>10 DEF Wake, Broadcast, WorkerLabels, Connected
<1>11. CASE Exit
  BY <1>11 DEF Exit
<1>12. CASE EnqueueFail
  BY <1>12 DEF EnqueueFail
<1> QED
  BY <1>1, <1>2, <1>3, <1>4, <1>5, <1>6, <1>7, <1>8, <1>9, <1>10, <1>11, <1>12
     DEF MainStep, Main

\* A worker keeps the types: it has a connection exactly while it is busy with it.
LEMMA TypeWorker ==
  ASSUME TypeOK, NEW w \in Workers, WorkerStep(w)
  PROVE  TypeOK'
<1> USE NobodyAssumption, FaultAssumption DEF TypeOK, WorkerLabels, Connected
<1>1. CASE CheckTermination(w)
  BY <1>1 DEF CheckTermination
<1>2. CASE Lock(w)
  BY <1>2 DEF Lock
<1>3. CASE Wait(w)
  BY <1>3 DEF Wait
<1>4. CASE Relock(w)
  BY <1>4 DEF Relock
<1>5. CASE Recheck(w)
  BY <1>5 DEF Recheck
<1>6. CASE Dequeue(w)
  BY <1>6, HeadTail DEF Dequeue, Pop
<1>7. CASE OpenResp(w)
  BY <1>7 DEF OpenResp, ClientLabels
<1>8. CASE SendId(w)
  BY <1>8 DEF SendId
<1>9. CASE SendIdFail(w)
  BY <1>9 DEF SendIdFail, Hangup
<1>10. CASE OpenReq(w)
  BY <1>10 DEF OpenReq, ClientLabels
<1>11. CASE EndSession(w)
  BY <1>11 DEF EndSession, Hangup
<1>12. CASE SpuriousWakeup(w)
  BY <1>12 DEF SpuriousWakeup
<1>13. CASE OpenFail(w)
  BY <1>13 DEF OpenFail, Hangup
<1> QED
  BY <1>1, <1>2, <1>3, <1>4, <1>5, <1>6, <1>7, <1>8, <1>9, <1>10, <1>11, <1>12, <1>13
     DEF WorkerStep, Run

\* A client keeps the types.
LEMMA TypeClient ==
  ASSUME TypeOK, NEW c \in Clients, ClientStep(c)
  PROVE  TypeOK'
<1> USE FaultAssumption DEF TypeOK, ClientLabels
<1>1. CASE ReadId(c)
  BY <1>1 DEF ReadId
<1>2. CASE Quit(c)
  BY <1>2 DEF Quit
<1>3. CASE Register(c)
  <2>1. regpipe' \in Seq(Clients)
    <3>1. regpipe \in Seq(Clients) /\ Append(regpipe, c) \in Seq(Clients)
      BY AppendProperties
    <3> QED
      BY <1>3, <3>1 DEF Register
  <2>2. cpc' \in [Clients -> ClientLabels]
    BY <1>3 DEF Register
  <2> QED
    BY <1>3, <2>1, <2>2 DEF Register
<1>4. CASE Crash(c)
  BY <1>4 DEF Crash
<1> QED
  BY <1>1, <1>2, <1>3, <1>4 DEF ClientStep, Client

\* A step is one of the three kinds.
LEMMA Steps ==
  ASSUME Next
  PROVE  \/ MainStep
         \/ \E w \in Workers : WorkerStep(w)
         \/ \E c \in Clients : ClientStep(c)
BY DEF Next, MainStep, WorkerStep, ClientStep

\* Every step keeps the types.
LEMMA NextTypes == TypeOK /\ [Next]_vars => TypeOK'
<1> SUFFICES ASSUME TypeOK, [Next]_vars PROVE TypeOK'
  OBVIOUS
<1>1. CASE Next
  BY <1>1, Steps, TypeMain, TypeWorker, TypeClient
<1>2. CASE UNCHANGED vars
  BY <1>2 DEF vars, TypeOK
<1> QED
  BY <1>1, <1>2

\* The types hold when the server starts.
LEMMA InitTypes == Init => TypeOK
<1> SUFFICES ASSUME Init PROVE TypeOK
  OBVIOUS
<1>1. << >> \in Seq(Clients) /\ 0 \in 0 .. MaxUsr1 /\ 0 \in 0 .. MaxFaults
  BY FaultAssumption
<1>2. /\ wpc \in [Workers -> WorkerLabels] /\ conn \in [Workers -> Clients \cup {Nobody}]
      /\ cpc \in [Clients -> ClientLabels]
      /\ \A w \in Workers : conn[w] # Nobody <=> wpc[w] \in Connected
  BY DEF Init, WorkerLabels, ClientLabels, Connected
<1> QED
  BY <1>1, <1>2 DEF Init, TypeOK, MainLabels

\* Every variable keeps its type, and a thread has a connection exactly while it
\* is busy with one.
THEOREM TypeCorrect == Spec => []TypeOK
BY InitTypes, NextTypes, PTL DEF Spec

----------------------------------------------------------------------------
(* Sleeping and leaving.                                                   *)

\* A step that leaves the queue alone sends no worker to sleep, but Wait, and
\* Wait finds the queue empty.
LEMMA NextSleep == TypeOK /\ NobodySleepsOnWork /\ [Next]_vars => NobodySleepsOnWork'
<1> SUFFICES ASSUME TypeOK, NobodySleepsOnWork, [Next]_vars PROVE NobodySleepsOnWork'
  OBVIOUS
<1> USE DEF NobodySleepsOnWork
<1>0. wpc \in [Workers -> WorkerLabels]
  BY DEF TypeOK
<1>1. CASE UNCHANGED queue /\ \A w \in Workers : wpc'[w] = "wait" => wpc[w] = "wait"
  BY <1>1
<1>2. CASE MainStep
  BY <1>0, <1>1, <1>2
     DEF MainStep, Main, Sigint, Sigusr1, Check, EnterRead, Read, Eintr, Dump, Enqueue,
         Stop, Wake, Exit, EnqueueFail, Push, Broadcast
<1>3. ASSUME NEW w \in Workers, WorkerStep(w) PROVE NobodySleepsOnWork'
  <2>1. CASE Wait(w)
    BY <2>1 DEF Wait
  <2>2. CASE Dequeue(w)
    BY <1>0, <2>2 DEF Dequeue
  <2>3. CASE ~Wait(w) /\ ~Dequeue(w)
    BY <1>0, <1>1, <1>3, <2>3
       DEF WorkerStep, Run, CheckTermination, Lock, Relock, Recheck, OpenResp, SendId,
              SendIdFail, OpenReq, EndSession, SpuriousWakeup, OpenFail, Hangup
  <2> QED
    BY <2>1, <2>2, <2>3
<1>4. ASSUME NEW c \in Clients, ClientStep(c) PROVE NobodySleepsOnWork'
  BY <1>1, <1>4 DEF ClientStep, Client, ReadId, Quit, Register, Crash
<1> QED
  BY <1>1, <1>2, <1>3, <1>4, Steps DEF vars

\* No worker sleeps while a connection request is in the queue: a wakeup is
\* never lost between the test of the queue and the wait.
THEOREM NoWakeupIsLost == Spec => []NobodySleepsOnWork
<1>1. Init => NobodySleepsOnWork
  BY DEF Init, NobodySleepsOnWork
<1> QED
  BY InitTypes, NextTypes, NextSleep, <1>1, PTL DEF Spec

\* A client whose session has begun is with a worker or has been rejected, and
\* no worker runs on when the server has left main.
DrainInv ==
  /\ \A c \in Clients : cpc[c] \in Linked \ {"open_resp"} =>
       c \in rejected \/ \E w \in Workers : conn[w] = c
  /\ mpc = "exited" => \A w \in Workers : wpc[w] = "exited"

\* Every step keeps the sessions with their workers.
LEMMA NextDrain == TypeOK /\ DrainInv /\ [Next]_vars => DrainInv'
<1> SUFFICES ASSUME TypeOK, DrainInv, [Next]_vars PROVE DrainInv'
  OBVIOUS
<1> USE DEF DrainInv, Linked
<1>0. /\ wpc \in [Workers -> WorkerLabels] /\ conn \in [Workers -> Clients \cup {Nobody}]
      /\ cpc \in [Clients -> ClientLabels]
      /\ \A w \in Workers : conn[w] # Nobody <=> wpc[w] \in Connected
  BY DEF TypeOK
<1>1. CASE MainStep
  BY <1>0, <1>1
     DEF MainStep, Main, Sigint, Sigusr1, Check, EnterRead, Read, Eintr, Dump, Enqueue,
         Stop, Wake, Exit, EnqueueFail, Interrupt, Broadcast, Joined
<1>2. ASSUME NEW w \in Workers, WorkerStep(w) PROVE DrainInv'
  <2>1. mpc # "exited" \/ wpc[w] = "exited"
    OBVIOUS
  <2>2. wpc[w] # "exited"
    BY <1>2
       DEF WorkerStep, Run, CheckTermination, Lock, Wait, Relock, Recheck, Dequeue,
           OpenResp, SendId, SendIdFail, OpenReq, EndSession, SpuriousWakeup, OpenFail
  <2>3. UNCHANGED mpc
    BY <1>2
       DEF WorkerStep, Run, CheckTermination, Lock, Wait, Relock, Recheck, Dequeue,
           OpenResp, SendId, SendIdFail, OpenReq, EndSession, SpuriousWakeup, OpenFail
  <2>4. CASE UNCHANGED <<conn, cpc, rejected>>
    BY <2>1, <2>2, <2>3, <2>4
  <2>5. CASE Dequeue(w)
    BY <1>0, <2>1, <2>2, <2>3, <2>5, NobodyAssumption DEF Dequeue, Pop, Connected
  <2>6. CASE OpenResp(w) \/ OpenReq(w)
    BY <1>0, <2>1, <2>2, <2>3, <2>6, NobodyAssumption DEF OpenResp, OpenReq, Connected
  <2>7. CASE OpenFail(w) \/ SendIdFail(w) \/ EndSession(w)
    BY <1>0, <2>1, <2>2, <2>3, <2>7 DEF OpenFail, SendIdFail, EndSession, Hangup
  <2> QED
    BY <1>2, <2>4, <2>5, <2>6, <2>7
       DEF WorkerStep, Run, CheckTermination, Lock, Wait, Relock, Recheck, SendId,
              SpuriousWakeup
<1>3. ASSUME NEW c \in Clients, ClientStep(c) PROVE DrainInv'
  BY <1>0, <1>3 DEF ClientStep, Client, ReadId, Quit, Register, Crash
<1>4. CASE UNCHANGED vars
  BY <1>4 DEF vars
<1> QED
  BY <1>1, <1>2, <1>3, <1>4, Steps

\* When the server frees the queue and the events, every worker has returned,
\* and every session has been allowed to end.
THEOREM SessionsAreDrained == Spec => []SessionsDrained
<1>1. Init => DrainInv
  BY DEF Init, DrainInv, Linked
<1>2. TypeOK /\ DrainInv => SessionsDrained
  <2> SUFFICES ASSUME TypeOK, DrainInv, mpc = "exited",
                      NEW c \in Clients, cpc[c] \in Linked \ {"open_resp"}
               PROVE  c \in rejected
    BY DEF SessionsDrained, DrainInv
  <2>1. \A w \in Workers : conn[w] = Nobody
    BY DEF TypeOK, DrainInv, Connected
  <2> QED
    BY <2>1, NobodyAssumption DEF DrainInv
<1> QED
  BY InitTypes, NextTypes, NextDrain, <1>1, <1>2, PTL DEF Spec

----------------------------------------------------------------------------
(* One owner.                                                              *)

Elements(s) == {s[i] : i \in 1 .. Len(s)}
Distinct(s) == \A i, j \in 1 .. Len(s) : s[i] = s[j] => i = j

\* The clients in each of the five places.
Queued  == Elements(queue)
Fetched == {setup} \ {Nobody}
Piped   == Elements(regpipe)
Served  == {conn[w] : w \in Workers} \ {Nobody}
Owned   == Queued \cup Fetched \cup Piped \cup Served \cup rejected

\* No client is twice in one place, or in two.
PlaceInv ==
  /\ Distinct(queue) /\ Distinct(regpipe)
  /\ \A v, w \in Workers : conn[v] = conn[w] /\ conn[v] # Nobody => v = w
  /\ Queued \cap (Fetched \cup Piped \cup Served \cup rejected) = {}
  /\ Fetched \cap (Piped \cup Served \cup rejected) = {}
  /\ Piped \cap (Served \cup rejected) = {}
  /\ Served \cap rejected = {}

\* A client is somewhere once it has registered, and not before.
ClientInv ==
  \A c \in Clients : /\ cpc[c] = "new" => c \notin Owned
                     /\ cpc[c] \in Linked => c \in Owned

OwnerInv == ~Down => PlaceInv /\ ClientInv

\* A client put at the end of a sequence it is not in.
LEMMA PutLast ==
  ASSUME NEW s \in Seq(Clients), NEW c \in Clients, c \notin Elements(s), Distinct(s)
  PROVE  Elements(Append(s, c)) = Elements(s) \cup {c} /\ Distinct(Append(s, c))
<1> DEFINE r == Append(s, c)
<1>1. /\ Len(s) \in Nat /\ Len(r) = Len(s) + 1
      /\ \A i \in 1 .. Len(s) : r[i] = s[i]
      /\ r[Len(s) + 1] = c
  BY AppendProperties, LenProperties
<1> HIDE DEF r
<1>2. 1 .. Len(r) = 1 .. Len(s) \cup {Len(s) + 1}
  BY <1>1
<1>3. Elements(r) = Elements(s) \cup {c}
  BY <1>1, <1>2 DEF Elements
<1>4. Distinct(r)
  BY <1>1, <1>2 DEF Distinct, Elements
<1> QED
  BY <1>3, <1>4 DEF r

\* The first client taken from a sequence that has it once.
LEMMA TakeFirst ==
  ASSUME NEW s \in Seq(Clients), s # << >>, Distinct(s)
  PROVE  /\ Head(s) \in Elements(s) /\ Elements(Tail(s)) = Elements(s) \ {Head(s)}
         /\ Distinct(Tail(s))
<1> DEFINE r == Tail(s)
<1>1. /\ Len(s) \in Nat \ {0} /\ Len(r) = Len(s) - 1 /\ Head(s) = s[1]
      /\ \A i \in 1 .. Len(r) : r[i] = s[i + 1]
  BY HeadTailProperties, EmptySeq
<1> HIDE DEF r
<1>2. Head(s) \in Elements(s)
  BY <1>1 DEF Elements
<1>3. Distinct(r)
  BY <1>1 DEF Distinct
<1>4. Elements(r) \subseteq Elements(s) \ {Head(s)}
  BY <1>1 DEF Elements, Distinct
<1>5. Elements(s) \ {Head(s)} \subseteq Elements(r)
  <2>1. SUFFICES ASSUME NEW i \in 1 .. Len(s), s[i] # s[1] PROVE s[i] \in Elements(r)
    BY <1>1 DEF Elements
  <2>2. i - 1 \in 1 .. Len(r) /\ r[i - 1] = s[i]
    BY <1>1, <2>1
  <2> QED
    BY <2>2 DEF Elements
<1> QED
  BY <1>2, <1>3, <1>4, <1>5 DEF r

\* A worker takes a client that no worker has.
LEMMA PickUp ==
  ASSUME TypeOK, PlaceInv, NEW w \in Workers, NEW c \in Clients \ Served,
         conn[w] = Nobody, conn' = [conn EXCEPT ![w] = c]
  PROVE  /\ Served' = Served \cup {c}
         /\ \A u, v \in Workers : conn'[u] = conn'[v] /\ conn'[u] # Nobody => u = v
BY NobodyAssumption DEF TypeOK, PlaceInv, Served

\* A worker leaves its client.
LEMMA Leave ==
  ASSUME TypeOK, PlaceInv, NEW w \in Workers, conn[w] # Nobody,
         conn' = [conn EXCEPT ![w] = Nobody]
  PROVE  /\ Served' = Served \ {conn[w]} /\ conn[w] \in Served
         /\ \A u, v \in Workers : conn'[u] = conn'[v] /\ conn'[u] # Nobody => u = v
BY NobodyAssumption DEF TypeOK, PlaceInv, Served

\* No process comes back.
LEMMA StaysDown == ASSUME Next, ~Down' PROVE ~Down
<1>1. CASE MainStep
  BY <1>1
     DEF MainStep, Main, Sigint, Sigusr1, Check, EnterRead, Read, Eintr, Dump, Enqueue,
         Stop, Wake, Exit, EnqueueFail, Interrupt, Down
<1>2. ASSUME NEW w \in Workers, WorkerStep(w) PROVE ~Down
  BY <1>2
     DEF WorkerStep, Run, CheckTermination, Lock, Wait, Relock, Recheck, Dequeue,
         OpenResp, SendId, SendIdFail, OpenReq, EndSession, SpuriousWakeup, OpenFail, Down
<1>3. ASSUME NEW c \in Clients, ClientStep(c) PROVE ~Down
  BY <1>3 DEF ClientStep, Client, ReadId, Quit, Register, Crash, Down
<1> QED
  BY <1>1, <1>2, <1>3, Steps

\* A step that moves no client.
LEMMA NoMove ==
  ASSUME PlaceInv, ClientInv, UNCHANGED <<queue, setup, regpipe, conn, rejected>>,
         \A c \in Clients : /\ cpc'[c] = "new" => cpc[c] = "new"
                            /\ cpc'[c] \in Linked => cpc[c] \in Linked
  PROVE  PlaceInv' /\ ClientInv'
<1>1. UNCHANGED <<Queued, Fetched, Piped, Served, Owned>>
  BY DEF Queued, Fetched, Piped, Served, Owned, Elements
<1>2. Distinct(queue)' /\ Distinct(regpipe)'
  BY DEF PlaceInv, Distinct
<1>3. PlaceInv'
  BY <1>1, <1>2 DEF PlaceInv
<1>4. ClientInv'
  BY <1>1 DEF ClientInv
<1> QED
  BY <1>3, <1>4

\* A client that goes from the register pipe through main into the queue, or is
\* rejected on the way, is in one place at a time.
LEMMA MainMoves ==
  ASSUME TypeOK, PlaceInv, ClientInv, MainStep, mpc' # "exited"
  PROVE  PlaceInv' /\ ClientInv'
<1>0. /\ queue \in Seq(Clients) /\ regpipe \in Seq(Clients) /\ setup \in Clients \cup {Nobody}
      /\ setup # Nobody <=> mpc = "enqueue"
  BY DEF TypeOK
<1> USE NobodyAssumption DEF PlaceInv
<1>1. CASE Read
  <2>1. /\ Head(regpipe) \in Clients /\ Head(regpipe) \in Piped /\ Piped' = Piped \ {Head(regpipe)}
        /\ Distinct(regpipe)'
    BY <1>0, <1>1, HeadTail, TakeFirst DEF Read, Piped
  <2>2. Fetched = {} /\ Fetched' = {Head(regpipe)}
    BY <1>0, <1>1, <2>1 DEF Read, Fetched
  <2>3. UNCHANGED <<Queued, Served, rejected, queue, conn, cpc>>
    BY <1>1 DEF Read, Queued, Served, Elements
  <2>4. Owned' = Owned
    BY <2>1, <2>2, <2>3 DEF Owned
  <2>5. Distinct(queue)' /\ ClientInv'
    BY <2>3, <2>4 DEF ClientInv, Distinct
  <2> QED
    BY <2>1, <2>2, <2>3, <2>5
<1>2. CASE Enqueue
  <2>1. setup \in Clients /\ Fetched = {setup} /\ Fetched' = {}
    BY <1>0, <1>2 DEF Enqueue, Fetched
  <2>2. Queued' = Queued \cup {setup} /\ Distinct(queue)'
    BY <1>0, <1>2, <2>1, PutLast DEF Enqueue, Push, Queued
  <2>3. UNCHANGED <<Piped, Served, rejected, regpipe, conn, cpc>>
    BY <1>2 DEF Enqueue, Piped, Served, Elements
  <2>4. Owned' = Owned
    BY <2>1, <2>2, <2>3 DEF Owned
  <2>5. Distinct(regpipe)' /\ ClientInv'
    BY <2>3, <2>4 DEF ClientInv, Distinct
  <2> QED
    BY <2>1, <2>2, <2>3, <2>5
<1>3. CASE EnqueueFail
  <2>1. setup \in Clients /\ Fetched = {setup} /\ Fetched' = {} /\ rejected' = rejected \cup {setup}
    BY <1>0, <1>3 DEF EnqueueFail, Fetched
  <2>2. UNCHANGED <<Queued, Piped, Served, queue, regpipe, conn, cpc>>
    BY <1>3 DEF EnqueueFail, Queued, Piped, Served, Elements
  <2>3. Owned' = Owned
    BY <2>1, <2>2 DEF Owned
  <2>4. Distinct(queue)' /\ Distinct(regpipe)' /\ ClientInv'
    BY <2>2, <2>3 DEF ClientInv, Distinct
  <2> QED
    BY <2>1, <2>2, <2>4
<1>4. CASE Exit
  BY <1>4 DEF Exit
<1> QED
  BY <1>1, <1>2, <1>3, <1>4, NoMove
     DEF MainStep, Main, Sigint, Sigusr1, Check, EnterRead, Eintr, Dump, Stop, Wake

\* A client goes from the queue to one worker, and from there is rejected or gone.
LEMMA WorkerMoves ==
  ASSUME TypeOK, PlaceInv, ClientInv, NEW w \in Workers, WorkerStep(w), ~killed'
  PROVE  PlaceInv' /\ ClientInv'
<1>0. /\ queue \in Seq(Clients) /\ conn \in [Workers -> Clients \cup {Nobody}]
      /\ cpc \in [Clients -> ClientLabels]
      /\ conn[w] # Nobody <=> wpc[w] \in Connected
  BY DEF TypeOK
<1> USE NobodyAssumption DEF PlaceInv
<1>1. CASE Dequeue(w)
  <2> DEFINE c == Head(queue)
  <2>1. /\ c \in Clients /\ c \in Queued /\ Queued' = Queued \ {c} /\ Distinct(queue)'
        /\ conn' = [conn EXCEPT ![w] = c]
    BY <1>0, <1>1, HeadTail, TakeFirst DEF Dequeue, Pop, Queued
  <2>2. conn[w] = Nobody
    BY <1>0, <1>1 DEF Dequeue, Connected
  <2> HIDE DEF c
  <2>3. /\ Served' = Served \cup {c}
        /\ \A u, v \in Workers : conn'[u] = conn'[v] /\ conn'[u] # Nobody => u = v
    BY <2>1, <2>2, PickUp
  <2>4. UNCHANGED <<Fetched, Piped, rejected, regpipe, cpc>>
    BY <1>1 DEF Dequeue, Fetched, Piped, Elements
  <2>5. Owned' = Owned
    BY <2>1, <2>3, <2>4 DEF Owned
  <2>6. Distinct(regpipe)' /\ ClientInv'
    BY <2>4, <2>5 DEF ClientInv, Distinct
  <2> QED
    BY <2>1, <2>3, <2>4, <2>6
<1>2. CASE OpenFail(w) \/ SendIdFail(w) \/ EndSession(w)
  <2> DEFINE c == conn[w]
  <2>1. /\ conn[w] # Nobody /\ conn' = [conn EXCEPT ![w] = Nobody]
        /\ UNCHANGED <<queue, setup, regpipe, cpc>>
        /\ \/ rejected' = rejected \cup {c}
           \/ rejected' = rejected /\ cpc[c] \in {"ended", "crashed"}
    BY <1>0, <1>2 DEF OpenFail, SendIdFail, EndSession, Hangup, Connected
  <2>2. /\ Served' = Served \ {c} /\ c \in Served
        /\ \A u, v \in Workers : conn'[u] = conn'[v] /\ conn'[u] # Nobody => u = v
    BY <2>1, Leave
  <2>3. UNCHANGED <<Queued, Fetched, Piped>>
    BY <2>1 DEF Queued, Fetched, Piped, Elements
  <2>4. Distinct(queue)' /\ Distinct(regpipe)'
    BY <2>1 DEF Distinct
  <2> HIDE DEF c
  <2>5. \/ Owned' = Owned
        \/ Owned' = Owned \ {c} /\ cpc[c] \in {"ended", "crashed"}
    BY <2>1, <2>2, <2>3 DEF Owned
  <2>6. ClientInv'
    BY <2>1, <2>5 DEF ClientInv, Linked
  <2>7. rejected' \subseteq rejected \cup {c} /\ rejected \subseteq rejected'
    BY <2>1
  <2> QED
    BY <2>2, <2>3, <2>4, <2>6, <2>7
<1>3. CASE OpenResp(w) \/ OpenReq(w)
  <2>1. /\ UNCHANGED <<queue, setup, regpipe, conn, rejected>> /\ conn[w] \in Clients
        /\ cpc[conn[w]] \in Linked
        /\ cpc' = [cpc EXCEPT ![conn[w]] = cpc'[conn[w]]] /\ cpc'[conn[w]] \in Linked
    BY <1>0, <1>3 DEF OpenResp, OpenReq, Connected, Linked
  <2>2. \A c \in Clients : /\ cpc'[c] = "new" => cpc[c] = "new"
                           /\ cpc'[c] \in Linked => cpc[c] \in Linked
    <3>1. \A c \in Clients \ {conn[w]} : cpc'[c] = cpc[c]
      BY <1>0, <2>1
    <3> QED
      BY <2>1, <3>1 DEF Linked
  <2> QED
    BY <2>1, <2>2, NoMove
<1>4. CASE UNCHANGED <<queue, setup, regpipe, conn, rejected, cpc>>
  BY <1>4, NoMove
<1> QED
  BY <1>1, <1>2, <1>3, <1>4
     DEF WorkerStep, Run, CheckTermination, Lock, Wait, Relock, Recheck, SendId,
            SpuriousWakeup

\* A client enters the register pipe once, when it is nowhere yet.
LEMMA ClientMoves ==
  ASSUME TypeOK, PlaceInv, ClientInv, NEW c \in Clients, ClientStep(c), ~Down
  PROVE  PlaceInv' /\ ClientInv'
<1>0. regpipe \in Seq(Clients) /\ cpc \in [Clients -> ClientLabels]
  BY DEF TypeOK
<1>1. CASE Register(c)
  <2>1. /\ cpc[c] = "new" /\ regpipe' = Append(regpipe, c) /\ cpc' = [cpc EXCEPT ![c] = "open_resp"]
        /\ UNCHANGED <<queue, setup, conn, rejected>>
    BY <1>1 DEF Register
  <2>2. c \notin Owned
    BY <2>1 DEF ClientInv
  <2>3. Piped' = Piped \cup {c} /\ Distinct(regpipe)'
    BY <1>0, <2>1, <2>2, PutLast DEF Piped, PlaceInv, Owned
  <2>4. UNCHANGED <<Queued, Fetched, Served>> /\ Distinct(queue)'
    BY <2>1 DEF Queued, Fetched, Served, Elements, Distinct, PlaceInv
  <2>5. Owned' = Owned \cup {c}
    BY <2>1, <2>3, <2>4 DEF Owned
  <2>6. ClientInv'
    BY <1>0, <2>1, <2>5 DEF ClientInv
  <2> QED
    BY <2>1, <2>2, <2>3, <2>4, <2>6 DEF PlaceInv, Owned
<1>2. CASE ReadId(c) \/ Quit(c) \/ Crash(c)
  <2>1. /\ UNCHANGED <<queue, setup, regpipe, conn, rejected>>
        /\ cpc[c] \in Linked /\ cpc' = [cpc EXCEPT ![c] = cpc'[c]] /\ cpc'[c] # "new"
    BY <1>0, <1>2 DEF ReadId, Quit, Crash, Linked
  <2>2. \A b \in Clients : /\ cpc'[b] = "new" => cpc[b] = "new"
                           /\ cpc'[b] \in Linked => cpc[b] \in Linked
    BY <1>0, <2>1
  <2> QED
    BY <2>1, <2>2, NoMove
<1> QED
  BY <1>1, <1>2 DEF ClientStep, Client

\* Every step keeps each client in one place.
LEMMA NextOwner == TypeOK /\ OwnerInv /\ [Next]_vars => OwnerInv'
<1> SUFFICES ASSUME TypeOK, OwnerInv, [Next]_vars, ~Down' PROVE PlaceInv' /\ ClientInv'
  BY DEF OwnerInv
<1>1. CASE Next
  <2>1. ~Down /\ PlaceInv /\ ClientInv
    BY <1>1, StaysDown DEF OwnerInv
  <2> QED
    BY <1>1, <2>1, Steps, MainMoves, WorkerMoves, ClientMoves DEF Down
<1>2. CASE UNCHANGED vars
  BY <1>2, NoMove DEF vars, OwnerInv, Down
<1> QED
  BY <1>1, <1>2

\* There is nobody anywhere when the server starts.
LEMMA InitOwner == Init => OwnerInv
<1> SUFFICES ASSUME Init PROVE PlaceInv /\ ClientInv
  BY DEF OwnerInv
<1>1. Queued = {} /\ Fetched = {} /\ Piped = {} /\ Served = {} /\ rejected = {}
  BY DEF Init, Queued, Fetched, Piped, Served, Elements
<1>2. Distinct(queue) /\ Distinct(regpipe)
  BY DEF Init, Distinct
<1>3. \A v, w \in Workers : ~(conn[v] = conn[w] /\ conn[v] # Nobody)
  BY DEF Init
<1> QED
  BY <1>1, <1>2, <1>3 DEF PlaceInv, ClientInv, Owned, Init, Linked

\* Two sequences one after the other.
LEMMA Joining ==
  ASSUME NEW s \in Seq(Clients), NEW r \in Seq(Clients), Distinct(s), Distinct(r),
         Elements(s) \cap Elements(r) = {}
  PROVE  s \o r \in Seq(Clients) /\ Distinct(s \o r) /\ Elements(s \o r) = Elements(s) \cup Elements(r)
<1> DEFINE q == s \o r
<1>1. /\ q \in Seq(Clients) /\ Len(s) \in Nat /\ Len(r) \in Nat /\ Len(q) = Len(s) + Len(r)
      /\ \A i \in 1 .. Len(s) + Len(r) : q[i] = IF i <= Len(s) THEN s[i] ELSE r[i - Len(s)]
  BY ConcatProperties, LenProperties
<1> HIDE DEF q
<1>2. /\ \A i \in 1 .. Len(s) : i \in 1 .. Len(q) /\ q[i] = s[i]
      /\ \A i \in 1 .. Len(r) : Len(s) + i \in 1 .. Len(q) /\ q[Len(s) + i] = r[i]
      /\ \A i \in 1 .. Len(q) : i \notin 1 .. Len(s) =>
           i - Len(s) \in 1 .. Len(r) /\ q[i] = r[i - Len(s)]
  BY <1>1
<1>3. Elements(s) \cup Elements(r) \subseteq Elements(q)
  <2>1. \A i \in 1 .. Len(q) : q[i] \in Elements(q)
    BY DEF Elements
  <2>2. \A i \in 1 .. Len(s) : s[i] \in Elements(q)
    BY <1>2, <2>1
  <2>3. \A i \in 1 .. Len(r) : r[i] \in Elements(q)
    BY <1>2, <2>1
  <2>4. Elements(s) \subseteq Elements(q)
    BY <2>2 DEF Elements
  <2>5. Elements(r) \subseteq Elements(q)
    BY <2>3 DEF Elements
  <2> QED
    BY <2>4, <2>5
<1>4. \A i \in 1 .. Len(q) : /\ i \in 1 .. Len(s) => q[i] \in Elements(s)
                             /\ i \notin 1 .. Len(s) => q[i] \in Elements(r)
  BY <1>2 DEF Elements
<1>5. Elements(q) \subseteq Elements(s) \cup Elements(r)
  BY <1>4 DEF Elements
<1>6. Distinct(q)
  <2>1. SUFFICES ASSUME NEW i \in 1 .. Len(q), NEW j \in 1 .. Len(q), q[i] = q[j] PROVE i = j
    BY DEF Distinct
  <2>2. CASE i \in 1 .. Len(s) /\ j \in 1 .. Len(s)
    BY <1>2, <2>1, <2>2 DEF Distinct
  <2>3. CASE i \notin 1 .. Len(s) /\ j \notin 1 .. Len(s)
    <3>1. i - Len(s) = j - Len(s)
      <4>1. /\ i - Len(s) \in 1 .. Len(r) /\ j - Len(s) \in 1 .. Len(r)
            /\ r[i - Len(s)] = r[j - Len(s)]
        BY <1>2, <2>1, <2>3
      <4> QED
        BY <4>1 DEF Distinct
    <3> QED
      BY <1>1, <3>1
  <2>4. i \in 1 .. Len(s) <=> j \in 1 .. Len(s)
    BY <1>4, <2>1
  <2> QED
    BY <2>2, <2>3, <2>4
<1> QED
  BY <1>1, <1>3, <1>5, <1>6 DEF q

\* The setup message main has read, as a sequence.
InHand == IF setup = Nobody THEN << >> ELSE <<setup>>

\* A client waits at most once, namely while it is in one of the first three places.
LEMMA WaitsOnce ==
  ASSUME TypeOK, PlaceInv
  PROVE  /\ Backlog \in Seq(Clients) /\ Distinct(Backlog)
         /\ Elements(Backlog) = Queued \cup Fetched \cup Piped
<1>1. /\ queue \in Seq(Clients) /\ regpipe \in Seq(Clients) /\ setup \in Clients \cup {Nobody}
      /\ Distinct(queue) /\ Distinct(regpipe)
      /\ Queued \cap Fetched = {} /\ (Queued \cup Fetched) \cap Piped = {}
  BY DEF TypeOK, PlaceInv
<1>2. InHand \in Seq(Clients) /\ Distinct(InHand) /\ Elements(InHand) = Fetched
  <2>1. CASE setup = Nobody
    BY <2>1 DEF InHand, Distinct, Elements, Fetched
  <2>2. CASE setup # Nobody
    <3>1. InHand = <<setup>> /\ Len(InHand) = 1 /\ InHand[1] = setup /\ setup \in Clients
      BY <1>1, <2>2 DEF InHand
    <3> QED
      BY <2>2, <3>1 DEF Distinct, Elements, Fetched
  <2> QED
    BY <2>1, <2>2
<1>3. /\ queue \o InHand \in Seq(Clients) /\ Distinct(queue \o InHand)
      /\ Elements(queue \o InHand) = Queued \cup Fetched
  BY <1>1, <1>2, Joining DEF Queued
<1>4. Backlog = (queue \o InHand) \o regpipe
  BY DEF Backlog, InHand
<1> QED
  BY <1>1, <1>3, <1>4, Joining DEF Piped

\* How often a client is in the backlog, with the workers, and with the rejected.
LEMMA Counts ==
  ASSUME TypeOK, PlaceInv, NEW c \in Clients
  PROVE  /\ Cardinality(Waiting(c)) = IF c \in Queued \cup Fetched \cup Piped THEN 1 ELSE 0
         /\ Cardinality(Serving(c)) = IF c \in Served THEN 1 ELSE 0
<1>1. Waiting(c) = {i \in 1 .. Len(Backlog) : Backlog[i] = c}
  BY WaitsOnce, LenProperties DEF Waiting
<1>2. ASSUME c \in Queued \cup Fetched \cup Piped PROVE Cardinality(Waiting(c)) = 1
  <2>1. PICK i \in 1 .. Len(Backlog) : Backlog[i] = c
    BY <1>2, WaitsOnce DEF Elements
  <2>2. Waiting(c) = {i}
    BY <1>1, <2>1, WaitsOnce DEF Distinct
  <2> QED
    BY <2>2, FS_Singleton
<1>3. ASSUME c \notin Queued \cup Fetched \cup Piped PROVE Cardinality(Waiting(c)) = 0
  <2>1. Waiting(c) = {}
    BY <1>1, <1>3, WaitsOnce DEF Elements
  <2> QED
    BY <2>1, FS_EmptySet
<1>4. ASSUME c \in Served PROVE Cardinality(Serving(c)) = 1
  <2>1. PICK w \in Workers : conn[w] = c
    BY <1>4 DEF Served
  <2>2. Serving(c) = {w}
    BY <2>1, NobodyAssumption DEF Serving, PlaceInv
  <2> QED
    BY <2>2, FS_Singleton
<1>5. ASSUME c \notin Served PROVE Cardinality(Serving(c)) = 0
  <2>1. Serving(c) = {}
    BY <1>5, NobodyAssumption DEF Serving, Served
  <2> QED
    BY <2>1, FS_EmptySet
<1>6. Cardinality(Waiting(c)) = IF c \in Queued \cup Fetched \cup Piped THEN 1 ELSE 0
  BY <1>2, <1>3
<1>7. Cardinality(Serving(c)) = IF c \in Served THEN 1 ELSE 0
  BY <1>4, <1>5
<1> QED
  BY <1>6, <1>7

\* While the server runs, a registered client that is not finished is in exactly
\* one place: no request is lost, and no two workers share a client.
THEOREM EveryoneHasOneOwner == Spec => []OneOwner
<1>1. TypeOK /\ OwnerInv => OneOwner
  <2> SUFFICES ASSUME TypeOK, PlaceInv, ClientInv, NEW c \in Clients, cpc[c] \in Linked
               PROVE  Cardinality(Waiting(c)) + Cardinality(Serving(c))
                        + (IF c \in rejected THEN 1 ELSE 0) = 1
    BY DEF OneOwner, OwnerInv
  <2>1. c \in Owned
    BY DEF ClientInv
  <2> HIDE DEF Queued, Fetched, Piped, Served
  <2>2. CASE c \in Queued \cup Fetched \cup Piped
    <3>1. c \notin Served /\ c \notin rejected
      BY <2>2 DEF PlaceInv
    <3> QED
      BY <2>2, <3>1, Counts
  <2>3. CASE c \in Served
    <3>1. c \notin Queued \cup Fetched \cup Piped /\ c \notin rejected
      BY <2>3 DEF PlaceInv
    <3> QED
      BY <2>3, <3>1, Counts
  <2>4. CASE c \in rejected
    <3>1. c \notin Queued \cup Fetched \cup Piped /\ c \notin Served
      BY <2>4 DEF PlaceInv
    <3> QED
      BY <2>4, <3>1, Counts
  <2> QED
    BY <2>1, <2>2, <2>3, <2>4 DEF Owned
<1> QED
  BY InitTypes, NextTypes, InitOwner, NextOwner, <1>1, PTL DEF Spec

----------------------------------------------------------------------------
(* First come, first served.                                               *)

\* The head of a sequence in front of its tail.
LEMMA HeadFirst ==
  ASSUME NEW s \in Seq(Clients), s # << >>
  PROVE  <<Head(s)>> \o Tail(s) = s
<1> DEFINE r == <<Head(s)>> \o Tail(s)
<1>1. /\ Head(s) \in Clients /\ Head(s) = s[1] /\ Tail(s) \in Seq(Clients) /\ Len(s) \in Nat \ {0}
      /\ Len(Tail(s)) = Len(s) - 1 /\ \A i \in 1 .. Len(s) - 1 : Tail(s)[i] = s[i + 1]
  BY HeadTailProperties, EmptySeq
<1>2. <<Head(s)>> \in Seq(Clients) /\ Len(<<Head(s)>>) = 1 /\ <<Head(s)>>[1] = s[1]
  BY <1>1
<1>3. /\ r \in Seq(Clients) /\ Len(r) = Len(s)
      /\ \A i \in 1 .. Len(s) : r[i] = IF i <= 1 THEN <<Head(s)>>[i] ELSE Tail(s)[i - 1]
  <2>1. /\ r \in Seq(Clients) /\ Len(r) = 1 + Len(Tail(s))
        /\ \A i \in 1 .. 1 + Len(Tail(s)) :
             r[i] = IF i <= 1 THEN <<Head(s)>>[i] ELSE Tail(s)[i - 1]
    BY <1>1, <1>2, ConcatProperties
  <2> QED
    BY <1>1, <2>1
<1> HIDE DEF r
<1>4. \A i \in 1 .. Len(r) : r[i] = s[i]
  BY <1>1, <1>2, <1>3
<1>5. r = s
  BY <1>3, <1>4, SeqEqual
<1> QED
  BY <1>5 DEF r

\* The oldest request is taken from the front of the whole.
LEMMA TailFirst ==
  ASSUME NEW s \in Seq(Clients), NEW r \in Seq(Clients), s # << >>
  PROVE  s \o r # << >> /\ Tail(s \o r) = Tail(s) \o r /\ s \o r \in Seq(Clients)
<1>1. /\ Len(s) \in Nat \ {0} /\ Len(r) \in Nat /\ Tail(s) \in Seq(Clients)
      /\ Len(Tail(s)) = Len(s) - 1 /\ \A i \in 1 .. Len(s) - 1 : Tail(s)[i] = s[i + 1]
  BY HeadTailProperties, EmptySeq, LenProperties
<1>2. /\ s \o r \in Seq(Clients) /\ Len(s \o r) = Len(s) + Len(r)
      /\ \A i \in 1 .. Len(s) + Len(r) : (s \o r)[i] = IF i <= Len(s) THEN s[i] ELSE r[i - Len(s)]
  BY ConcatProperties
<1>3. s \o r # << >>
  BY <1>1, <1>2, EmptySeq
<1>4. /\ Tail(s \o r) \in Seq(Clients) /\ Len(Tail(s \o r)) = Len(s) + Len(r) - 1
      /\ \A i \in 1 .. Len(s) + Len(r) - 1 : Tail(s \o r)[i] = (s \o r)[i + 1]
  BY <1>2, <1>3, HeadTailProperties
<1>5. /\ Tail(s) \o r \in Seq(Clients) /\ Len(Tail(s) \o r) = Len(s) - 1 + Len(r)
      /\ \A i \in 1 .. Len(s) - 1 + Len(r) :
           (Tail(s) \o r)[i] = IF i <= Len(s) - 1 THEN Tail(s)[i] ELSE r[i - (Len(s) - 1)]
  BY <1>1, ConcatProperties
<1>6. Len(Tail(s \o r)) = Len(Tail(s) \o r)
  BY <1>1, <1>4, <1>5
<1>7. \A i \in 1 .. Len(s) - 1 + Len(r) : Tail(s \o r)[i] = (Tail(s) \o r)[i]
  <2>1. SUFFICES ASSUME NEW i \in 1 .. Len(s) - 1 + Len(r)
                 PROVE  Tail(s \o r)[i] = (Tail(s) \o r)[i]
    OBVIOUS
  <2>2. i + 1 \in 1 .. Len(s) + Len(r) /\ Tail(s \o r)[i] = (s \o r)[i + 1]
    BY <1>1, <1>4
  <2>3. CASE i <= Len(s) - 1
    BY <1>1, <1>2, <1>5, <2>2, <2>3
  <2>4. CASE i > Len(s) - 1
    <3>1. (s \o r)[i + 1] = r[i + 1 - Len(s)] /\ (Tail(s) \o r)[i] = r[i - (Len(s) - 1)]
      BY <1>1, <1>2, <1>5, <2>2, <2>4
    <3>2. i + 1 - Len(s) = i - (Len(s) - 1)
      BY <1>1
    <3> QED
      BY <2>2, <3>1, <3>2
  <2> QED
    BY <1>1, <2>3, <2>4
<1>8. Tail(s \o r) = Tail(s) \o r
  BY <1>1, <1>4, <1>5, <1>6, <1>7, SeqEqual
<1> QED
  BY <1>2, <1>3, <1>8

\* What FirstComeFirstServed says of a step.
InOrder ==
  \/ Backlog' = Backlog
  \/ Backlog # << >> /\ Backlog' = Tail(Backlog)
  \/ \E c \in Clients : Backlog' = Append(Backlog, c)
  \/ rejected' # rejected
  \/ mpc' = "exited"

\* The main thread moves a request on, without changing the order.
LEMMA OrderMain ==
  ASSUME TypeOK, OwnerInv, MainStep
  PROVE  InOrder
<1>0. /\ queue \in Seq(Clients) /\ regpipe \in Seq(Clients) /\ setup \in Clients \cup {Nobody}
      /\ setup # Nobody <=> mpc = "enqueue"
  BY DEF TypeOK
<1>1. CASE Read
  <2>1. /\ setup = Nobody /\ setup' = Head(regpipe) /\ setup' # Nobody /\ regpipe # << >>
        /\ regpipe' = Tail(regpipe) /\ queue' = queue /\ Head(regpipe) \in Clients
        /\ Tail(regpipe) \in Seq(Clients)
    BY <1>0, <1>1, HeadTail DEF Read
  <2>2. /\ Backlog = (queue \o << >>) \o regpipe
        /\ Backlog' = (queue \o <<Head(regpipe)>>) \o Tail(regpipe)
    BY <2>1 DEF Backlog
  <2>3. <<Head(regpipe)>> \in Seq(Clients)
    BY <2>1
  <2>4. (queue \o <<Head(regpipe)>>) \o Tail(regpipe) = queue \o regpipe
    BY <1>0, <2>1, <2>3, ConcatAssociative, HeadFirst
  <2>5. queue \o << >> = queue
    BY <1>0, ConcatEmptySeq
  <2> QED
    BY <2>2, <2>4, <2>5 DEF InOrder
<1>2. CASE Enqueue
  <2>1. /\ setup \in Clients /\ setup # Nobody /\ setup' = Nobody
        /\ queue' = Append(queue, setup) /\ regpipe' = regpipe
    BY <1>0, <1>2 DEF Enqueue, Push
  <2>2. /\ Backlog = (queue \o <<setup>>) \o regpipe
        /\ Backlog' = (Append(queue, setup) \o << >>) \o regpipe
    BY <2>1 DEF Backlog
  <2>3. Append(queue, setup) = queue \o <<setup>> /\ Append(queue, setup) \in Seq(Clients)
    BY <1>0, <2>1, AppendIsConcat, AppendProperties
  <2>4. Append(queue, setup) \o << >> = Append(queue, setup)
    BY <2>3, ConcatEmptySeq
  <2> QED
    BY <2>2, <2>3, <2>4 DEF InOrder
<1>3. CASE EnqueueFail
  <2>1. setup \in Fetched /\ ~Down /\ rejected' = rejected \cup {setup}
    BY <1>0, <1>3 DEF EnqueueFail, Fetched, Down
  <2>2. setup \notin rejected
    BY <2>1 DEF OwnerInv, PlaceInv
  <2> QED
    BY <2>1, <2>2 DEF InOrder
<1>4. CASE Exit
  BY <1>4 DEF Exit, InOrder
<1>5. CASE UNCHANGED <<queue, setup, regpipe>>
  BY <1>5 DEF Backlog, InOrder
<1> QED
  BY <1>1, <1>2, <1>3, <1>4, <1>5
     DEF MainStep, Main, Sigint, Sigusr1, Check, EnterRead, Eintr, Dump, Stop, Wake

\* A worker takes the oldest request, a client adds the newest.
LEMMA OrderOthers ==
  ASSUME TypeOK, \/ \E w \in Workers : WorkerStep(w)
                 \/ \E c \in Clients : ClientStep(c)
  PROVE  InOrder
<1>0. /\ queue \in Seq(Clients) /\ regpipe \in Seq(Clients) /\ InHand \in Seq(Clients)
      /\ Backlog = (queue \o InHand) \o regpipe
      /\ queue \o InHand \in Seq(Clients)
  <2>1. queue \in Seq(Clients) /\ regpipe \in Seq(Clients) /\ setup \in Clients \cup {Nobody}
    BY DEF TypeOK
  <2>2. InHand \in Seq(Clients) /\ Backlog = (queue \o InHand) \o regpipe
    BY <2>1 DEF InHand, Backlog
  <2> QED
    BY <2>1, <2>2, ConcatProperties
<1>1. ASSUME NEW w \in Workers, Dequeue(w) PROVE InOrder
  <2>1. queue # << >> /\ queue' = Tail(queue) /\ UNCHANGED <<setup, regpipe>>
    BY <1>1 DEF Dequeue, Pop
  <2>2. Backlog' = (Tail(queue) \o InHand) \o regpipe
    BY <2>1 DEF Backlog, InHand
  <2>3. queue \o InHand # << >> /\ Tail(queue \o InHand) = Tail(queue) \o InHand
    BY <1>0, <2>1, TailFirst
  <2>4. Backlog # << >> /\ Tail(Backlog) = Tail(queue \o InHand) \o regpipe
    BY <1>0, <2>3, TailFirst
  <2> QED
    BY <2>2, <2>3, <2>4 DEF InOrder
<1>2. ASSUME NEW c \in Clients, Register(c), regpipe' = Append(regpipe, c) PROVE InOrder
  <2>1. Backlog' = (queue \o InHand) \o Append(regpipe, c)
    BY <1>2 DEF Register, Backlog, InHand
  <2>2. Append(regpipe, c) = regpipe \o <<c>> /\ <<c>> \in Seq(Clients)
    BY <1>0, AppendIsConcat
  <2>3. Backlog \in Seq(Clients)
    BY <1>0, ConcatProperties
  <2>4. Append(Backlog, c) = Backlog \o <<c>>
    BY <2>3, AppendIsConcat
  <2>5. (queue \o InHand) \o (regpipe \o <<c>>) = ((queue \o InHand) \o regpipe) \o <<c>>
    BY <1>0, <2>2, ConcatAssociative
  <2> QED
    BY <1>0, <2>1, <2>2, <2>4, <2>5 DEF InOrder
<1>3. CASE UNCHANGED <<queue, setup, regpipe>>
  BY <1>3 DEF Backlog, InOrder
<1> QED
  BY <1>1, <1>2, <1>3
     DEF WorkerStep, Run, CheckTermination, Lock, Wait, Relock, Recheck, OpenResp, SendId,
         SendIdFail, OpenReq, EndSession, SpuriousWakeup, OpenFail,
         ClientStep, Client, ReadId, Quit, Register, Crash

\* Connections are served in the order of registration.
THEOREM ServedInOrder == Spec => FirstComeFirstServed
<1>1. TypeOK /\ OwnerInv /\ [Next]_vars => [InOrder]_vars
  BY Steps, OrderMain, OrderOthers
<1>2. Spec => [](TypeOK /\ OwnerInv)
  BY InitTypes, NextTypes, InitOwner, NextOwner, PTL DEF Spec
<1> QED
  BY <1>1, <1>2, PTL DEF Spec, FirstComeFirstServed, InOrder

=============================================================================
