----------------------------- MODULE ServerPool -----------------------------
(***************************************************************************)
(* The threads of the EMS server and its clients, from registration to     *)
(* shutdown: Part2/src/server/main.c (signals, the register pipe, joining   *)
(* the workers), queue.c, connect_clients of sessions.c, and the other end *)
(* of the handshake, ems_setup and ems_quit of Part2/src/client/api.c.     *)
(*                                                                         *)
(* A request inside a session is the business of EmsServer.  The FIFOs     *)
(* follow fifo(7): open blocks until the other end is opened too, a read   *)
(* of a FIFO without writer returns 0, a write without reader raises       *)
(* SIGPIPE.  Both signals interrupt the main thread: Linux delivers a      *)
(* signal sent to the process to its first thread when that accepts it.    *)
(***************************************************************************)
EXTENDS Integers, Sequences, FiniteSets

CONSTANTS
  Workers,   \* the MAX_SESSION_COUNT worker threads
  Clients,   \* client processes, one session each
  Nobody,    \* no connection
  MainThread,
  Free,      \* the owner of a free lock
  MaxFaults, \* bound: client crashes, failed calls and spurious wakeups
  MaxUsr1    \* bound: SIGUSR1 signals

ASSUME NobodyAssumption == Nobody \notin Clients
ASSUME LockAssumption   == MainThread \notin Workers /\ Free \notin Workers \cup {MainThread}
ASSUME FaultAssumption  == MaxFaults \in Nat /\ MaxUsr1 \in Nat

VARIABLES
  terminate,   \* the flag set by the SIGINT handler
  usr1_sig,    \* the flag set by the SIGUSR1 handler
  usr1s,       \* SIGUSR1 signals sent
  mpc,         \* where the main thread is
  setup,       \* the client whose setup message the main thread has read
  regpipe,     \* setup messages in the register pipe
  queue,       \* connection requests, front to rear
  queue_lock,  \* the thread that holds queue->queue_lock
  terminating, \* queue->terminate
  wpc,         \* where each worker is
  conn,        \* the connection each worker has dequeued
  masked,      \* the workers that block SIGPIPE
  cpc,         \* where each client is
  greeted,     \* clients whose session id is in the response pipe
  rejected,    \* clients the server has reported a failure of
  killed,      \* SIGPIPE has ended the server process
  faults

signals == <<terminate, usr1_sig, usr1s>>
main    == <<mpc, setup>>
pool    == <<queue, queue_lock, terminating>>
workers == <<wpc, conn, masked>>
clients == <<cpc, greeted>>
vars    == <<signals, main, regpipe, pool, workers, clients, rejected, killed, faults>>

MainLabels   == {"check", "call", "read", "eintr", "dump", "enqueue",
                 "stop", "broadcast", "join", "exited"}
WorkerLabels == {"check", "lock", "test", "wait", "woken", "recheck", "open_resp",
                 "send_id", "open_req", "serve", "exited"}
Connected    == {"open_resp", "send_id", "open_req", "serve"}
ClientLabels == {"new", "open_resp", "read_id", "open_req", "session", "ended", "crashed"}
Linked       == {"open_resp", "read_id", "open_req", "session"}

Init ==
  /\ terminate = FALSE /\ usr1_sig = FALSE /\ usr1s = 0
  /\ mpc = "check" /\ setup = Nobody /\ regpipe = << >>
  /\ queue = << >> /\ queue_lock = Free /\ terminating = FALSE
  /\ wpc = [w \in Workers |-> "check"] /\ conn = [w \in Workers |-> Nobody]
  /\ masked = {}
  /\ cpc = [c \in Clients |-> "new"] /\ greeted = {}
  /\ rejected = {} /\ killed = FALSE /\ faults = 0

Fault == faults < MaxFaults /\ faults' = faults + 1

MainAt(l)      == mpc = l /\ ~killed
MainGoto(l)    == mpc' = l
At(w, l)       == wpc[w] = l /\ ~killed
Goto(w, l)     == wpc' = [wpc EXCEPT ![w] = l]
ClientGoto(c, l) == cpc' = [cpc EXCEPT ![c] = l]

----------------------------------------------------------------------------
(* Signals.  A handler only sets a flag; a blocked read returns EINTR.     *)

\* A read that finds a message returns it, and the flag waits.
Interrupt == MainGoto(IF MainAt("read") /\ regpipe = << >> THEN "eintr" ELSE mpc)

Sigint ==
  /\ ~terminate /\ mpc # "exited" /\ ~killed
  /\ terminate' = TRUE /\ Interrupt
  /\ UNCHANGED <<usr1_sig, usr1s, setup, regpipe, pool, workers, clients, rejected, killed, faults>>

Sigusr1 ==
  /\ usr1s < MaxUsr1 /\ mpc # "exited" /\ ~killed
  /\ usr1s' = usr1s + 1 /\ usr1_sig' = TRUE /\ Interrupt
  /\ UNCHANGED <<terminate, setup, regpipe, pool, workers, clients, rejected, killed, faults>>

----------------------------------------------------------------------------
(* main: the loop on the register pipe.                                    *)

Check ==
  /\ MainAt("check") /\ MainGoto(IF terminate THEN "stop" ELSE "call")
  /\ UNCHANGED <<signals, setup, regpipe, pool, workers, clients, rejected, killed, faults>>

EnterRead ==
  /\ MainAt("call") /\ MainGoto("read")
  /\ UNCHANGED <<signals, setup, regpipe, pool, workers, clients, rejected, killed, faults>>

Read ==
  /\ MainAt("read") /\ regpipe # << >>
  /\ setup' = Head(regpipe) /\ regpipe' = Tail(regpipe) /\ MainGoto("enqueue")
  /\ UNCHANGED <<signals, pool, workers, clients, rejected, killed, faults>>

\* SIGUSR1 is looked at before SIGINT, which the next check still finds.
Eintr ==
  /\ MainAt("eintr") /\ MainGoto(IF usr1_sig THEN "dump" ELSE "stop")
  /\ UNCHANGED <<signals, setup, regpipe, pool, workers, clients, rejected, killed, faults>>

\* ems_sigusr1_action has returned (EmsServer models it).
Dump ==
  /\ MainAt("dump") /\ usr1_sig' = FALSE /\ MainGoto("check")
  /\ UNCHANGED <<terminate, usr1s, setup, regpipe, pool, workers, clients, rejected, killed, faults>>

\* Mutant: the condition variable is not signalled.
BroadcastNone == UNCHANGED wpc

\* pthread_cond_broadcast.
Broadcast ==
  wpc' = [w \in Workers |-> IF wpc[w] = "wait" THEN "woken" ELSE wpc[w]]

\* Mutant: the new connection is put in front of the others.
PushFront(c) == queue' = <<c>> \o queue
Push(c) == queue' = Append(queue, c)

\* enqueue_connection holds queue_lock from the append to the broadcast.
Enqueue ==
  /\ MainAt("enqueue") /\ queue_lock = Free
  /\ Push(setup) /\ Broadcast
  /\ setup' = Nobody /\ MainGoto("check")
  /\ UNCHANGED <<signals, regpipe, queue_lock, terminating, conn, masked, clients>>
  /\ UNCHANGED <<rejected, killed, faults>>

\* malloc fails in enqueue_connection.
EnqueueFail ==
  /\ MainAt("enqueue") /\ Fault
  /\ rejected' = rejected \cup {setup}
  /\ setup' = Nobody /\ MainGoto("check")
  /\ UNCHANGED <<signals, regpipe, pool, workers, clients, killed>>

Stop ==
  /\ MainAt("stop") /\ terminating' = TRUE /\ MainGoto("broadcast")
  /\ UNCHANGED <<signals, setup, regpipe, queue, queue_lock, workers, clients>>
  /\ UNCHANGED <<rejected, killed, faults>>

\* The broadcast of the shutdown does not take queue_lock.
Wake ==
  /\ MainAt("broadcast") /\ Broadcast /\ MainGoto("join")
  /\ UNCHANGED <<signals, setup, regpipe, pool, conn, masked, clients, rejected, killed, faults>>

\* Mutant: only one worker is joined.
JoinedOne == \E w \in Workers : wpc[w] = "exited"
Joined == \A w \in Workers : wpc[w] = "exited"

\* The register pipe is closed, free_queue rejects what is left in the queue.
Exit ==
  /\ MainAt("join") /\ Joined
  /\ rejected' = rejected \cup {queue[i] : i \in DOMAIN queue}
  /\ queue' = << >> /\ regpipe' = << >> /\ MainGoto("exited")
  /\ UNCHANGED <<signals, setup, queue_lock, terminating, workers, clients, killed, faults>>

Main == \/ Check \/ EnterRead \/ Read \/ Eintr \/ Dump \/ Enqueue
        \/ Stop \/ Wake \/ Exit

----------------------------------------------------------------------------
(* connect_clients: a worker.                                              *)

Server == <<signals, main, regpipe>>

CheckTermination(w) ==
  /\ At(w, "check") /\ Goto(w, IF terminating THEN "exited" ELSE "lock")
  /\ UNCHANGED <<Server, pool, conn, masked, clients, rejected, killed, faults>>

Lock(w) ==
  /\ At(w, "lock") /\ queue_lock = Free
  /\ queue_lock' = w /\ Goto(w, "test")
  /\ UNCHANGED <<Server, queue, terminating, conn, masked, clients, rejected, killed, faults>>

\* isEmpty holds: pthread_cond_wait releases the lock and sleeps.
Wait(w) ==
  /\ At(w, "test") /\ queue = << >>
  /\ queue_lock' = Free /\ Goto(w, "wait")
  /\ UNCHANGED <<Server, queue, terminating, conn, masked, clients, rejected, killed, faults>>

SpuriousWakeup(w) ==
  /\ At(w, "wait") /\ Goto(w, "woken") /\ Fault
  /\ UNCHANGED <<Server, pool, conn, masked, clients, rejected, killed>>

\* pthread_cond_wait returns with the lock.
Relock(w) ==
  /\ At(w, "woken") /\ queue_lock = Free
  /\ queue_lock' = w /\ Goto(w, "recheck")
  /\ UNCHANGED <<Server, queue, terminating, conn, masked, clients, rejected, killed, faults>>

Recheck(w) ==
  /\ At(w, "recheck")
  /\ \/ /\ terminating /\ Goto(w, "exited") /\ queue_lock' = Free
     \/ /\ ~terminating /\ Goto(w, "test") /\ UNCHANGED queue_lock
  /\ UNCHANGED <<Server, queue, terminating, conn, masked, clients, rejected, killed, faults>>

\* Mutant: the connection stays in the queue.
PopNothing(w) == conn' = [conn EXCEPT ![w] = Head(queue)] /\ UNCHANGED queue
\* Mutant: the paths are not copied before the connection is freed.
PopLost(w) == queue' = Tail(queue) /\ UNCHANGED conn
Pop(w) == conn' = [conn EXCEPT ![w] = Head(queue)] /\ queue' = Tail(queue)

Dequeue(w) ==
  /\ At(w, "test") /\ queue # << >>
  /\ Pop(w) /\ queue_lock' = Free /\ Goto(w, "open_resp")
  /\ UNCHANGED <<Server, terminating, masked, clients, rejected, killed, faults>>

Hangup(w) == conn' = [conn EXCEPT ![w] = Nobody] /\ Goto(w, "check")

\* The two opens of the response pipe meet.
OpenResp(w) ==
  /\ At(w, "open_resp") /\ cpc[conn[w]] = "open_resp"
  /\ Goto(w, "send_id") /\ ClientGoto(conn[w], "read_id")
  /\ UNCHANGED <<Server, pool, conn, masked, greeted, rejected, killed, faults>>

OpenFail(w) ==
  /\ At(w, "open_resp") \/ At(w, "open_req")
  /\ Fault /\ Hangup(w) /\ rejected' = rejected \cup {conn[w]}
  /\ UNCHANGED <<Server, pool, masked, clients, killed>>

SendId(w) ==
  /\ At(w, "send_id") /\ cpc[conn[w]] # "crashed"
  /\ greeted' = greeted \cup {conn[w]} /\ Goto(w, "open_req")
  /\ UNCHANGED <<Server, pool, conn, masked, cpc, rejected, killed, faults>>

\* The client has died: EPIPE, or SIGPIPE for a worker that has not yet run
\* handle_requests, where it is blocked.
SendIdFail(w) ==
  /\ At(w, "send_id") /\ cpc[conn[w]] = "crashed"
  /\ \/ /\ w \in masked /\ Hangup(w)
        /\ rejected' = rejected \cup {conn[w]} /\ UNCHANGED killed
     \/ /\ w \notin masked /\ killed' = TRUE
        /\ UNCHANGED <<wpc, conn, rejected>>
  /\ UNCHANGED <<Server, pool, masked, clients, faults>>

\* The two opens of the request pipe meet, handle_requests blocks SIGPIPE.
OpenReq(w) ==
  /\ At(w, "open_req") /\ cpc[conn[w]] = "open_req"
  /\ Goto(w, "serve") /\ ClientGoto(conn[w], "session") /\ masked' = masked \cup {w}
  /\ UNCHANGED <<Server, pool, conn, greeted, rejected, killed, faults>>

\* handle_requests reads OP_QUIT, or the end of the pipe of a dead client.
EndSession(w) ==
  /\ At(w, "serve") /\ cpc[conn[w]] \in {"ended", "crashed"}
  /\ Hangup(w)
  /\ UNCHANGED <<Server, pool, masked, clients, rejected, killed, faults>>

Run(w) == \/ CheckTermination(w) \/ Lock(w) \/ Wait(w) \/ Relock(w) \/ Recheck(w)
          \/ Dequeue(w) \/ OpenResp(w) \/ SendId(w) \/ SendIdFail(w) \/ OpenReq(w)
          \/ EndSession(w)

----------------------------------------------------------------------------
(* ems_setup and ems_quit: a client.                                       *)

Down == killed \/ mpc = "exited"
Rest == <<signals, main, pool, workers, rejected, killed>>

\* The setup message is written; without a server the register pipe is gone.
Register(c) ==
  /\ cpc[c] = "new"
  /\ \/ ~Down /\ regpipe' = Append(regpipe, c) /\ ClientGoto(c, "open_resp")
     \/ Down /\ ClientGoto(c, "ended") /\ UNCHANGED regpipe
  /\ UNCHANGED <<Rest, greeted, faults>>

\* The session id, or the end of a pipe no process writes any more.
ReadId(c) ==
  /\ cpc[c] = "read_id" /\ (c \in greeted \/ Down) /\ ClientGoto(c, "open_req")
  /\ UNCHANGED <<Rest, regpipe, greeted, faults>>

Quit(c) ==
  /\ cpc[c] = "session" /\ ClientGoto(c, "ended")
  /\ UNCHANGED <<Rest, regpipe, greeted, faults>>

Crash(c) ==
  /\ cpc[c] \in Linked /\ Fault /\ ClientGoto(c, "crashed")
  /\ UNCHANGED <<Rest, regpipe, greeted>>

Client(c) == ReadId(c) \/ Quit(c)

----------------------------------------------------------------------------

Next ==
  \/ Sigint \/ Sigusr1 \/ Main
  \/ EnqueueFail
  \/ \E w \in Workers : Run(w) \/ SpuriousWakeup(w) \/ OpenFail(w)
  \/ \E c \in Clients : Client(c) \/ Register(c) \/ Crash(c)

Spec == Init /\ [][Next]_vars

\* The threads are scheduled, and a client in a session ends it in the end;
\* registrations, signals and faults need not happen.
Fairness ==
  /\ WF_vars(Main)
  /\ \A w \in Workers : WF_vars(Run(w))
  /\ \A c \in Clients : WF_vars(Client(c))
FairSpec == Spec /\ Fairness

----------------------------------------------------------------------------
(* Properties.                                                             *)

\* Every variable has its type; a thread has a connection exactly while it is
\* busy with one.
TypeOK ==
  /\ terminate \in BOOLEAN /\ usr1_sig \in BOOLEAN /\ usr1s \in 0 .. MaxUsr1
  /\ mpc \in MainLabels /\ setup \in Clients \cup {Nobody}
  /\ regpipe \in Seq(Clients) /\ queue \in Seq(Clients)
  /\ queue_lock \in Workers \cup {Free} /\ terminating \in BOOLEAN
  /\ wpc \in [Workers -> WorkerLabels] /\ conn \in [Workers -> Clients \cup {Nobody}]
  /\ masked \subseteq Workers
  /\ cpc \in [Clients -> ClientLabels] /\ greeted \subseteq Clients
  /\ rejected \subseteq Clients /\ killed \in BOOLEAN /\ faults \in 0 .. MaxFaults
  /\ setup # Nobody <=> mpc = "enqueue"
  /\ \A w \in Workers : conn[w] # Nobody <=> wpc[w] \in Connected

\* The connection requests no worker has taken yet, oldest first.
Backlog == queue \o (IF setup = Nobody THEN << >> ELSE <<setup>>) \o regpipe

Waiting(c) == {i \in DOMAIN Backlog : Backlog[i] = c}
Serving(c) == {w \in Workers : conn[w] = c}

\* While the server runs, a client that has registered and is not finished is
\* in one place: in the backlog, with one worker, or reported as rejected.  No
\* request is lost, and no two workers share a client.
OneOwner ==
  ~Down => \A c \in Clients : cpc[c] \in Linked =>
    Cardinality(Waiting(c)) + Cardinality(Serving(c)) + (IF c \in rejected THEN 1 ELSE 0) = 1

\* No worker sleeps while a connection request is in the queue.
NobodySleepsOnWork == queue # << >> => \A w \in Workers : wpc[w] # "wait"

\* When the server frees the queue and the events, every worker has returned,
\* and every session has been allowed to end.
SessionsDrained ==
  mpc = "exited" => /\ \A w \in Workers : wpc[w] = "exited"
                    /\ \A c \in Clients : cpc[c] \in Linked \ {"open_resp"} => c \in rejected

\* Connections are served in the order of registration: the backlog only loses
\* its oldest request, gets a new one at its end, or drops a rejected one.
FirstComeFirstServed ==
  [][\/ Backlog' = Backlog
     \/ Backlog # << >> /\ Backlog' = Tail(Backlog)
     \/ \E c \in Clients : Backlog' = Append(Backlog, c)
     \/ rejected' # rejected
     \/ mpc' = "exited"]_vars

\* A registered client gets its session unless the server stops or has
\* reported a failure: fewer faults than workers cannot stall the pool.
EveryClientServed ==
  \A c \in Clients :
    cpc[c] = "open_resp" ~> \/ cpc[c] \in {"session", "ended", "crashed"}
                            \/ c \in rejected \/ terminate \/ Down

\* Once the main thread has told the workers to stop, they all return, and
\* the server closes, as the README says it does on SIGINT.
WorkersStop == terminating ~> (\A w \in Workers : wpc[w] = "exited") \/ Down

\* The server ends only on SIGINT: the README says it runs an infinite loop.
RunsUntilSigint == killed => terminate

=============================================================================
