------------------------------- MODULE Session ------------------------------
(***************************************************************************)
(* One session of Part 2: the client's main loop and client/api.c at one   *)
(* end of two pipes, handle_requests of server/sessions.c at the other.    *)
(*                                                                         *)
(* A request is a sequence of fields, one write each; <<k, i>> is field i  *)
(* of the client's k-th request, and field 1 is the operation code.  Every *)
(* field is shorter than PIPE_BUF, so it is written whole or not at all.   *)
(* The response pipe carries 32-bit words: an int is one word, a size_t is *)
(* two, the lower one first.  What an operation does to the events is left *)
(* to EmsServer; here it may have any answer.                              *)
(***************************************************************************)
EXTENDS Integers, Sequences, SequencesExt

CONSTANTS
  Seatings,    \* <<rows, cols, seats>>: what SHOW finds, seats row by row
  Listings,    \* sequences of event ids: what LIST finds
  Garbage,     \* a word of memory that was never written
  MaxCommands, \* bound: commands of the .jobs file
  MaxFaults    \* bound: crashes, read errors and failed writes of the output

ASSUME SeatingsAssumption ==
  \A s \in Seatings : s[1] \in Nat /\ s[2] \in Nat /\ s[3] \in [1 .. s[1] * s[2] -> Nat]
ASSUME ListingsAssumption == \A l \in Listings : l \in Seq(Nat)
ASSUME GarbageAssumption == Garbage \notin Nat
ASSUME BoundsAssumption == MaxCommands \in Nat /\ MaxFaults \in Nat

Commands == {"create", "reserve", "show", "list"}
Ops == Commands \cup {"quit"}

\* How many fields the client writes for an operation, and the server reads.
Sends  == [create |-> 3, reserve |-> 5, show |-> 2, list |-> 1, quit |-> 1]
\* Mutant: ys is not read.
AwaitsFour == [create |-> 3, reserve |-> 4, show |-> 2, list |-> 1, quit |-> 1]
Awaits == [create |-> 3, reserve |-> 5, show |-> 2, list |-> 1, quit |-> 1]

VARIABLES
  cpc,      \* where the client is; "quit" and "dead" are its ends
  sent,     \* the operations it has begun to request
  field,    \* the fields of the last request it has written
  need,     \* how many words of seats or ids it is going to read
  words,    \* the seats or ids it has read
  returned, \* what its operations returned, and what they printed
  reqs,     \* the request pipe
  resps,    \* the response pipe
  wpc,      \* where the worker is: "read", "exec", "answer" or "closed"
  got,      \* the fields of the current request it has read
  answer,   \* the writes of the current answer still to do
  executed, \* the requests it has executed, with their answers
  faults, outFailed

client == <<cpc, sent, field, need, words, returned>>
worker == <<wpc, got, answer, executed>>
vars == <<client, worker, reqs, resps, faults, outFailed>>

ClientEnded == cpc \in {"quit", "dead"}

Init ==
  /\ cpc = "start" /\ sent = << >> /\ field = 0 /\ need = 0 /\ words = << >>
  /\ returned = << >> /\ reqs = << >> /\ resps = << >>
  /\ wpc = "read" /\ got = << >> /\ answer = << >> /\ executed = << >>
  /\ faults = 0 /\ outFailed = FALSE

----------------------------------------------------------------------------
(* The worker.                                                             *)

\* The switch of handle_requests: a byte that is no operation code is skipped.
IsOp(f) == f[2] = 1
OpOf(f) == sent[f[1]]

ReadField ==
  LET read == Append(got, Head(reqs))
      op   == OpOf(read[1])
  IN /\ wpc = "read" /\ reqs # << >> /\ reqs' = Tail(reqs)
     /\ \/ ~IsOp(read[1]) /\ got' = << >> /\ UNCHANGED wpc
        \/ IsOp(read[1]) /\ Len(read) < Awaits[op] /\ got' = read /\ UNCHANGED wpc
        \/ /\ IsOp(read[1]) /\ Len(read) = Awaits[op] /\ got' = read
           /\ wpc' = IF op = "quit" THEN "closed" ELSE "exec"
     /\ UNCHANGED <<client, resps, answer, executed, faults, outFailed>>

\* The worker closes both pipes, and what is in the request pipe is gone.
Close == wpc' = "closed" /\ reqs' = << >>

\* Mutant: the end of the pipe is not taken for the end of the session.
EofIgnored ==
  /\ wpc = "read" /\ reqs = << >> /\ ClientEnded
  /\ UNCHANGED vars

\* read returns 0: the client is CLIENT_UNRESPONSIVE.
Eof ==
  /\ wpc = "read" /\ reqs = << >> /\ ClientEnded /\ Close
  /\ UNCHANGED <<client, resps, got, answer, executed, faults, outFailed>>

\* read returns -1 (CLIENT_FAILED), or the server process dies.
WorkerFail ==
  /\ wpc # "closed" /\ faults < MaxFaults /\ faults' = faults + 1 /\ Close
  /\ UNCHANGED <<client, resps, got, answer, executed, outFailed>>

\* Mutant: the SHOW of an unknown event is answered by its size alone.
AnswersUnended(op) ==
  CASE op \in {"create", "reserve"} -> {<< <<0>> >>, << <<1>> >>}
    [] op = "show" -> {<< <<0, 0, 0, 0>> >>}
         \cup {<< <<s[1], 0, s[2], 0>>, s[3], <<0>> >> : s \in Seatings}
    [] op = "list" -> {<< <<Len(l), 0>> >> \o [i \in 1 .. Len(l) |-> <<l[i]>>] \o << <<0>> >>
                         : l \in Listings}

\* The writes an operation makes to the response pipe, the status last.
Answers(op) ==
  CASE op \in {"create", "reserve"} -> {<< <<0>> >>, << <<1>> >>}
    [] op = "show" -> {<< <<0, 0, 0, 0>>, <<1>> >>}
         \cup {<< <<s[1], 0, s[2], 0>>, s[3], <<0>> >> : s \in Seatings}
    [] op = "list" -> {<< <<Len(l), 0>> >> \o [i \in 1 .. Len(l) |-> <<l[i]>>] \o << <<0>> >>
                         : l \in Listings}

Execute ==
  /\ wpc = "exec" /\ wpc' = "answer"
  /\ answer' \in Answers(OpOf(got[1]))
  /\ executed' = Append(executed, [fields |-> got, writes |-> answer'])
  /\ UNCHANGED <<client, reqs, resps, got, faults, outFailed>>

WriteAnswer ==
  /\ wpc = "answer" /\ ~ClientEnded
  /\ resps' = resps \o Head(answer)
  /\ answer' = Tail(answer)
  /\ \/ answer' = << >> /\ wpc' = "read" /\ got' = << >>
     \/ answer' # << >> /\ UNCHANGED <<wpc, got>>
  /\ UNCHANGED <<client, reqs, executed, faults, outFailed>>

\* EPIPE; what ems_show and ems_list_events do with it ends the same way.
AnswerFail ==
  /\ wpc = "answer" /\ ClientEnded /\ Close
  /\ UNCHANGED <<client, resps, got, answer, executed, faults, outFailed>>

----------------------------------------------------------------------------
(* The client.                                                             *)

HungUp == wpc = "closed"
Op == Last(sent)

\* main goes on to the commands, or finds that it cannot open its files.
Start ==
  /\ cpc = "start" /\ cpc' \in {"next", "quit"}
  /\ UNCHANGED <<sent, field, need, words, returned, reqs, resps, worker, faults, outFailed>>

\* The next command of the job file, or its end.
Command ==
  /\ cpc = "next" /\ cpc' = "send" /\ field' = 0
  /\ \E op \in Ops :
       /\ op # "quit" => Len(sent) < MaxCommands
       /\ sent' = Append(sent, op)
  /\ UNCHANGED <<need, words, returned, reqs, resps, worker, faults, outFailed>>

\* Mutant: the client of a SHOW goes on as that of a CREATE.
WaitsStatus(op) == IF op = "quit" THEN "quit" ELSE "status"

\* Where the client waits for the first part of the answer.
Waits(op) ==
  CASE op \in {"create", "reserve"} -> "status"
    [] op = "show" -> "size"
    [] op = "list" -> "count"
    [] op = "quit" -> "quit"

SendField ==
  /\ cpc = "send" /\ ~HungUp
  /\ field' = field + 1
  /\ reqs' = Append(reqs, <<Len(sent), field'>>)
  /\ cpc' = IF field' = Sends[Op] THEN Waits(Op) ELSE "send"
  /\ UNCHANGED <<sent, need, words, returned, resps, worker, faults, outFailed>>

\* Nobody reads the request pipe any more: SIGPIPE ends the client.
SendSigpipe ==
  /\ cpc = "send" /\ HungUp /\ cpc' = "dead"
  /\ UNCHANGED <<sent, field, need, words, returned, reqs, resps, worker, faults, outFailed>>

\* safe_read: n words, or what there is when the worker has hung up.
Reads(n) ==
  /\ Len(resps) >= n \/ HungUp
  /\ resps' = SubSeq(resps, n + 1, Len(resps))
Read(n) == SubSeq(resps, 1, IF n <= Len(resps) THEN n ELSE Len(resps))

Return(status) ==
  /\ returned' = Append(returned, [status |-> status, printed |-> words])
  /\ words' = << >> /\ need' = 0 /\ cpc' = "next"

\* More words than will ever come.
Huge == 100

ClientStep == UNCHANGED <<sent, field, reqs, worker, faults>>

\* num_rows and num_cols.  A number beyond 32 bits comes of words that were
\* meant for another answer: malloc fails, or the client waits for that many
\* seats, or their product wraps and it reads beyond its array.
ReadSize ==
  LET w == Read(4)
  IN /\ cpc = "size" /\ Reads(4) /\ ClientStep /\ UNCHANGED outFailed
     /\ \/ Len(w) = 4 /\ w[2] = 0 /\ w[4] = 0
           /\ need' = w[1] * w[3] /\ cpc' = "words" /\ UNCHANGED <<words, returned>>
        \/ Len(w) = 4 /\ ~(w[2] = 0 /\ w[4] = 0)
           /\ need' = Huge /\ cpc' \in {"words", "dead"} /\ UNCHANGED <<words, returned>>
        \/ ~(Len(w) = 4 /\ w[2] = 0 /\ w[4] = 0) /\ Return(1)
        \/ Len(w) \in 1 .. 3 /\ cpc' = "dead" /\ UNCHANGED <<need, words, returned>>

\* The number of events; at the end of the pipe it keeps its initial 0.
ReadCount ==
  LET w == Read(2) \o <<0, 0>>
  IN /\ cpc = "count" /\ Reads(2) /\ ClientStep /\ UNCHANGED outFailed
     /\ \/ w[2] = 0 /\ need' = w[1] /\ cpc' = "words" /\ UNCHANGED <<words, returned>>
        \/ w[2] # 0 /\ need' = Huge /\ cpc' = "words" /\ UNCHANGED <<words, returned>>
        \/ w[2] # 0 /\ Return(1)

\* The seats or ids; at the end of the pipe the rest of the array is garbage.
ReadWords ==
  LET w == Read(need)
  IN /\ cpc = "words" /\ Reads(need) /\ ClientStep /\ UNCHANGED outFailed
     /\ words' = w \o [i \in 1 .. need - Len(w) |-> Garbage]
     /\ cpc' = "print"
     /\ UNCHANGED <<need, returned>>

Output ==
  /\ cpc = "print" /\ cpc' = "status" /\ ClientStep
  /\ UNCHANGED <<need, words, returned, resps, outFailed>>

\* The output file cannot be written: the operation returns at once, and its
\* status stays in the response pipe.
OutputFail ==
  /\ cpc = "print" /\ faults < MaxFaults /\ faults' = faults + 1
  /\ outFailed' = TRUE /\ Return(1)
  /\ UNCHANGED <<sent, field, reqs, worker, resps>>

\* Mutant: the status is returned although none was read.
ReadStatusUninit ==
  LET w == Read(1)
  IN /\ cpc = "status" /\ Reads(1) /\ ClientStep /\ UNCHANGED outFailed
     /\ Return(IF w = << >> THEN Garbage ELSE w[1])

\* Mutant: the end of the pipe is not told from a status of 0.
ReadStatusUnchecked ==
  LET w == Read(1)
  IN /\ cpc = "status" /\ Reads(1) /\ ClientStep /\ UNCHANGED outFailed
     /\ Return(IF w = << >> THEN 0 ELSE w[1])

ReadStatus ==
  LET w == Read(1)
  IN /\ cpc = "status" /\ Reads(1) /\ ClientStep /\ UNCHANGED outFailed
     /\ Return(IF w = << >> THEN 1 ELSE w[1])

Crash ==
  /\ ~ClientEnded /\ faults < MaxFaults /\ faults' = faults + 1 /\ cpc' = "dead"
  /\ UNCHANGED <<sent, field, need, words, returned, reqs, resps, worker, outFailed>>

----------------------------------------------------------------------------

Worker == ReadField \/ Eof \/ Execute \/ WriteAnswer \/ AnswerFail
Client == \/ Start \/ Command \/ SendField \/ SendSigpipe
          \/ ReadSize \/ ReadCount \/ ReadWords \/ Output \/ ReadStatus
Fault  == WorkerFail \/ OutputFail \/ Crash

Next == Worker \/ Client \/ Fault
Spec == Init /\ [][Next]_vars

\* Both processes are scheduled, and the job file ends.
FairSpec == Spec /\ WF_vars(Worker) /\ WF_vars(Client)

----------------------------------------------------------------------------
(* Properties.                                                             *)

Places == {"start", "next", "send", "size", "count", "words", "print", "status",
           "quit", "dead"}
Word == Nat \cup {Garbage}
Fields == Seq((1 .. MaxCommands + 1) \X (1 .. 5))

\* Every variable holds a value of its type.
TypeOK ==
  /\ cpc \in Places /\ sent \in Seq(Ops) /\ field \in 0 .. 5 /\ need \in Nat
  /\ words \in Seq(Word)
  /\ returned \in Seq([status : Nat, printed : Seq(Word)])
  /\ reqs \in Fields /\ got \in Fields /\ resps \in Seq(Nat)
  /\ wpc \in {"read", "exec", "answer", "closed"} /\ answer \in Seq(Seq(Nat))
  /\ faults \in 0 .. MaxFaults /\ outFailed \in BOOLEAN

\* The worker executes the requests of the client, each once, in order and with
\* all its fields: a client that dies in the middle of a request, or that takes
\* the wrong words for its answer, never has half a request executed.
ExecutedAsSent ==
  \A k \in 1 .. Len(executed) :
    executed[k].fields = [i \in 1 .. Sends[sent[k]] |-> <<k, i>>]

Status(writes) == Last(writes)[1]
\* What the client should print: the seats or ids, without numbers and status.
Content(writes) == FlattenSeq(SubSeq(writes, 2, Len(writes) - 1))
Done(k) ==
  /\ k <= Len(executed)
  /\ Status(executed[k].writes) = 0
  /\ returned[k].printed = Content(executed[k].writes)

\* An operation of the client returns 0 only if the server has executed that
\* request with status 0, and prints what the server sent of it: neither the
\* end of the pipe nor a crash of the server is taken for success.  A client
\* whose output could not be written is excepted, see ReserveTold.
ReturnsTrue ==
  ~outFailed => \A k \in 1 .. Len(returned) : returned[k].status = 0 => Done(k)

\* Between two commands both pipes are empty and the worker waits for the next:
\* the two ends agree where each request and each answer stops.
InStep ==
  cpc = "next" /\ ~HungUp /\ ~outFailed =>
    reqs = << >> /\ resps = << >> /\ wpc = "read" /\ got = << >>

\* The client waits for the rest of an answer, the worker for a request.
ClientWaits ==
  /\ ~HungUp
  /\ \/ cpc = "size" /\ Len(resps) < 4
     \/ cpc = "count" /\ Len(resps) < 2
     \/ cpc = "words" /\ Len(resps) < need
     \/ cpc = "status" /\ resps = << >>
WorkerWaits == wpc = "read" /\ reqs = << >> /\ ~ClientEnded

\* The two ends never wait for each other: the client reads as many words as the
\* worker writes to each answer, the worker as many fields as the client writes.
NeverBothWait == ~outFailed => ~(ClientWaits /\ WorkerWaits)

\* "return 0 if the reservation was created successfully, 1 otherwise", says
\* api.h of the client's ems_reserve.
ReserveTold ==
  \A k \in 1 .. Len(returned) :
    sent[k] = "reserve" /\ returned[k].status = 0 =>
      k <= Len(executed) /\ Status(executed[k].writes) = 0

\* The session ends and the worker is free for the next client, whatever dies
\* or fails; so does the client, unless its output has failed.
SessionEnds ==
  (ClientEnded ~> HungUp) /\ (cpc = "start" ~> (ClientEnded \/ outFailed))

=============================================================================
