---------------------------- MODULE SessionProofs ---------------------------
(***************************************************************************)
(* What holds in every session, for every value of the constants.          *)
(*                                                                         *)
(* SentInv: the request pipe holds exactly the fields from the one the     *)
(* worker reads next to the one the client has written last, whatever dies *)
(* in between; so the worker executes whole requests, in order.            *)
(* SyncInv: what the client has read of an answer, what is in the response *)
(* pipe and what the worker still has to write make up that answer, until  *)
(* the client's output fails; so a client that returns 0 has read all of   *)
(* it, and between two commands nothing is left in either pipe.            *)
(***************************************************************************)
EXTENDS Session, Flatten, SequenceTheorems, TLAPS

----------------------------------------------------------------------------
(* The answers.                                                            *)

\* An answer is a sequence of writes and ends in the one of the status.
Ended(W) ==
  /\ W \in Seq(Seq(Nat)) /\ W # << >>
  /\ Last(W) = <<Status(W)>> /\ Status(W) \in Nat

\* That of SHOW or LIST begins with the header, a number of n words that says
\* how many follow.
Headed(W, n, count) ==
  /\ Len(W) >= 2 /\ Len(W[1]) = n /\ \A i \in 1 .. n : i % 2 = 0 => W[1][i] = 0
  /\ count \in Nat /\ Len(Content(W)) = count

\* The answers of CREATE and RESERVE are their status;
LEMMA StatusAnswer ==
  ASSUME NEW W \in Answers("create") \cup Answers("reserve")
  PROVE  Ended(W) /\ Len(W) = 1
<1>1. W \in {<< <<0>> >>, << <<1>> >>}
  BY DEF Answers
<1>2. ASSUME NEW z \in Nat, W = << <<z>> >>
      PROVE  Ended(W) /\ Len(W) = 1
  BY <1>2 DEF Ended, Last, Status
<1> QED
  BY <1>1, <1>2

\* those of SHOW are the size, the seats, if there are any, and the status;
LEMMA ShowAnswer ==
  ASSUME NEW W \in Answers("show")
  PROVE  Ended(W) /\ Headed(W, 4, W[1][1] * W[1][3])
<1>1. CASE W = << <<0, 0, 0, 0>>, <<1>> >>
  <2>1. Len(W) = 2 /\ W[1] = <<0, 0, 0, 0>> /\ W[2] = <<1>>
    BY <1>1
  <2>2. Ended(W)
    BY <1>1, <2>1 DEF Ended, Last, Status
  <2>3. Content(W) = << >>
    <3>1. SubSeq(W, 2, Len(W) - 1) = << >>
      BY <2>1, SubSeqEmpty
    <3> QED
      BY <3>1, FlattenEmpty DEF Content
  <2>4. W[1][1] * W[1][3] = 0
    BY <2>1
  <2>5. \A i \in 1 .. 4 : i % 2 = 0 => W[1][i] = 0
    BY <2>1
  <2> QED
    BY <2>1, <2>2, <2>3, <2>4, <2>5 DEF Headed
<1>2. ASSUME NEW s \in Seatings, W = << <<s[1], 0, s[2], 0>>, s[3], << 0 >> >>
      PROVE  Ended(W) /\ Headed(W, 4, W[1][1] * W[1][3])
  <2>1. PICK n \in Nat : n = s[1] * s[2]
    BY SeatingsAssumption
  <2>2. s[1] \in Nat /\ s[2] \in Nat /\ s[3] \in Seq(Nat) /\ Len(s[3]) = n
    BY <2>1, SeatingsAssumption
  <2>3. PICK z : z = s[3]
    OBVIOUS
  <2>4. PICK h : h = <<s[1], 0, s[2], 0>>
    OBVIOUS
  <2>5. h \in Seq(Nat) /\ Len(h) = 4 /\ h[1] = s[1] /\ h[2] = 0 /\ h[3] = s[2] /\ h[4] = 0
    BY <2>2, <2>4
  <2>6. W = <<h, z, <<0>> >>
    BY <1>2, <2>3, <2>4
  <2>7. z \in Seq(Nat) /\ Len(z) = n
    BY <2>2, <2>3
  <2>8. Ended(W)
    BY <2>5, <2>6, <2>7 DEF Ended, Last, Status
  <2>9. Len(W) = 3 /\ W[1] = h /\ W[2] = z
    BY <2>6
  <2>10. Content(W) = z
    <3>1. SubSeq(W, 2, Len(W) - 1) = <<z>>
      <4>1. W \in Seq(Seq(Nat)) /\ Len(W) - 1 = 2 /\ 2 \in 1 .. Len(W) /\ 2 \in 2 .. Len(W)
        BY <2>8, <2>9 DEF Ended
      <4>2. SubSeq(W, 2, 2) = <<W[2]>> \o SubSeq(W, 2 + 1, 2)
        BY <4>1, SubSeqRecursiveFirst
      <4>3. SubSeq(W, 2 + 1, 2) = << >> /\ <<z>> \in Seq(Seq(Nat))
        BY <2>7, SubSeqEmpty
      <4>4. <<z>> \o << >> = <<z>>
        BY <4>3, ConcatEmptySeq
      <4> QED
        BY <2>9, <4>1, <4>2, <4>3, <4>4
    <3>2. <<z>> = Append(<< >>, z) /\ << >> \in Seq(Seq(Nat)) /\ << >> \o z = z
      BY <2>7, ConcatEmptySeq
    <3>3. FlattenSeq(<<z>>) = z
      BY <2>7, <3>2, FlattenAppend, FlattenEmpty
    <3> QED
      BY <3>1, <3>3 DEF Content
  <2>11. W[1][1] * W[1][3] = n
    BY <2>1, <2>5, <2>9
  <2>12. \A i \in 1 .. 4 : i % 2 = 0 => W[1][i] = 0
    BY <2>5, <2>9
  <2> QED
    BY <2>5, <2>7, <2>8, <2>9, <2>10, <2>11, <2>12 DEF Headed
<1>3. \/ W = << <<0, 0, 0, 0>>, <<1>> >>
      \/ \E s \in Seatings : W = << <<s[1], 0, s[2], 0>>, s[3], << 0 >> >>
  BY DEF Answers
<1> QED
  BY <1>1, <1>2, <1>3

\* those of LIST are the number of events, the events and the status.
LEMMA ListAnswer ==
  ASSUME NEW W \in Answers("list")
  PROVE  Ended(W) /\ Headed(W, 2, W[1][1])
<1>1. PICK l \in Listings :
        W = << <<Len(l), 0>> >> \o [i \in 1 .. Len(l) |-> <<l[i]>>] \o << <<0>> >>
  BY DEF Answers
<1>2. l \in Seq(Nat)
  BY ListingsAssumption
<1>3. PICK n \in Nat : n = Len(l)
  BY <1>2
<1>4. PICK b : b = [i \in 1 .. Len(l) |-> <<l[i]>>]
  OBVIOUS
<1>5. b \in Seq(Seq(Nat)) /\ FlattenSeq(b) = l /\ Len(b) = n
  <2>1. b \in Seq(Seq(Nat)) /\ FlattenSeq(b) = l
    BY <1>2, <1>4, FlattenWords
  <2>2. b = [i \in 1 .. n |-> <<l[i]>>]
    BY <1>3, <1>4
  <2>3. Len(b) = n
    BY <2>2
  <2> QED
    BY <2>1, <2>3
<1>6. PICK h : h = <<n, 0>>
  OBVIOUS
<1>7. h \in Seq(Nat) /\ Len(h) = 2 /\ h[1] = n /\ h[2] = 0
  BY <1>6
<1>8. PICK f : f = <<h>> \o b
  OBVIOUS
<1>9. /\ f \in Seq(Seq(Nat)) /\ Len(f) = n + 1 /\ f[1] = h
      /\ \A i \in 2 .. n + 1 : f[i] = b[i - 1]
  BY <1>5, <1>7, <1>8
<1>10. W = Append(f, <<0>>)
  BY <1>1, <1>3, <1>4, <1>6, <1>8, <1>9
<1>11. <<0>> \in Seq(Nat)
  OBVIOUS
<1>12. /\ W \in Seq(Seq(Nat)) /\ Len(W) = n + 2 /\ W[1] = h /\ W[n + 2] = <<0>>
       /\ \A i \in 1 .. n + 1 : W[i] = f[i]
  BY <1>9, <1>10, <1>11, AppendProperties
<1>13. Ended(W)
  BY <1>12 DEF Ended, Last, Status
<1>14. SubSeq(W, 2, n + 1) = b
  <2>1. SubSeq(W, 2, n + 1) \in Seq(Seq(Nat)) /\ Len(SubSeq(W, 2, n + 1)) = n
    BY <1>12
  <2>2. \A i \in 1 .. n : SubSeq(W, 2, n + 1)[i] = b[i]
    <3> SUFFICES ASSUME NEW i \in 1 .. n PROVE SubSeq(W, 2, n + 1)[i] = b[i]
      OBVIOUS
    <3>1. i + 1 \in 2 .. n + 1 /\ i + 1 \in 1 .. n + 1 /\ (i + 1) - 1 = i
      OBVIOUS
    <3>2. SubSeq(W, 2, n + 1)[i] = W[i + 1]
      BY <1>12
    <3> QED
      BY <1>9, <1>12, <3>1, <3>2
  <2> QED
    BY <1>5, <2>1, <2>2, SeqEqual
<1>15. Content(W) = l /\ Len(l) = n
  <2>1. Len(W) - 1 = n + 1
    BY <1>12
  <2> QED
    BY <1>3, <1>5, <1>14, <2>1 DEF Content
<1> QED
  BY <1>7, <1>12, <1>13, <1>15 DEF Headed

\* The words of an answer to SHOW or LIST: the header, the content, the status.
LEMMA AnswerWords ==
  ASSUME NEW W, Ended(W), Len(W) >= 2
  PROVE  /\ Content(W) \in Seq(Nat) /\ W[1] \in Seq(Nat)
         /\ FlattenSeq(W) = W[1] \o (Content(W) \o <<Status(W)>>)
<1>1. W \in Seq(Seq(Nat)) /\ W[Len(W)] = <<Status(W)>> /\ Len(W) \in Nat
  BY DEF Ended, Last
<1>2. PICK m : m = SubSeq(W, 2, Len(W) - 1)
  OBVIOUS
<1>3. m \in Seq(Seq(Nat)) /\ FlattenSeq(W) = W[1] \o (FlattenSeq(m) \o W[Len(W)])
  BY <1>1, <1>2, FlattenEnds
<1>4. Content(W) = FlattenSeq(m) /\ FlattenSeq(m) \in Seq(Nat)
  BY <1>2, <1>3, FlattenType DEF Content
<1>5. W[1] \in Seq(Nat)
  BY <1>1, ElementOfSeq
<1> QED
  BY <1>1, <1>3, <1>4, <1>5

\* The words of an answer to CREATE or RESERVE: the status.
LEMMA StatusWords ==
  ASSUME NEW W, Ended(W), Len(W) = 1
  PROVE  Content(W) = << >> /\ FlattenSeq(W) = <<Status(W)>>
<1>1. W \in Seq(Seq(Nat)) /\ W = << <<Status(W)>> >> /\ <<Status(W)>> \in Seq(Nat)
  BY DEF Ended, Last
<1>2. SubSeq(W, 2, Len(W) - 1) = << >>
  BY SubSeqEmpty
<1>3. PICK z \in Seq(Nat) : z = <<Status(W)>>
  BY <1>1
<1>4. W = Append(<< >>, z) /\ << >> \in Seq(Seq(Nat)) /\ << >> \o z = z
  BY <1>1, <1>3, ConcatEmptySeq
<1>5. FlattenSeq(W) = z
  BY <1>4, FlattenAppend, FlattenEmpty
<1> QED
  BY <1>2, <1>3, <1>5, FlattenEmpty DEF Content

----------------------------------------------------------------------------
(* The inductive invariant.                                                *)

\* The fields of the client's k-th request.
Full(k) == [i \in 1 .. Sends[sent[k]] |-> <<k, i>>]
Waiting == {"size", "count", "words", "print", "status"}

\* Where the client is says which request it is at and how far.
ClientInv ==
  /\ Len(sent) <= MaxCommands + 1
  /\ sent # << >> /\ Op # "quit" => Len(sent) <= MaxCommands
  /\ sent # << >> => field <= Sends[Op]
  /\ cpc = "start" => sent = << >>
  /\ cpc = "next" => sent = << >> \/ (field = Sends[Op] /\ Op # "quit")
  /\ cpc = "send" => sent # << >> /\ field < Sends[Op]
  /\ cpc \in Waiting => sent # << >> /\ field = Sends[Op] /\ Op # "quit"
  /\ cpc = "size" => Op = "show"
  /\ cpc = "count" => Op = "list"
  /\ cpc \in {"words", "print"} => Op \in {"show", "list"}

\* Where the worker is says which request it is at and how far.
WorkerInv ==
  /\ Len(executed) <= Len(sent)
  /\ wpc = "read" =>
       /\ got = [i \in 1 .. Len(got) |-> <<Len(executed) + 1, i>>]
       /\ got # << >> => Len(executed) < Len(sent) /\ Len(got) < Sends[sent[Len(executed) + 1]]
  /\ wpc = "exec" => /\ Len(executed) < Len(sent) /\ sent[Len(executed) + 1] # "quit"
                     /\ got = Full(Len(executed) + 1)
  /\ wpc = "answer" => answer # << >> /\ Len(Last(answer)) = 1

\* The field the client writes next, the field that comes after another, and the
\* field the worker reads next.
NextField ==
  IF sent = << >> \/ field = Sends[Op] THEN <<Len(sent) + 1, 1>> ELSE <<Len(sent), field + 1>>
After(f) == IF f[2] = Sends[sent[f[1]]] THEN <<f[1] + 1, 1>> ELSE <<f[1], f[2] + 1>>
Awaited ==
  CASE wpc = "read"   -> <<Len(executed) + 1, Len(got) + 1>>
    [] wpc = "exec"   -> <<Len(executed) + 2, 1>>
    [] wpc = "answer" -> <<Len(executed) + 1, 1>>

\* The request pipe holds the fields from the one the worker reads next to the
\* one the client has written last, each once and in order.
FieldsSent ==
  \A p \in 1 .. Len(reqs) : /\ reqs[p][1] \in 1 .. Len(sent)
                            /\ reqs[p][2] \in 1 .. Sends[sent[reqs[p][1]]]
InOrder == \A p \in 1 .. Len(reqs) - 1 : reqs[p + 1] = After(reqs[p])
PipeEnds ==
  IF reqs = << >> THEN Awaited = NextField
                  ELSE reqs[1] = Awaited /\ NextField = After(reqs[Len(reqs)])
PipeInv == wpc # "closed" => FieldsSent /\ InOrder /\ PipeEnds

\* The worker has executed whole requests, in order, each with an answer of its.
ExecutedInv ==
  /\ executed \in Seq([fields : Fields, writes : Seq(Seq(Nat))])
  /\ \A k \in 1 .. Len(executed) :
       /\ executed[k].fields = Full(k)
       /\ sent[k] # "quit" /\ executed[k].writes \in Answers(sent[k])

SentInv == TypeOK /\ ClientInv /\ WorkerInv /\ PipeInv /\ ExecutedInv

----------------------------------------------------------------------------
(* Facts the steps rest on.                                                *)

USE DEF client, worker, ClientEnded, HungUp, ClientStep, Close, Ops, Commands

\* An operation has one to five fields, the same at both ends.
LEMMA FieldCount ==
  ASSUME NEW op \in Ops
  PROVE  Sends[op] \in 1 .. 5 /\ Awaits[op] = Sends[op]
BY DEF Sends, Awaits

\* The last operation is one of them.
LEMMA OpTyped ==
  ASSUME TypeOK, sent # << >>
  PROVE  Op \in Ops /\ Op = sent[Len(sent)] /\ Len(sent) \in Nat \ {0}
BY DEF TypeOK, Op, Last

\* What has been read are words of the pipe, and the rest stays.
LEMMA ReadTyped ==
  ASSUME TypeOK, NEW n \in Nat
  PROVE  /\ Read(n) \in Seq(Nat) /\ SubSeq(resps, n + 1, Len(resps)) \in Seq(Nat)
         /\ Len(Read(n)) = IF n <= Len(resps) THEN n ELSE Len(resps)
         /\ \A i \in 1 .. Len(Read(n)) : Read(n)[i] = resps[i] /\ resps[i] \in Nat
<1>1. resps \in Seq(Nat) /\ Len(resps) \in Nat
  BY DEF TypeOK
<1> QED
  BY <1>1 DEF Read

\* The client waits for its answer at a place that fits the operation.
LEMMA WaitsTyped ==
  ASSUME NEW op \in Ops
  PROVE  /\ Waits(op) \in Places /\ (op = "quit" => Waits(op) = "quit")
         /\ (op # "quit" => Waits(op) \in {"status", "size", "count"})
         /\ (Waits(op) = "size" => op = "show") /\ (Waits(op) = "count" => op = "list")
BY DEF Waits, Places

\* An answer to any operation ends in its status.
LEMMA AnswerTyped ==
  ASSUME NEW op \in Commands, NEW W \in Answers(op)
  PROVE  Ended(W)
BY StatusAnswer, ShowAnswer, ListAnswer

\* A worker that executes has the first field of the next request.
LEMMA Executing ==
  ASSUME SentInv, wpc = "exec"
  PROVE  /\ got[1] = <<Len(executed) + 1, 1>> /\ OpOf(got[1]) = sent[Len(executed) + 1]
         /\ OpOf(got[1]) \in Commands /\ got = Full(Len(executed) + 1)
         /\ Len(executed) \in Nat /\ Len(executed) + 1 \in 1 .. Len(sent)
<1>1. /\ Len(executed) \in Nat /\ Len(sent) \in Nat /\ Len(executed) < Len(sent)
      /\ got = Full(Len(executed) + 1) /\ sent[Len(executed) + 1] # "quit"
  BY DEF SentInv, TypeOK, ExecutedInv, WorkerInv
<1>2. Len(executed) + 1 \in 1 .. Len(sent)
  BY <1>1
<1>3. PICK op \in Commands : op = sent[Len(executed) + 1]
  BY <1>1, <1>2 DEF SentInv, TypeOK
<1>4. got = [i \in 1 .. Sends[op] |-> <<Len(executed) + 1, i>>] /\ 1 \in 1 .. Sends[op]
  BY <1>1, <1>3, FieldCount DEF Full
<1>5. got[1] = <<Len(executed) + 1, 1>>
  BY <1>4
<1> QED
  BY <1>1, <1>2, <1>3, <1>5 DEF OpOf

----------------------------------------------------------------------------
(* Types.                                                                  *)

\* What the worker does keeps the types.
LEMMA TypeWorker ==
  ASSUME SentInv, Worker \/ WorkerFail
  PROVE  TypeOK'
<1> USE DEF SentInv, TypeOK
<1>1. CASE ReadField
  <2>1. reqs \in Fields /\ got \in Fields /\ reqs # << >>
    BY <1>1 DEF ReadField
  <2>2. Head(reqs) \in (1 .. MaxCommands + 1) \X (1 .. 5) /\ Tail(reqs) \in Fields
    BY <2>1, HeadTailProperties DEF Fields
  <2>3. Append(got, Head(reqs)) \in Fields /\ << >> \in Fields
    BY <2>1, <2>2, AppendProperties DEF Fields
  <2>4. wpc' \in {"read", "exec", "closed"} /\ got' \in Fields /\ reqs' \in Fields
    BY <1>1, <2>2, <2>3 DEF ReadField
  <2> QED
    BY <1>1, <2>4 DEF ReadField
<1>2. CASE Eof
  BY <1>2 DEF Eof, Fields
<1>3. CASE WorkerFail
  BY <1>3, BoundsAssumption DEF WorkerFail, Fields
<1>4. CASE Execute
  <2>1. OpOf(got[1]) \in Commands
    BY <1>4, Executing DEF Execute
  <2>2. answer' \in Seq(Seq(Nat))
    BY <1>4, <2>1, AnswerTyped DEF Execute, Ended
  <2> QED
    BY <1>4, <2>2 DEF Execute
<1>5. CASE WriteAnswer
  <2>1. answer # << >>
    BY <1>5 DEF WriteAnswer, WorkerInv
  <2>2. Head(answer) \in Seq(Nat) /\ Tail(answer) \in Seq(Seq(Nat))
    BY <2>1, HeadTailProperties
  <2>3. resps \o Head(answer) \in Seq(Nat)
    BY <2>2, ConcatProperties
  <2>4. << >> \in Fields
    BY DEF Fields
  <2>5. wpc' \in {"read", "answer"} /\ got' \in Fields
    BY <1>5, <2>4 DEF WriteAnswer
  <2> QED
    BY <1>5, <2>2, <2>3, <2>5 DEF WriteAnswer
<1>6. CASE AnswerFail
  BY <1>6 DEF AnswerFail, Fields
<1> QED
  BY <1>1, <1>2, <1>3, <1>4, <1>5, <1>6 DEF Worker

\* What an operation returns is a result.
LEMMA ReturnTyped ==
  ASSUME TypeOK, NEW status \in Nat, Return(status)
  PROVE  /\ returned' \in Seq([status : Nat, printed : Seq(Word)]) /\ words' \in Seq(Word)
         /\ need' \in Nat /\ cpc' \in Places
<1>1. [status |-> status, printed |-> words] \in [status : Nat, printed : Seq(Word)]
  BY DEF TypeOK
<1>2. returned \in Seq([status : Nat, printed : Seq(Word)])
  BY DEF TypeOK
<1>3. Append(returned, [status |-> status, printed |-> words])
        \in Seq([status : Nat, printed : Seq(Word)])
  BY <1>1, <1>2, AppendProperties
<1> QED
  BY <1>3 DEF Return, Places

\* What the client does keeps the types.
LEMMA TypeClient ==
  ASSUME SentInv, Client \/ OutputFail \/ Crash
  PROVE  TypeOK'
<1>0. /\ cpc \in Places /\ sent \in Seq(Ops) /\ field \in 0 .. 5 /\ need \in Nat
      /\ words \in Seq(Word) /\ returned \in Seq([status : Nat, printed : Seq(Word)])
      /\ reqs \in Fields /\ got \in Fields /\ resps \in Seq(Nat)
      /\ wpc \in {"read", "exec", "answer", "closed"} /\ answer \in Seq(Seq(Nat))
      /\ faults \in 0 .. MaxFaults /\ outFailed \in BOOLEAN
  BY DEF SentInv, TypeOK
<1>1. CASE Start
  BY <1>0, <1>1 DEF Start, TypeOK, Places
<1>2. CASE Command
  BY <1>0, <1>2, AppendProperties DEF Command, TypeOK, Places
<1>3. CASE SendField
  <2>1. sent # << >> /\ field < Sends[Op] /\ Len(sent) <= MaxCommands + 1
    BY <1>3 DEF SendField, SentInv, ClientInv
  <2>2. Op \in Ops /\ Sends[Op] \in 1 .. 5 /\ Len(sent) \in Nat \ {0}
    BY <2>1, OpTyped, FieldCount DEF SentInv
  <2>3. field + 1 \in 1 .. 5 /\ Len(sent) \in 1 .. MaxCommands + 1
    BY <1>0, <2>1, <2>2, BoundsAssumption
  <2>4. Append(reqs, <<Len(sent), field + 1>>) \in Fields
    BY <1>0, <2>3, AppendProperties DEF Fields
  <2>5. cpc' \in Places
    <3>1. Waits(Op) \in Places
      BY <2>2, WaitsTyped
    <3> QED
      BY <1>3, <3>1 DEF SendField, Places
  <2>6. field' \in 0 .. 5 /\ reqs' \in Fields
    BY <1>3, <2>3, <2>4 DEF SendField
  <2> QED
    BY <1>0, <1>3, <2>5, <2>6 DEF SendField, TypeOK
<1>4. CASE SendSigpipe
  BY <1>0, <1>4 DEF SendSigpipe, TypeOK, Places
<1>5. CASE ReadSize
  <2>1. PICK w : w = Read(4)
    OBVIOUS
  <2>2. w \in Seq(Nat) /\ SubSeq(resps, 4 + 1, Len(resps)) \in Seq(Nat)
    BY <2>1, ReadTyped DEF SentInv
  <2>3. Len(w) = 4 => w[1] \in Nat /\ w[3] \in Nat
    <3> SUFFICES ASSUME Len(w) = 4 PROVE w[1] \in Nat /\ w[3] \in Nat
      OBVIOUS
    <3>1. 1 \in 1 .. Len(w) /\ 3 \in 1 .. Len(w)
      OBVIOUS
    <3> QED
      BY <2>2, <3>1, ElementOfSeq
  <2>4. Len(w) = 4 => w[1] * w[3] \in Nat
    BY <2>3
  <2>5. resps' \in Seq(Nat)
    BY <1>5, <2>2 DEF ReadSize, Reads
  <2>6. \/ Return(1)
        \/ cpc' \in {"words", "dead"} /\ need' \in Nat /\ UNCHANGED <<words, returned>>
    BY <1>0, <1>5, <2>1, <2>4 DEF ReadSize, Huge
  <2>7. /\ returned' \in Seq([status : Nat, printed : Seq(Word)]) /\ words' \in Seq(Word)
        /\ need' \in Nat /\ cpc' \in Places
    BY <1>0, <2>6, ReturnTyped DEF SentInv, Places
  <2> QED
    BY <1>0, <1>5, <2>5, <2>7 DEF ReadSize, TypeOK
<1>6. CASE ReadCount
  <2>1. PICK w : w = Read(2) \o <<0, 0>>
    OBVIOUS
  <2>2. Read(2) \in Seq(Nat) /\ SubSeq(resps, 2 + 1, Len(resps)) \in Seq(Nat)
    BY ReadTyped DEF SentInv
  <2>3. w \in Seq(Nat) /\ Len(w) >= 2
    BY <2>1, <2>2
  <2>4. w[1] \in Nat
    BY <2>3
  <2>5. resps' \in Seq(Nat)
    BY <1>6, <2>2 DEF ReadCount, Reads
  <2>6. Return(1) \/ (cpc' = "words" /\ need' \in Nat /\ UNCHANGED <<words, returned>>)
    BY <1>0, <1>6, <2>1, <2>4, SMTT(30) DEF ReadCount, Huge
  <2>7. /\ returned' \in Seq([status : Nat, printed : Seq(Word)]) /\ words' \in Seq(Word)
        /\ need' \in Nat /\ cpc' \in Places
    BY <1>0, <2>6, ReturnTyped DEF SentInv, Places
  <2> QED
    BY <1>0, <1>6, <2>5, <2>7 DEF ReadCount, TypeOK
<1>7. CASE ReadWords
  <2>1. PICK w : w = Read(need)
    OBVIOUS
  <2>2. w \in Seq(Nat) /\ SubSeq(resps, need + 1, Len(resps)) \in Seq(Nat) /\ Len(w) <= need
    <3>1. /\ Read(need) \in Seq(Nat) /\ SubSeq(resps, need + 1, Len(resps)) \in Seq(Nat)
          /\ Len(Read(need)) = IF need <= Len(resps) THEN need ELSE Len(resps)
      BY <1>0, ReadTyped DEF SentInv
    <3>2. need \in Nat /\ Len(resps) \in Nat
      BY <1>0
    <3> QED
      BY <2>1, <3>1, <3>2
  <2>3. PICK n \in Nat : n = need - Len(w)
    <3>1. Len(w) \in Nat /\ Len(w) <= need /\ need \in Nat
      BY <1>0, <2>2, LenProperties
    <3> QED
      BY <3>1
  <2>4. PICK g : g = [i \in 1 .. n |-> Garbage]
    OBVIOUS
  <2>5. w \o g \in Seq(Word)
    <3>1. Garbage \in Word /\ Nat \subseteq Word
      BY DEF Word
    <3>2. g \in Seq(Word)
      BY <2>4, <3>1
    <3>3. w \in Seq(Word)
      BY <2>2, <3>1, SeqMonotonic
    <3> QED
      BY <3>2, <3>3, ConcatProperties
  <2>6. words' \in Seq(Word) /\ resps' \in Seq(Nat) /\ cpc' \in Places
    BY <1>7, <2>1, <2>2, <2>3, <2>4, <2>5 DEF ReadWords, Reads, Places
  <2> QED
    BY <1>0, <1>7, <2>6 DEF ReadWords, TypeOK
<1>8. CASE Output
  BY <1>0, <1>8 DEF Output, TypeOK, Places
<1>9. CASE OutputFail
  <2>1. faults' \in 0 .. MaxFaults /\ outFailed' \in BOOLEAN
    BY <1>0, <1>9, BoundsAssumption DEF OutputFail
  <2>2. Return(1)
    BY <1>9 DEF OutputFail
  <2>3. /\ returned' \in Seq([status : Nat, printed : Seq(Word)]) /\ words' \in Seq(Word)
        /\ need' \in Nat /\ cpc' \in Places
    BY <2>2, ReturnTyped DEF SentInv
  <2> QED
    BY <1>0, <1>9, <2>1, <2>3 DEF OutputFail, TypeOK
<1>10. CASE ReadStatus
  <2>1. PICK w : w = Read(1)
    OBVIOUS
  <2>2. w \in Seq(Nat) /\ SubSeq(resps, 1 + 1, Len(resps)) \in Seq(Nat)
    BY <2>1, ReadTyped DEF SentInv
  <2>3. PICK z \in Nat : z = IF w = << >> THEN 1 ELSE w[1]
    BY <2>2
  <2>4. Return(z) /\ resps' \in Seq(Nat)
    BY <1>10, <2>1, <2>2, <2>3 DEF ReadStatus, Reads
  <2>5. /\ returned' \in Seq([status : Nat, printed : Seq(Word)]) /\ words' \in Seq(Word)
        /\ need' \in Nat /\ cpc' \in Places
    BY <2>4, ReturnTyped DEF SentInv
  <2> QED
    BY <1>0, <1>10, <2>4, <2>5 DEF ReadStatus, TypeOK
<1>11. CASE Crash
  BY <1>0, <1>11, BoundsAssumption DEF Crash, TypeOK, Places
<1> QED
  BY <1>1, <1>2, <1>3, <1>4, <1>5, <1>6, <1>7, <1>8, <1>9, <1>10, <1>11 DEF Client

----------------------------------------------------------------------------
(* The requests.                                                           *)

\* A step of the client that begins no request and writes no field.
Receives == ReadSize \/ ReadCount \/ ReadWords \/ Output \/ OutputFail \/ ReadStatus

\* Such a step leaves the requests alone and goes on in the order of the answer.
LEMMA Received ==
  ASSUME Receives
  PROVE  /\ UNCHANGED <<sent, field, reqs, wpc, got, answer, executed>>
         /\ \/ cpc = "size" /\ cpc' \in {"words", "next", "dead"}
            \/ cpc = "count" /\ cpc' \in {"words", "next"}
            \/ cpc = "words" /\ cpc' = "print"
            \/ cpc = "print" /\ cpc' \in {"status", "next"}
            \/ cpc = "status" /\ cpc' = "next"
BY DEF Receives, ReadSize, ReadCount, ReadWords, Output, OutputFail, ReadStatus, Return

\* Client, action by action.
LEMMA ClientSteps ==
  ASSUME Client \/ OutputFail \/ Crash
  PROVE  \/ Start \/ Command \/ SendField \/ Receives
         \/ /\ cpc' = "dead" /\ UNCHANGED <<sent, field, need, words, returned, outFailed>>
            /\ UNCHANGED <<reqs, resps, wpc, got, answer, executed>>
BY DEF Client, Receives, SendSigpipe, Crash

\* What the worker does leaves the client alone.
LEMMA WorkerSteps ==
  ASSUME Worker \/ WorkerFail
  PROVE  UNCHANGED client /\ UNCHANGED outFailed
BY DEF Worker, ReadField, Eof, WorkerFail, Execute, WriteAnswer, AnswerFail

\* ClientInv names no other variable.
LEMMA ClientInvStays ==
  ASSUME ClientInv, UNCHANGED <<cpc, sent, field>>
  PROVE  ClientInv'
BY DEF ClientInv, Op, Last, Waiting

\* The client keeps count of what it has asked.
LEMMA ClientKept ==
  ASSUME SentInv, Client \/ OutputFail \/ Crash
  PROVE  ClientInv'
<1>0. /\ sent \in Seq(Ops) /\ field \in 0 .. 5 /\ Len(sent) \in Nat /\ ClientInv
      /\ MaxCommands \in Nat
  BY BoundsAssumption DEF SentInv, TypeOK
<1>1. sent # << >> => Op \in Ops /\ Sends[Op] \in 1 .. 5
  BY OpTyped, FieldCount DEF SentInv
<1>2. CASE Start
  BY <1>0, <1>2 DEF Start, ClientInv, Op, Last, Waiting
<1>3. CASE Command
  <2>1. PICK op \in Ops : /\ op # "quit" => Len(sent) < MaxCommands
                          /\ sent' = Append(sent, op)
    BY <1>3 DEF Command
  <2>2. cpc = "next" /\ cpc' = "send" /\ field' = 0
    BY <1>3 DEF Command
  <2>3. Len(sent') = Len(sent) + 1 /\ sent' # << >> /\ Op' = op /\ Sends[op] \in 1 .. 5
    BY <1>0, <2>1, FieldCount, AppendProperties DEF Op, Last
  <2>4. Len(sent) <= MaxCommands
    <3>1. CASE sent = << >>
      BY <1>0, <3>1
    <3>2. CASE sent # << >>
      BY <1>0, <2>2, <3>2 DEF ClientInv
    <3> QED
      BY <3>1, <3>2
  <2>5. Len(sent') <= MaxCommands + 1 /\ (op # "quit" => Len(sent') <= MaxCommands)
    BY <1>0, <2>1, <2>3, <2>4
  <2> QED
    BY <2>2, <2>3, <2>5 DEF ClientInv, Waiting
<1>4. CASE SendField
  <2>1. /\ cpc = "send" /\ field' = field + 1 /\ sent' = sent /\ sent # << >> /\ field < Sends[Op]
        /\ cpc' = IF field' = Sends[Op] THEN Waits(Op) ELSE "send"
    BY <1>0, <1>4 DEF SendField, ClientInv
  <2>2. Op' = Op /\ Op \in Ops /\ Sends[Op] \in 1 .. 5 /\ field + 1 <= Sends[Op]
    BY <1>0, <1>1, <2>1 DEF Op, Last
  <2>3. CASE field' = Sends[Op]
    <3>1. /\ cpc' = Waits(Op) /\ Waits(Op) \in {"quit", "status", "size", "count"}
          /\ (Op = "quit" => Waits(Op) = "quit")
          /\ (Waits(Op) = "size" => Op = "show") /\ (Waits(Op) = "count" => Op = "list")
      BY <2>1, <2>2, <2>3, WaitsTyped
    <3>2. cpc' \in Waiting => Op # "quit"
      BY <3>1 DEF Waiting
    <3> QED
      BY <1>0, <2>1, <2>2, <2>3, <3>1, <3>2 DEF ClientInv, Waiting
  <2>4. CASE field' # Sends[Op]
    <3>1. cpc' = "send" /\ field' < Sends[Op]
      BY <1>0, <2>1, <2>2, <2>4
    <3> QED
      BY <1>0, <2>1, <2>2, <3>1 DEF ClientInv, Waiting
  <2> QED
    BY <2>3, <2>4
<1>5. CASE Receives
  <2>1. sent' = sent /\ field' = field /\ Op' = Op
    BY <1>5, Received DEF Op, Last
  <2> QED
    BY <1>0, <1>5, <2>1, Received DEF ClientInv, Waiting
<1>6. CASE cpc' = "dead" /\ UNCHANGED <<sent, field>>
  BY <1>0, <1>6 DEF ClientInv, Waiting, Op, Last
<1> QED
  BY <1>2, <1>3, <1>4, <1>5, <1>6, ClientSteps

\* No step takes back or changes an operation.
LEMMA SentGrows ==
  ASSUME SentInv, Next
  PROVE  /\ Len(sent) \in Nat /\ Len(sent') \in Nat /\ Len(sent) <= Len(sent')
         /\ \A k \in 1 .. Len(sent) : sent'[k] = sent[k]
<1>1. sent \in Seq(Ops) /\ Len(sent) \in Nat
  BY DEF SentInv, TypeOK
<1>2. CASE Command
  <2>1. PICK op \in Ops : sent' = Append(sent, op)
    BY <1>2 DEF Command
  <2> QED
    BY <1>1, <2>1, AppendProperties
<1>3. CASE UNCHANGED sent
  BY <1>1, <1>3
<1>4. Command \/ UNCHANGED sent
  <2>1. CASE Worker \/ WorkerFail
    BY <2>1, WorkerSteps
  <2>2. CASE Client \/ OutputFail \/ Crash
    BY <2>2, ClientSteps, Received DEF Start, SendField
  <2> QED
    BY <2>1, <2>2 DEF Next, Fault
<1> QED
  BY <1>2, <1>3, <1>4

\* The worker alone executes.
LEMMA ExecutedBy ==
  ASSUME Next
  PROVE  Execute \/ UNCHANGED executed
<1>1. CASE Worker \/ WorkerFail
  BY <1>1 DEF Worker, ReadField, Eof, WorkerFail, WriteAnswer, AnswerFail
<1>2. CASE Client \/ OutputFail \/ Crash
  BY <1>2, ClientSteps, Received DEF Start, Command, SendField, worker
<1> QED
  BY <1>1, <1>2 DEF Next, Fault

\* The worker executes whole requests.
LEMMA ExecutedKept ==
  ASSUME SentInv, Next
  PROVE  ExecutedInv'
<1>0. /\ Len(executed) \in Nat /\ Len(executed) <= Len(sent)
      /\ executed \in Seq([fields : Fields, writes : Seq(Seq(Nat))])
  BY DEF SentInv, ExecutedInv, WorkerInv
<1>1. ASSUME NEW k \in 1 .. Len(executed)
      PROVE  /\ executed[k].fields = Full(k)' /\ sent'[k] # "quit"
             /\ executed[k].writes \in Answers(sent'[k])
  <2>1. k \in 1 .. Len(sent)
    BY <1>0, SentGrows
  <2>2. sent'[k] = sent[k]
    BY <2>1, SentGrows
  <2>3. /\ executed[k].fields = Full(k) /\ sent[k] # "quit"
        /\ executed[k].writes \in Answers(sent[k])
    BY DEF SentInv, ExecutedInv
  <2> QED
    BY <2>2, <2>3 DEF Full
<1>2. CASE Execute
  <2>1. /\ OpOf(got[1]) = sent[Len(executed) + 1] /\ OpOf(got[1]) \in Commands
        /\ got = Full(Len(executed) + 1) /\ Len(executed) + 1 \in 1 .. Len(sent)
    BY <1>2, Executing DEF Execute
  <2>2. PICK W \in Answers(sent[Len(executed) + 1]) :
          executed' = Append(executed, [fields |-> got, writes |-> W])
    BY <1>2, <2>1 DEF Execute
  <2>3. W \in Seq(Seq(Nat)) /\ got \in Fields
    BY <2>1, AnswerTyped DEF Ended, SentInv, TypeOK
  <2>4. PICK e : e = [fields |-> got, writes |-> W]
    OBVIOUS
  <2>5. e \in [fields : Fields, writes : Seq(Seq(Nat))]
    BY <2>3, <2>4
  <2>6. /\ executed' \in Seq([fields : Fields, writes : Seq(Seq(Nat))])
        /\ Len(executed') = Len(executed) + 1 /\ executed'[Len(executed) + 1] = e
        /\ \A k \in 1 .. Len(executed) : executed'[k] = executed[k]
    BY <1>0, <2>2, <2>4, <2>5, AppendProperties
  <2>7. /\ e.fields = Full(Len(executed) + 1) /\ sent[Len(executed) + 1] # "quit"
        /\ e.writes \in Answers(sent[Len(executed) + 1])
    BY <2>1, <2>2, <2>4
  <2>8. sent' = sent
    BY <1>2 DEF Execute
  <2>9. ASSUME NEW k \in 1 .. Len(executed')
        PROVE  /\ executed'[k].fields = Full(k)' /\ sent'[k] # "quit"
               /\ executed'[k].writes \in Answers(sent'[k])
    <3>1. CASE k = Len(executed) + 1
      BY <2>6, <2>7, <2>8, <3>1 DEF Full
    <3>2. CASE k # Len(executed) + 1
      <4>1. k \in 1 .. Len(executed)
        BY <1>0, <2>6, <3>2
      <4> QED
        BY <1>1, <2>6, <4>1
    <3> QED
      BY <3>1, <3>2
  <2> QED
    BY <2>6, <2>9 DEF ExecutedInv
<1>3. CASE UNCHANGED executed
  <2>1. ASSUME NEW k \in 1 .. Len(executed')
        PROVE  /\ executed'[k].fields = Full(k)' /\ sent'[k] # "quit"
               /\ executed'[k].writes \in Answers(sent'[k])
    BY <1>1, <1>3
  <2> QED
    BY <1>0, <1>3, <2>1 DEF ExecutedInv
<1> QED
  BY <1>2, <1>3, ExecutedBy

\* The worker reads the next field of the request it has not executed yet.
LEMMA FieldRead ==
  ASSUME SentInv, ReadField
  PROVE  \E n \in 1 .. Len(sent) : \E c \in 1 .. Sends[sent[n]] :
           /\ n = Len(executed) + 1 /\ c = Len(got) + 1 /\ sent[n] \in Ops
           /\ reqs # << >> /\ reqs[1] = <<n, c>> /\ reqs' = Tail(reqs) /\ wpc = "read"
           /\ got' = [i \in 1 .. c |-> <<n, i>>]
           /\ \/ c < Sends[sent[n]] /\ wpc' = "read"
              \/ c = Sends[sent[n]] /\ sent[n] = "quit" /\ wpc' = "closed"
              \/ c = Sends[sent[n]] /\ sent[n] # "quit" /\ wpc' = "exec"
           /\ UNCHANGED <<sent, executed>>
<1>1. /\ wpc = "read" /\ reqs # << >> /\ reqs' = Tail(reqs) /\ reqs \in Fields
      /\ got \in Fields /\ Len(got) \in Nat /\ Len(executed) \in Nat
      /\ UNCHANGED <<sent, executed>>
  BY DEF ReadField, SentInv, TypeOK, Fields, ExecutedInv
<1>2. PICK n \in Nat, c \in Nat : n = Len(executed) + 1 /\ c = Len(got) + 1
  BY <1>1
<1>3. reqs[1] = <<n, c>> /\ Head(reqs) = reqs[1] /\ 1 \in 1 .. Len(reqs)
  BY <1>1, <1>2 DEF SentInv, PipeInv, PipeEnds, Awaited, Fields
<1>4. n \in 1 .. Len(sent) /\ c \in 1 .. Sends[sent[n]]
  BY <1>1, <1>3 DEF SentInv, PipeInv, FieldsSent
<1>5. sent[n] \in Ops
  BY <1>4, ElementOfSeq DEF SentInv, TypeOK
<1>6. PICK g : g = Append(got, <<n, c>>)
  OBVIOUS
<1>7. got = [i \in 1 .. Len(got) |-> <<n, i>>]
  BY <1>1, <1>2 DEF SentInv, WorkerInv
<1>8. <<n, c>> \in (1 .. MaxCommands + 1) \X (1 .. 5)
  BY <1>1, <1>3, ElementOfSeq DEF Fields
<1>9. g = [i \in 1 .. c |-> <<n, i>>]
  <2>1. /\ Len(g) = c /\ g[c] = <<n, c>> /\ \A i \in 1 .. Len(got) : g[i] = got[i]
        /\ g \in Fields
    BY <1>1, <1>2, <1>6, <1>8, AppendProperties DEF Fields
  <2>2. g = [i \in 1 .. c |-> g[i]]
    BY <2>1 DEF Fields
  <2>3. ASSUME NEW i \in 1 .. c PROVE g[i] = <<n, i>>
    <3>1. CASE i = c
      BY <2>1, <3>1
    <3>2. CASE i # c
      <4>1. i \in 1 .. Len(got)
        BY <1>1, <1>2, <3>2
      <4>2. got[i] = <<n, i>>
        BY <1>7, <4>1
      <4> QED
        BY <2>1, <4>1, <4>2
    <3> QED
      BY <3>1, <3>2
  <2> QED
    BY <2>2, <2>3
<1>10. g[1] = <<n, 1>> /\ Len(g) = c
  BY <1>4, <1>9
<1>11. IsOp(g[1]) /\ OpOf(g[1]) = sent[n]
  BY <1>10 DEF IsOp, OpOf
<1>12. Awaits[sent[n]] = Sends[sent[n]] /\ Sends[sent[n]] \in 1 .. 5
  BY <1>5, FieldCount
<1>13. /\ got' = g
       /\ \/ c < Sends[sent[n]] /\ wpc' = "read"
          \/ c = Sends[sent[n]] /\ sent[n] = "quit" /\ wpc' = "closed"
          \/ c = Sends[sent[n]] /\ sent[n] # "quit" /\ wpc' = "exec"
  BY <1>1, <1>3, <1>6, <1>10, <1>11, <1>12 DEF ReadField
<1> QED
  BY <1>1, <1>2, <1>3, <1>4, <1>5, <1>9, <1>13

\* A worker reads the fields of one request.
LEMMA WorkerKept ==
  ASSUME SentInv, Next
  PROVE  WorkerInv'
<1>0. /\ Len(executed) \in Nat /\ WorkerInv /\ TypeOK /\ Len(sent) \in Nat
      /\ got \in Fields /\ Len(got) \in Nat
  BY DEF SentInv, ExecutedInv, TypeOK, Fields
<1>1. CASE UNCHANGED <<wpc, got, answer, executed>>
  <2>1. Len(executed) < Len(sent) => /\ Len(executed) < Len(sent')
                                     /\ sent'[Len(executed) + 1] = sent[Len(executed) + 1]
                                     /\ Full(Len(executed) + 1)' = Full(Len(executed) + 1)
    <3> SUFFICES ASSUME Len(executed) < Len(sent)
                 PROVE  /\ Len(executed) < Len(sent')
                        /\ sent'[Len(executed) + 1] = sent[Len(executed) + 1]
                        /\ Full(Len(executed) + 1)' = Full(Len(executed) + 1)
      OBVIOUS
    <3>1. Len(executed) + 1 \in 1 .. Len(sent) /\ Len(executed) < Len(sent')
      BY <1>0, SentGrows
    <3>2. sent'[Len(executed) + 1] = sent[Len(executed) + 1]
      BY <3>1, SentGrows
    <3> QED
      BY <1>1, <3>1, <3>2 DEF Full
  <2>2. Len(executed) <= Len(sent')
    BY <1>0, SentGrows DEF WorkerInv
  <2> QED
    BY <1>0, <1>1, <2>1, <2>2 DEF WorkerInv, Last
<1>2. CASE Execute
  <2>1. Len(executed) + 1 \in 1 .. Len(sent) /\ OpOf(got[1]) \in Commands
    BY <1>2, Executing DEF Execute
  <2>2. Ended(answer')
    BY <1>2, <2>1, AnswerTyped DEF Execute
  <2>3. answer' # << >> /\ Len(Last(answer')) = 1
    BY <2>2 DEF Ended
  <2>4. Len(executed') = Len(executed) + 1 /\ wpc' = "answer" /\ sent' = sent
    BY <1>2, <1>0 DEF Execute, SentInv, ExecutedInv
  <2> QED
    BY <1>0, <2>1, <2>3, <2>4 DEF WorkerInv, Last
<1>3. CASE WriteAnswer
  <2>1. /\ wpc = "answer" /\ executed' = executed /\ sent' = sent /\ answer' = Tail(answer)
        /\ \/ wpc' = "read" /\ got' = << >>
           \/ wpc' = "answer" /\ answer' # << >>
    BY <1>3 DEF WriteAnswer
  <2>2. CASE wpc' = "read" /\ got' = << >>
    BY <1>0, <2>1, <2>2 DEF WorkerInv
  <2>3. CASE wpc' = "answer" /\ answer' # << >>
    <3>1. answer \in Seq(Seq(Nat)) /\ answer # << >> /\ Len(answer[Len(answer)]) = 1
      BY <1>0, <2>1 DEF WorkerInv, TypeOK, Last
    <3>2. /\ answer' \in Seq(Seq(Nat)) /\ Len(answer') = Len(answer) - 1
          /\ \A i \in 1 .. Len(answer') : answer'[i] = answer[i + 1]
      BY <2>1, <3>1, HeadTailProperties
    <3>3. Len(answer') \in 1 .. Len(answer') /\ Len(answer') + 1 = Len(answer)
      BY <2>3, <3>1, <3>2
    <3>4. answer'[Len(answer')] = answer[Len(answer)]
      BY <3>2, <3>3
    <3> QED
      BY <1>0, <2>1, <2>3, <3>1, <3>4 DEF WorkerInv, Last
  <2> QED
    BY <2>1, <2>2, <2>3
<1>4. CASE wpc' = "closed" /\ UNCHANGED <<executed, sent>>
  BY <1>0, <1>4 DEF WorkerInv
<1>5. CASE ReadField
  <2>1. PICK n \in 1 .. Len(sent) : \E c \in 1 .. Sends[sent[n]] :
           /\ n = Len(executed) + 1 /\ c = Len(got) + 1 /\ sent[n] \in Ops
           /\ got' = [i \in 1 .. c |-> <<n, i>>]
           /\ \/ c < Sends[sent[n]] /\ wpc' = "read"
              \/ c = Sends[sent[n]] /\ sent[n] = "quit" /\ wpc' = "closed"
              \/ c = Sends[sent[n]] /\ sent[n] # "quit" /\ wpc' = "exec"
           /\ UNCHANGED <<sent, executed>>
    BY <1>5, FieldRead
  <2>2. PICK c \in 1 .. Sends[sent[n]] :
           /\ n = Len(executed) + 1 /\ c = Len(got) + 1 /\ sent[n] \in Ops
           /\ got' = [i \in 1 .. c |-> <<n, i>>]
           /\ \/ c < Sends[sent[n]] /\ wpc' = "read"
              \/ c = Sends[sent[n]] /\ sent[n] = "quit" /\ wpc' = "closed"
              \/ c = Sends[sent[n]] /\ sent[n] # "quit" /\ wpc' = "exec"
           /\ UNCHANGED <<sent, executed>>
    BY <2>1
  <2>3. Sends[sent[n]] \in 1 .. 5 /\ Len(got') = c
    BY <1>0, <2>2, FieldCount
  <2>4. Len(executed') + 1 = n /\ Len(executed') < Len(sent') /\ Len(executed') <= Len(sent')
    BY <1>0, <2>2
  <2>5. CASE c < Sends[sent[n]] /\ wpc' = "read"
    BY <1>0, <2>2, <2>3, <2>4, <2>5 DEF WorkerInv
  <2>6. CASE sent[n] = "quit" /\ wpc' = "closed"
    BY <2>4, <2>6 DEF WorkerInv
  <2>7. CASE c = Sends[sent[n]] /\ sent[n] # "quit" /\ wpc' = "exec"
    <3>1. got' = Full(Len(executed) + 1)' /\ sent'[Len(executed') + 1] # "quit"
      BY <2>2, <2>4, <2>7 DEF Full
    <3> QED
      BY <2>4, <2>7, <3>1 DEF WorkerInv
  <2> QED
    BY <2>2, <2>5, <2>6, <2>7
<1>6. \/ UNCHANGED <<wpc, got, answer, executed>> \/ Execute \/ WriteAnswer \/ ReadField
      \/ wpc' = "closed" /\ UNCHANGED <<executed, sent>>
  <2>1. CASE Worker \/ WorkerFail
    BY <2>1 DEF Worker, Eof, WorkerFail, AnswerFail
  <2>2. CASE Client \/ OutputFail \/ Crash
    BY <2>2, ClientSteps, Received DEF Start, Command, SendField, worker
  <2> QED
    BY <2>1, <2>2 DEF Next, Fault
<1> QED
  BY <1>1, <1>2, <1>3, <1>4, <1>5, <1>6

\* The fields in the pipe stay fields, in their order.
LEMMA FieldsStay ==
  ASSUME SentInv, Next, wpc # "closed"
  PROVE  /\ \A p \in 1 .. Len(reqs) : /\ reqs[p][1] \in 1 .. Len(sent')
                                      /\ reqs[p][2] \in 1 .. Sends[sent'[reqs[p][1]]]
                                      /\ After(reqs[p]) = IF reqs[p][2] = Sends[sent'[reqs[p][1]]]
                                                          THEN <<reqs[p][1] + 1, 1>>
                                                          ELSE <<reqs[p][1], reqs[p][2] + 1>>
         /\ \A p \in 1 .. Len(reqs) - 1 : reqs[p + 1] = After(reqs[p])
<1>1. FieldsSent /\ InOrder /\ Len(reqs) \in Nat
  BY DEF SentInv, PipeInv, TypeOK, Fields
<1>2. ASSUME NEW p \in 1 .. Len(reqs)
      PROVE  /\ reqs[p][1] \in 1 .. Len(sent')
             /\ reqs[p][2] \in 1 .. Sends[sent'[reqs[p][1]]]
             /\ After(reqs[p]) = IF reqs[p][2] = Sends[sent'[reqs[p][1]]]
                                 THEN <<reqs[p][1] + 1, 1>> ELSE <<reqs[p][1], reqs[p][2] + 1>>
  <2>1. PICK k \in 1 .. Len(sent) : k = reqs[p][1]
    BY <1>1 DEF FieldsSent
  <2>2. sent'[k] = sent[k] /\ k \in 1 .. Len(sent')
    BY SentGrows
  <2>3. reqs[p][2] \in 1 .. Sends[sent[k]]
    BY <1>1, <2>1 DEF FieldsSent
  <2> QED
    BY <2>1, <2>2, <2>3 DEF After
<1> QED
  BY <1>1, <1>2 DEF InOrder

\* A step that leaves the pipe and its ends alone.
LEMMA PipeStays ==
  ASSUME SentInv, Next, wpc # "closed", UNCHANGED reqs, Awaited' = Awaited,
         NextField' = NextField
  PROVE  PipeInv'
<1>1. FieldsSent' /\ InOrder'
  <2>1. FieldsSent'
    BY FieldsStay DEF FieldsSent
  <2>2. ASSUME NEW p \in 1 .. Len(reqs) - 1
        PROVE  reqs[p + 1] = After(reqs[p]) /\ p \in 1 .. Len(reqs)
    <3>1. Len(reqs) \in Nat
      BY DEF SentInv, TypeOK, Fields
    <3> QED
      BY <3>1, FieldsStay
  <2>3. ASSUME NEW p \in 1 .. Len(reqs) - 1
        PROVE  reqs[p + 1] = IF reqs[p][2] = Sends[sent'[reqs[p][1]]]
                             THEN <<reqs[p][1] + 1, 1>> ELSE <<reqs[p][1], reqs[p][2] + 1>>
    BY <2>2, FieldsStay
  <2>4. InOrder'
    BY <2>3 DEF InOrder, After
  <2> QED
    BY <2>1, <2>4
<1>2. Len(reqs) \in Nat /\ (reqs # << >> => Len(reqs) \in 1 .. Len(reqs)) /\ PipeEnds
  BY DEF SentInv, TypeOK, Fields, PipeInv
<1>3. reqs # << >> => After(reqs[Len(reqs)])' = After(reqs[Len(reqs)])
  BY <1>2, FieldsStay DEF After
<1>4. PipeEnds'
  BY <1>2, <1>3 DEF PipeEnds
<1> QED
  BY <1>1, <1>4 DEF PipeInv

\* The client writes the next field at the end of the pipe.
LEMMA PipeSend ==
  ASSUME SentInv, Next, SendField, wpc # "closed"
  PROVE  PipeInv'
<1>1. /\ sent # << >> /\ field < Sends[Op] /\ Len(sent) \in Nat \ {0} /\ field \in Nat
      /\ Op = sent[Len(sent)] /\ Sends[Op] \in 1 .. 5
  <2>1. /\ sent # << >> /\ field < Sends[Op] /\ field \in Nat
    BY DEF SendField, SentInv, ClientInv, TypeOK
  <2> QED
    BY <2>1, OpTyped, FieldCount DEF SentInv
<1>2. PICK f : f = <<Len(sent), field + 1>>
  OBVIOUS
<1>3. /\ NextField = f /\ f[1] = Len(sent) /\ f[2] = field + 1 /\ f[1] \in 1 .. Len(sent)
      /\ f[2] \in 1 .. Sends[sent[f[1]]]
  <2>1. f[1] = Len(sent) /\ f[2] = field + 1 /\ f[1] \in 1 .. Len(sent)
    BY <1>1, <1>2
  <2>2. f[2] \in 1 .. Sends[Op] /\ sent[f[1]] = Op
    BY <1>1, <2>1
  <2>3. NextField = f
    BY <1>1, <1>2 DEF NextField
  <2> QED
    BY <2>1, <2>2, <2>3
<1>4. sent' = sent /\ field' = field + 1 /\ reqs' = Append(reqs, f) /\ Awaited' = Awaited
  BY <1>2 DEF SendField, Awaited
<1>5. NextField' = After(f)
  <2>1. Op' = Op /\ sent' # << >> /\ sent[f[1]] = Op
    BY <1>1, <1>3, <1>4 DEF Op, Last
  <2> QED
    BY <1>1, <1>3, <1>4, <2>1 DEF NextField, After
<1>6. reqs \in Seq(Nat \X Nat) /\ f \in Nat \X Nat /\ Len(reqs) \in Nat
  <2>1. reqs \in Fields
    BY DEF SentInv, TypeOK
  <2>2. (1 .. MaxCommands + 1) \X (1 .. 5) \subseteq Nat \X Nat
    BY BoundsAssumption
  <2>3. reqs \in Seq(Nat \X Nat)
    BY <2>1, <2>2, SeqMonotonic DEF Fields
  <2>4. f \in Nat \X Nat
    BY <1>1, <1>2
  <2> QED
    BY <2>3, <2>4, LenProperties
<1>7. /\ Len(reqs') = Len(reqs) + 1 /\ reqs'[Len(reqs) + 1] = f
      /\ \A p \in 1 .. Len(reqs) : reqs'[p] = reqs[p]
  BY <1>4, <1>6, AppendProperties
<1>8. FieldsSent /\ InOrder /\ PipeEnds
  BY DEF SentInv, PipeInv
<1>9. FieldsSent'
  <2> SUFFICES ASSUME NEW p \in 1 .. Len(reqs')
               PROVE  /\ reqs'[p][1] \in 1 .. Len(sent)
                      /\ reqs'[p][2] \in 1 .. Sends[sent[reqs'[p][1]]]
    BY <1>4 DEF FieldsSent
  <2>1. CASE p = Len(reqs) + 1
    BY <1>3, <1>7, <2>1
  <2>2. CASE p # Len(reqs) + 1
    <3>1. p \in 1 .. Len(reqs)
      BY <1>6, <1>7, <2>2
    <3> QED
      BY <1>7, <1>8, <3>1 DEF FieldsSent
  <2> QED
    BY <2>1, <2>2
<1>10. InOrder'
  <2> SUFFICES ASSUME NEW p \in 1 .. Len(reqs') - 1
               PROVE  reqs'[p + 1] = After(reqs'[p])
    BY <1>4 DEF InOrder, After
  <2>1. p \in 1 .. Len(reqs) /\ reqs'[p] = reqs[p]
    BY <1>6, <1>7
  <2>2. CASE p = Len(reqs)
    <3>1. reqs # << >> /\ NextField = After(reqs[p])
      BY <1>8, <2>1, <2>2 DEF PipeEnds
    <3> QED
      BY <1>3, <1>7, <2>1, <2>2, <3>1
  <2>3. CASE p # Len(reqs)
    <3>1. p \in 1 .. Len(reqs) - 1 /\ p + 1 \in 1 .. Len(reqs)
      BY <1>6, <2>1, <2>3
    <3> QED
      BY <1>7, <1>8, <2>1, <3>1 DEF InOrder
  <2> QED
    BY <2>2, <2>3
<1>11. PipeEnds'
  <2>1. reqs' # << >> /\ reqs'[Len(reqs')] = f
    BY <1>6, <1>7
  <2>2. After(f)' = After(f)
    BY <1>4 DEF After
  <2>3. reqs'[1] = Awaited
    <3>1. CASE reqs = << >>
      <4>1. Len(reqs) + 1 = 1
        BY <3>1
      <4> QED
        BY <1>3, <1>7, <1>8, <3>1, <4>1 DEF PipeEnds
    <3>2. CASE reqs # << >>
      <4>1. 1 \in 1 .. Len(reqs)
        BY <1>6, <3>2
      <4> QED
        BY <1>7, <1>8, <3>2, <4>1 DEF PipeEnds
    <3> QED
      BY <3>1, <3>2
  <2>4. After(reqs[Len(reqs)])' = After(f)
    BY <1>4, <2>1 DEF After
  <2> QED
    BY <1>4, <1>5, <2>1, <2>3, <2>4 DEF PipeEnds
<1> QED
  BY <1>9, <1>10, <1>11 DEF PipeInv

\* The worker takes the field at the head of the pipe.
LEMMA PipeRead ==
  ASSUME SentInv, Next, ReadField, wpc' # "closed"
  PROVE  PipeInv'
<1>1. PICK n \in 1 .. Len(sent) : \E c \in 1 .. Sends[sent[n]] :
        /\ n = Len(executed) + 1 /\ c = Len(got) + 1 /\ sent[n] \in Ops
        /\ reqs # << >> /\ reqs[1] = <<n, c>> /\ reqs' = Tail(reqs) /\ wpc = "read"
        /\ got' = [i \in 1 .. c |-> <<n, i>>]
        /\ \/ c < Sends[sent[n]] /\ wpc' = "read"
           \/ c = Sends[sent[n]] /\ sent[n] # "quit" /\ wpc' = "exec"
        /\ UNCHANGED <<sent, executed>>
  BY FieldRead
<1>2. PICK c \in 1 .. Sends[sent[n]] :
        /\ n = Len(executed) + 1 /\ c = Len(got) + 1 /\ sent[n] \in Ops
        /\ reqs # << >> /\ reqs[1] = <<n, c>> /\ reqs' = Tail(reqs) /\ wpc = "read"
        /\ got' = [i \in 1 .. c |-> <<n, i>>]
        /\ \/ c < Sends[sent[n]] /\ wpc' = "read"
           \/ c = Sends[sent[n]] /\ sent[n] # "quit" /\ wpc' = "exec"
        /\ UNCHANGED <<sent, executed>>
  BY <1>1
<1>3. Sends[sent[n]] \in 1 .. 5 /\ n \in Nat /\ c \in Nat /\ Len(executed) \in Nat
  <2>1. Sends[sent[n]] \in 1 .. 5
    BY <1>2, FieldCount
  <2>2. Len(executed) \in Nat
    BY DEF SentInv, ExecutedInv
  <2> QED
    BY <1>2, <2>1, <2>2
<1>4. Awaited' = After(reqs[1])
  <2>1. CASE c < Sends[sent[n]] /\ wpc' = "read"
    <3>1. Len(got') = c /\ Len(executed') + 1 = n
      BY <1>2, <1>3
    <3>2. Awaited' = <<n, c + 1>>
      BY <2>1, <3>1 DEF Awaited
    <3> QED
      BY <1>2, <1>3, <2>1, <3>2 DEF After
  <2>2. CASE c = Sends[sent[n]] /\ wpc' = "exec"
    <3>1. Len(executed') + 2 = n + 1
      BY <1>2, <1>3
    <3>2. Awaited' = <<n + 1, 1>>
      BY <2>2, <3>1 DEF Awaited
    <3> QED
      BY <1>2, <2>2, <3>2 DEF After
  <2> QED
    BY <1>2, <2>1, <2>2
<1>5. /\ reqs \in Fields /\ Len(reqs) \in Nat \ {0} /\ Len(reqs') = Len(reqs) - 1
      /\ \A p \in 1 .. Len(reqs') : reqs'[p] = reqs[p + 1]
  <2>1. reqs \in Fields /\ reqs # << >>
    BY <1>2 DEF SentInv, TypeOK
  <2> QED
    BY <1>2, <2>1, HeadTailProperties, LenProperties DEF Fields
<1>6. FieldsSent /\ InOrder /\ PipeEnds
  BY <1>2 DEF SentInv, PipeInv
<1>7. UNCHANGED <<sent, field>> /\ NextField' = NextField
  BY DEF ReadField, NextField, Op, Last
<1>8. \A p \in 1 .. Len(reqs') : p + 1 \in 1 .. Len(reqs)
  BY <1>5
<1>9. FieldsSent'
  BY <1>5, <1>6, <1>7, <1>8 DEF FieldsSent
<1>10. InOrder'
  <2> SUFFICES ASSUME NEW p \in 1 .. Len(reqs') - 1
               PROVE  reqs'[p + 1] = After(reqs'[p])
    BY <1>7 DEF InOrder, After
  <2>1. p \in 1 .. Len(reqs') /\ p + 1 \in 1 .. Len(reqs') /\ p + 1 \in 1 .. Len(reqs) - 1
    BY <1>5
  <2>2. reqs[(p + 1) + 1] = After(reqs[p + 1])
    BY <1>6, <2>1 DEF InOrder
  <2> QED
    BY <1>5, <2>1, <2>2
<1>11. PipeEnds'
  <2>1. NextField = After(reqs[Len(reqs)])
    BY <1>2, <1>6 DEF PipeEnds
  <2>2. CASE reqs' = << >>
    <3>1. Len(reqs) = 1
      BY <1>5, <2>2
    <3> QED
      BY <1>4, <1>7, <2>1, <2>2, <3>1 DEF PipeEnds
  <2>3. CASE reqs' # << >>
    <3>1. Len(reqs') \in 1 .. Len(reqs') /\ 1 \in 1 .. Len(reqs') /\ 1 \in 1 .. Len(reqs) - 1
      <4>1. reqs' \in Fields
        BY <1>2, <1>5, HeadTailProperties DEF Fields
      <4>2. Len(reqs') \in Nat \ {0}
        BY <2>3, <4>1 DEF Fields
      <4> QED
        BY <1>5, <4>2
    <3>2. reqs'[1] = reqs[1 + 1] /\ reqs[1 + 1] = After(reqs[1])
      BY <1>5, <1>6, <3>1 DEF InOrder
    <3>3. reqs'[Len(reqs')] = reqs[Len(reqs)]
      BY <1>5, <3>1
    <3>4. After(reqs[Len(reqs)])' = After(reqs[Len(reqs)])
      BY <1>7, <3>3 DEF After
    <3> QED
      BY <1>4, <1>7, <2>1, <2>3, <3>2, <3>4 DEF PipeEnds
  <2> QED
    BY <2>2, <2>3
<1> QED
  BY <1>9, <1>10, <1>11 DEF PipeInv

\* The request pipe always holds the fields between the two ends.
LEMMA PipeKept ==
  ASSUME SentInv, Next
  PROVE  PipeInv'
<1>0. Len(executed) \in Nat /\ Len(sent) \in Nat
  BY DEF SentInv, TypeOK, ExecutedInv
<1>1. CASE wpc' = "closed"
  BY <1>1 DEF PipeInv
<1>2. CASE SendField /\ wpc # "closed"
  BY <1>2, PipeSend
<1>3. CASE ReadField /\ wpc' # "closed"
  BY <1>3, PipeRead
<1>4. CASE Command /\ wpc # "closed"
  <2>1. PICK op \in Ops : sent' = Append(sent, op)
    BY <1>4 DEF Command
  <2>2. cpc = "next" /\ field' = 0 /\ UNCHANGED <<reqs, wpc, got, executed>>
    BY <1>4 DEF Command, worker
  <2>3. Len(sent') = Len(sent) + 1 /\ sent' # << >> /\ Op' = op /\ Sends[op] \in 1 .. 5
    <3>1. sent \in Seq(Ops)
      BY DEF SentInv, TypeOK
    <3>2. Sends[op] \in 1 .. 5
      BY FieldCount
    <3> QED
      BY <2>1, <3>1, <3>2, AppendProperties DEF Op, Last
  <2>4. NextField = <<Len(sent) + 1, 1>>
    BY <2>2 DEF SentInv, ClientInv, NextField
  <2>5. NextField' = <<Len(sent) + 1, 1>>
    BY <2>2, <2>3 DEF NextField
  <2>6. Awaited' = Awaited
    BY <2>2 DEF Awaited
  <2> QED
    BY <1>4, <2>2, <2>4, <2>5, <2>6, PipeStays
<1>5. CASE Execute
  <2>1. NextField' = NextField /\ UNCHANGED reqs /\ wpc = "exec"
    BY <1>5 DEF Execute, NextField, Op, Last
  <2>2. Len(executed') = Len(executed) + 1 /\ wpc' = "answer"
    BY <1>5 DEF Execute, SentInv, ExecutedInv
  <2>3. Awaited' = Awaited
    BY <1>0, <2>1, <2>2 DEF Awaited
  <2> QED
    BY <2>1, <2>3, PipeStays
<1>6. CASE WriteAnswer
  <2>1. NextField' = NextField /\ UNCHANGED <<reqs, executed>> /\ wpc = "answer"
    BY <1>6 DEF WriteAnswer, NextField, Op, Last
  <2>2. (wpc' = "read" /\ Len(got') + 1 = 1) \/ wpc' = "answer"
    BY <1>6 DEF WriteAnswer
  <2>3. Awaited' = Awaited
    BY <2>1, <2>2 DEF Awaited
  <2> QED
    BY <2>1, <2>3, PipeStays
<1>7. CASE wpc # "closed" /\ UNCHANGED <<sent, field, reqs, wpc, got, executed>>
  <2>1. NextField' = NextField /\ Awaited' = Awaited
    BY <1>7 DEF NextField, Op, Last, Awaited
  <2> QED
    BY <1>7, <2>1, PipeStays
<1>8. \/ wpc' = "closed" \/ ReadField \/ Execute \/ WriteAnswer
      \/ (SendField /\ wpc # "closed") \/ (Command /\ wpc # "closed")
      \/ (wpc # "closed" /\ UNCHANGED <<sent, field, reqs, wpc, got, executed>>)
  <2>1. CASE Worker \/ WorkerFail
    BY <2>1 DEF Worker, Eof, WorkerFail, AnswerFail
  <2>2. CASE Client \/ OutputFail \/ Crash
    BY <2>2, ClientSteps, Received DEF Start, Command, SendField, worker
  <2> QED
    BY <2>1, <2>2 DEF Next, Fault
<1> QED
  BY <1>1, <1>2, <1>3, <1>4, <1>5, <1>6, <1>7, <1>8

\* SentInv is inductive.
LEMMA SentInitially == Init => SentInv
<1> SUFFICES ASSUME Init PROVE SentInv
  OBVIOUS
<1>1. TypeOK
  <2>1. /\ << >> \in Seq(Ops) /\ << >> \in Seq(Word) /\ << >> \in Fields /\ << >> \in Seq(Nat)
        /\ << >> \in Seq([status : Nat, printed : Seq(Word)]) /\ << >> \in Seq(Seq(Nat))
    BY DEF Fields
  <2>2. faults \in 0 .. MaxFaults /\ field \in 0 .. 5 /\ need \in Nat
    BY BoundsAssumption DEF Init
  <2>3. /\ cpc \in Places /\ wpc \in {"read", "exec", "answer", "closed"}
        /\ outFailed \in BOOLEAN
    BY DEF Init, Places
  <2>4. /\ sent \in Seq(Ops) /\ words \in Seq(Word) /\ reqs \in Fields /\ got \in Fields
        /\ resps \in Seq(Nat) /\ returned \in Seq([status : Nat, printed : Seq(Word)])
        /\ answer \in Seq(Seq(Nat))
    BY <2>1 DEF Init
  <2> QED
    BY <2>2, <2>3, <2>4 DEF TypeOK
<1>2. ClientInv
  BY BoundsAssumption DEF Init, ClientInv, Waiting
<1>3. WorkerInv
  <2>1. << >> = [i \in 1 .. 0 |-> <<0 + 1, i>>]
    OBVIOUS
  <2> QED
    BY <2>1 DEF Init, WorkerInv
<1>4. ExecutedInv
  BY DEF Init, ExecutedInv
<1>5. PipeInv
  BY DEF Init, PipeInv, FieldsSent, InOrder, PipeEnds, Awaited, NextField
<1> QED
  BY <1>1, <1>2, <1>3, <1>4, <1>5 DEF SentInv

\* Every step keeps it.
LEMMA SentKept == SentInv /\ [Next]_vars => SentInv'
<1> SUFFICES ASSUME SentInv, [Next]_vars PROVE SentInv'
  OBVIOUS
<1>1. CASE Next
  <2>1. TypeOK'
    BY <1>1, TypeWorker, TypeClient DEF Next, Fault
  <2>2. ClientInv'
    BY <1>1, ClientKept, WorkerSteps, ClientInvStays DEF Next, Fault, SentInv
  <2> QED
    BY <1>1, <2>1, <2>2, WorkerKept, ExecutedKept, PipeKept DEF SentInv
<1>2. CASE UNCHANGED vars
  <2>1. TypeOK' /\ ClientInv'
    BY <1>2, Zenon DEF vars, SentInv, TypeOK, ClientInv, Op, Last
  <2>2. WorkerInv'
    BY <1>2, Zenon DEF vars, SentInv, WorkerInv, Full
  <2>3. ExecutedInv'
    BY <1>2, Zenon DEF vars, SentInv, ExecutedInv, Full
  <2>4. PipeInv'
    BY <1>2, Zenon DEF vars, SentInv, PipeInv, FieldsSent, InOrder, PipeEnds, Awaited, NextField,
                       After, Op, Last
  <2> QED
    BY <2>1, <2>2, <2>3, <2>4 DEF SentInv
<1> QED
  BY <1>1, <1>2

----------------------------------------------------------------------------
(* The answers, as long as the client's output can be written.             *)

\* What is in the response pipe begins a sequence, or is it with what the worker
\* still has to write: of an answer the client may find the end missing.
Prefix(s, t) == Len(s) <= Len(t) /\ \A i \in 1 .. Len(s) : s[i] = t[i]
AnswerLeft == IF wpc = "answer" THEN FlattenSeq(answer) ELSE << >>
Matches(left) == IF HungUp THEN Prefix(resps, left) ELSE resps \o AnswerLeft = left

\* What the client still has to read of an answer.
Left(writes) ==
  CASE cpc \in {"size", "count"} -> FlattenSeq(writes)
    [] cpc = "words"             -> Content(writes) \o <<Status(writes)>>
    [] cpc \in {"print", "status"} -> <<Status(writes)>>

\* The server has not executed the last request.
Unanswered ==
  /\ Len(executed) + 1 = Len(sent) /\ resps = << >>
  /\ ~HungUp => wpc \in {"read", "exec"} /\ cpc = Waits(Op) /\ words = << >>

\* It has: what the client has read and what it will are that answer, or the
\* worker has hung up and nothing is left to read.
BeingAnswered(writes) ==
  /\ Len(executed) = Len(sent)
  /\ \/ HungUp /\ resps = << >>
     \/ /\ Matches(Left(writes)) /\ (~HungUp => wpc \in {"answer", "read"})
        /\ cpc = "words" => need = Len(Content(writes))
        /\ cpc \in {"print", "status"} => words = Content(writes)

\* The operations that have returned 0 were executed and printed.
Told == \A k \in 1 .. Len(returned) : returned[k].status = 0 => Done(k)

\* The worker waits for the client.
Rests == HungUp \/ (wpc = "read" /\ resps = << >>)

Between ==
  /\ Len(returned) = Len(sent) /\ words = << >> /\ Rests
  /\ HungUp \/ Len(executed) = Len(sent)
Sending ==
  /\ Len(returned) + 1 = Len(sent) /\ words = << >> /\ Rests
  /\ HungUp \/ Len(executed) + 1 = Len(sent)
Awaiting ==
  /\ Len(returned) + 1 = Len(sent) /\ (cpc \in {"size", "count"} => words = << >>)
  /\ Unanswered \/ BeingAnswered(executed[Len(sent)].writes)

SyncInv ==
  ~outFailed =>
    /\ Told
    /\ cpc \in {"start", "next"} => Between
    /\ cpc = "send" => Sending
    /\ cpc \in Waiting => Awaiting

SessionInv == SentInv /\ SyncInv

----------------------------------------------------------------------------
(* Facts the steps rest on.                                                *)

\* The types of what SyncInv is about.
LEMMA SyncTypes ==
  ASSUME SentInv
  PROVE  /\ resps \in Seq(Nat) /\ answer \in Seq(Seq(Nat)) /\ need \in Nat
         /\ returned \in Seq([status : Nat, printed : Seq(Word)]) /\ Len(returned) \in Nat
         /\ sent \in Seq(Ops) /\ Len(sent) \in Nat /\ Len(executed) \in Nat /\ Len(resps) \in Nat
         /\ AnswerLeft \in Seq(Nat)
         /\ executed \in Seq([fields : Fields, writes : Seq(Seq(Nat))])
<1>1. resps \in Seq(Nat) /\ answer \in Seq(Seq(Nat)) /\ need \in Nat
      /\ returned \in Seq([status : Nat, printed : Seq(Word)]) /\ sent \in Seq(Ops)
      /\ executed \in Seq([fields : Fields, writes : Seq(Seq(Nat))])
  BY DEF SentInv, TypeOK, ExecutedInv
<1>2. AnswerLeft \in Seq(Nat)
  <2>1. FlattenSeq(answer) \in Seq(Nat) /\ << >> \in Seq(Nat)
    BY <1>1, FlattenType
  <2> QED
    BY <2>1 DEF AnswerLeft
<1> QED
  BY <1>1, <1>2, LenProperties

\* Results stay told when requests are executed.
LEMMA ToldStays ==
  ASSUME SentInv, Next, Told, UNCHANGED returned
  PROVE  Told'
<1> SUFFICES ASSUME NEW k \in 1 .. Len(returned), returned[k].status = 0
             PROVE  Done(k)'
  BY DEF Told
<1>1. Done(k)
  BY DEF Told
<1>2. CASE UNCHANGED executed
  BY <1>1, <1>2 DEF Done
<1>3. CASE Execute
  <2>1. Len(executed) \in Nat /\ executed \in Seq([fields : Fields, writes : Seq(Seq(Nat))])
        /\ k \in Nat
    BY SyncTypes
  <2>2. PICK W : executed' = Append(executed, [fields |-> got, writes |-> W]) /\ W \in Seq(Seq(Nat))
    <3>1. answer' \in Seq(Seq(Nat))
      BY <1>3, TypeWorker DEF Worker, TypeOK
    <3> QED
      BY <1>3, <3>1 DEF Execute
  <2>3. PICK e \in [fields : Fields, writes : Seq(Seq(Nat))] : executed' = Append(executed, e)
    BY <2>2 DEF SentInv, TypeOK
  <2>4. k \in 1 .. Len(executed) /\ k <= Len(executed')
    BY <1>1, <2>1, <2>3, AppendProperties DEF Done
  <2>5. executed'[k] = executed[k]
    BY <2>1, <2>3, <2>4, AppendProperties
  <2> QED
    BY <1>1, <2>4, <2>5 DEF Done
<1> QED
  BY <1>2, <1>3, ExecutedBy

\* A result is told if it is not 0, or if its request was.
LEMMA ToldReturn ==
  ASSUME SentInv, Told, UNCHANGED executed, NEW z \in Nat, Return(z),
         z = 0 => /\ Len(returned) + 1 <= Len(executed)
                  /\ Status(executed[Len(returned) + 1].writes) = 0
                  /\ words = Content(executed[Len(returned) + 1].writes)
  PROVE  Told' /\ Len(returned') = Len(returned) + 1
<1>1. PICK r : r = [status |-> z, printed |-> words]
  OBVIOUS
<1>2. r \in [status : Nat, printed : Seq(Word)] /\ r.status = z /\ r.printed = words
  BY <1>1 DEF SentInv, TypeOK
<1>3. /\ Len(returned) \in Nat /\ Len(returned') = Len(returned) + 1
      /\ returned'[Len(returned) + 1] = r
      /\ \A k \in 1 .. Len(returned) : returned'[k] = returned[k]
  BY <1>1, <1>2, SyncTypes, AppendProperties DEF Return
<1>4. ASSUME NEW k \in 1 .. Len(returned'), returned'[k].status = 0
      PROVE  Done(k)'
  <2>1. CASE k = Len(returned) + 1
    BY <1>2, <1>3, <1>4, <2>1 DEF Done
  <2>2. CASE k # Len(returned) + 1
    <3>1. k \in 1 .. Len(returned)
      BY <1>3, <2>2
    <3>2. returned[k].status = 0 /\ returned'[k] = returned[k]
      BY <1>3, <1>4, <3>1
    <3>3. Done(k)
      BY <3>1, <3>2 DEF Told
    <3> QED
      BY <3>2, <3>3 DEF Done
  <2> QED
    BY <2>1, <2>2
<1>5. Told'
  BY <1>4 DEF Told
<1> QED
  BY <1>3, <1>5

\* The answer to the last request is one the operation has.
LEMMA LastAnswer ==
  ASSUME SentInv, sent # << >>, Len(executed) = Len(sent)
  PROVE  /\ executed[Len(sent)].writes \in Answers(Op) /\ Op \in Commands
         /\ Ended(executed[Len(sent)].writes)
<1>1. Op \in Ops /\ Op = sent[Len(sent)] /\ Len(sent) \in 1 .. Len(executed)
  <2>1. Op \in Ops /\ Op = sent[Len(sent)] /\ Len(sent) \in Nat \ {0}
    BY OpTyped DEF SentInv
  <2> QED
    BY <2>1
<1>2. sent[Len(sent)] # "quit" /\ executed[Len(sent)].writes \in Answers(sent[Len(sent)])
  BY <1>1 DEF SentInv, ExecutedInv
<1>3. PICK op : op = Op
  OBVIOUS
<1>4. op \in Commands /\ executed[Len(sent)].writes \in Answers(op)
  <2>1. op = sent[Len(sent)] /\ op \in Ops
    BY <1>1, <1>3
  <2>2. op # "quit" /\ executed[Len(sent)].writes \in Answers(op)
    BY <1>2, <2>1
  <2>3. op \in Commands
    BY <2>1, <2>2
  <2> QED
    BY <2>2, <2>3, Zenon
<1>5. Ended(executed[Len(sent)].writes)
  BY <1>4, AnswerTyped
<1> QED
  BY <1>3, <1>4, <1>5

\* What comes after the first n members of a sequence.
LEMMA RestOf ==
  ASSUME NEW r \in Seq(Nat), NEW n \in Nat
  PROVE  /\ SubSeq(r, n + 1, Len(r)) \in Seq(Nat)
         /\ n <= Len(r) => Len(SubSeq(r, n + 1, Len(r))) = Len(r) - n
         /\ \A i \in 1 .. Len(r) - n : SubSeq(r, n + 1, Len(r))[i] = r[n + i]
<1>1. Len(r) \in Nat /\ n + 1 \in Int /\ Len(r) \in Int
  BY LenProperties
<1>2. \A i \in n + 1 .. Len(r) : r[i] \in Nat
  BY <1>1, ElementOfSeq
<1>3. PICK m \in Int, l \in Int : m = n + 1 /\ l = Len(r)
  BY <1>1
<1>4. /\ SubSeq(r, m, l) \in Seq(Nat)
      /\ Len(SubSeq(r, m, l)) = IF m <= l THEN l - m + 1 ELSE 0
      /\ \A i \in 1 .. l - m + 1 : SubSeq(r, m, l)[i] = r[m + i - 1]
  BY <1>2, <1>3, SubSeqProperties
<1>5. n <= l => (IF m <= l THEN l - m + 1 ELSE 0) = l - n
  BY <1>1, <1>3
<1>6. \A i \in 1 .. l - n : i \in 1 .. l - m + 1 /\ m + i - 1 = n + i
  BY <1>1, <1>3
<1> QED
  BY <1>3, <1>4, <1>5, <1>6

\* A sequence at least as long as a that begins a \o b is a and begins b.
LEMMA SplitPrefix ==
  ASSUME NEW r \in Seq(Nat), NEW a \in Seq(Nat), NEW b \in Seq(Nat), NEW n \in Nat,
         n = Len(a), Prefix(r, a \o b), n <= Len(r)
  PROVE  SubSeq(r, 1, n) = a /\ Prefix(SubSeq(r, n + 1, Len(r)), b)
<1>1. PICK l \in Nat : l = Len(r)
  BY LenProperties
<1>2. PICK c \in Seq(Nat) : c = a \o b
  BY ConcatProperties
<1>3. /\ Len(c) = n + Len(b) /\ Len(b) \in Nat
      /\ \A i \in 1 .. n + Len(b) : c[i] = IF i <= n THEN a[i] ELSE b[i - n]
  BY <1>2, ConcatProperties, LenProperties
<1>4. l <= Len(c) /\ \A i \in 1 .. l : r[i] = c[i]
  BY <1>1, <1>2 DEF Prefix
<1>5. SubSeq(r, 1, n) = a
  <2>1. PICK h : h = SubSeq(r, 1, n)
    OBVIOUS
  <2>2. h \in Seq(Nat) /\ Len(h) = n /\ \A i \in 1 .. n : h[i] = r[i]
    BY <1>1, <2>1
  <2>3. ASSUME NEW i \in 1 .. n PROVE h[i] = a[i]
    <3>1. i \in 1 .. l /\ i \in 1 .. n + Len(b) /\ i <= n
      BY <1>1, <1>3
    <3> QED
      BY <1>3, <1>4, <2>2, <3>1
  <2> QED
    BY <2>1, <2>2, <2>3, SeqEqual
<1>6. PICK q : q = SubSeq(r, n + 1, l)
  OBVIOUS
<1>7. q \in Seq(Nat) /\ Len(q) = l - n /\ \A i \in 1 .. l - n : q[i] = r[n + i]
  BY <1>1, <1>6, RestOf
<1>8. ASSUME NEW i \in 1 .. Len(q) PROVE q[i] = b[i]
  <2>1. /\ i \in 1 .. l - n /\ n + i \in 1 .. l /\ n + i \in 1 .. n + Len(b) /\ ~(n + i <= n)
        /\ (n + i) - n = i
    <3>1. PICK m \in Nat : m = Len(b)
      BY <1>3
    <3>2. i \in 1 .. l - n /\ l <= n + m
      BY <1>3, <1>4, <1>7, <3>1
    <3>3. /\ n + i \in 1 .. l /\ n + i \in 1 .. n + m /\ ~(n + i <= n) /\ (n + i) - n = i
      BY <3>2
    <3> QED
      BY <3>1, <3>2, <3>3
  <2>2. q[i] = r[n + i] /\ r[n + i] = c[n + i]
    BY <1>4, <1>7, <2>1
  <2>3. c[n + i] = b[(n + i) - n]
    BY <1>3, <2>1
  <2> QED
    BY <2>1, <2>2, <2>3
<1>9. Len(q) <= Len(b)
  BY <1>1, <1>3, <1>4, <1>7
<1> QED
  BY <1>1, <1>5, <1>6, <1>8, <1>9 DEF Prefix

\* Two sequences are equal if they are after the same beginning.
LEMMA CancelLeft ==
  ASSUME NEW s \in Seq(Nat), NEW t \in Seq(Nat), NEW v \in Seq(Nat), s \o t = s \o v
  PROVE  t = v
<1>1. PICK k \in Nat, m \in Nat, n \in Nat : k = Len(s) /\ m = Len(t) /\ n = Len(v)
  BY LenProperties
<1>2. /\ Len(s \o t) = k + m /\ Len(s \o v) = k + n
      /\ \A i \in 1 .. k + m : (s \o t)[i] = IF i <= k THEN s[i] ELSE t[i - k]
      /\ \A i \in 1 .. k + n : (s \o v)[i] = IF i <= k THEN s[i] ELSE v[i - k]
  BY <1>1, ConcatProperties
<1>3. m = n
  BY <1>2
<1>4. ASSUME NEW i \in 1 .. m PROVE t[i] = v[i]
  <2>1. k + i \in 1 .. k + m /\ ~(k + i <= k) /\ (k + i) - k = i
    OBVIOUS
  <2> QED
    BY <1>2, <1>3, <2>1
<1> QED
  BY <1>1, <1>3, <1>4, SeqEqual

\* The same where the first one is cut in three.
InThree(a, q, d, b) == (a \o q) \o d = a \o b

LEMMA CancelFirst ==
  ASSUME NEW a \in Seq(Nat), NEW q \in Seq(Nat), NEW d \in Seq(Nat), NEW b \in Seq(Nat),
         InThree(a, q, d, b)
  PROVE  q \o d = b
<1>1. PICK v \in Seq(Nat) : v = q \o d
  BY ConcatProperties
<1>2. (a \o q) \o d = a \o (q \o d)
  BY Associative, ZenonT(30)
<1>3. a \o v = a \o b
  BY <1>1, <1>2, Zenon DEF InThree
<1>4. v = b
  BY <1>3, CancelLeft
<1> QED
  BY <1>1, <1>4

\* r \o d = a \o b, and r is cut at the length of a.
Cut(r, d, a, b, n, h, q) ==
  /\ n = Len(a) /\ n <= Len(r) /\ r \o d = a \o b
  /\ h = SubSeq(r, 1, n) /\ q = SubSeq(r, n + 1, Len(r))

\* One that ends in d to make a \o b is a and ends in d to make b.
LEMMA SplitConcat ==
  ASSUME NEW r \in Seq(Nat), NEW d \in Seq(Nat), NEW a \in Seq(Nat), NEW b \in Seq(Nat),
         NEW n \in Nat, NEW h \in Seq(Nat), NEW q \in Seq(Nat), Cut(r, d, a, b, n, h, q)
  PROVE  h = a /\ q \o d = b
<1>1. ASSUME n = Len(a), n <= Len(r), r \o d = a \o b, h = SubSeq(r, 1, n),
             q = SubSeq(r, n + 1, Len(r))
      PROVE  h = a /\ q \o d = b
  <2>1. /\ Len(r \o d) = Len(r) + Len(d) /\ Len(r) \in Nat /\ Len(d) \in Nat
        /\ \A i \in 1 .. Len(r) + Len(d) : (r \o d)[i] = IF i <= Len(r) THEN r[i] ELSE d[i - Len(r)]
    BY ConcatProperties, LenProperties
  <2>2. ASSUME NEW i \in 1 .. Len(r) PROVE r[i] = (r \o d)[i]
    <3>1. i \in 1 .. Len(r) + Len(d) /\ i <= Len(r)
      BY <2>1
    <3> QED
      BY <2>1, <3>1
  <2>3. Prefix(r, r \o d)
    BY <2>1, <2>2 DEF Prefix
  <2>4. Prefix(r, a \o b)
    BY <1>1, <2>3, Zenon
  <2>5. h = a
    BY <1>1, <2>4, SplitPrefix
  <2>6. r = h \o q
    <3>1. 1 \in 1 .. Len(r) + 1 /\ n \in 1 - 1 .. Len(r) /\ Len(r) \in n .. Len(r)
      BY <1>1, <2>1
    <3>2. SubSeq(r, 1, n) \o SubSeq(r, n + 1, Len(r)) = SubSeq(r, 1, Len(r))
      BY <3>1, ConcatAdjacentSubSeq
    <3>3. SubSeq(r, 1, Len(r)) = r
      BY SubSeqFull
    <3>4. h = SubSeq(r, 1, n) /\ q = SubSeq(r, n + 1, Len(r))
      BY <1>1
    <3>5. h \o q = SubSeq(r, 1, Len(r))
      BY <3>2, <3>4
    <3> QED
      BY <3>3, <3>5, Zenon
  <2>7. InThree(a, q, d, b)
    BY <1>1, <2>5, <2>6, Zenon DEF InThree
  <2>8. q \o d = b
    BY <2>7, CancelFirst
  <2> QED
    BY <2>5, <2>8
<1> QED
  BY <1>1 DEF Cut

\* Of a sequence that matches, the client reads the first part, and the rest
\* matches what is left; or the worker has hung up in the middle of that part.
LEMMA AfterRead ==
  ASSUME SentInv, NEW a \in Seq(Nat), NEW b \in Seq(Nat), NEW n \in Nat
  PROVE  n = Len(a) /\ Matches(a \o b) /\ Reads(n) /\ UNCHANGED <<wpc, answer>> =>
           \/ Read(n) = a /\ Matches(b)'
           \/ HungUp /\ resps' = << >> /\ Len(Read(n)) < n /\ Prefix(Read(n), a)
<1>1. ASSUME n = Len(a), Matches(a \o b), Reads(n), UNCHANGED <<wpc, answer>>
      PROVE  \/ Read(n) = a /\ Matches(b)'
             \/ HungUp /\ resps' = << >> /\ Len(Read(n)) < n /\ Prefix(Read(n), a)
  <2>1. PICK r \in Seq(Nat) : r = resps
    BY SyncTypes
  <2>2. PICK d \in Seq(Nat) : d = AnswerLeft
    BY SyncTypes
  <2>3. d = AnswerLeft' /\ wpc' = wpc
    BY <1>1, <2>2 DEF AnswerLeft
  <2>4. Len(r) \in Nat
    BY LenProperties
  <2>5. resps' = SubSeq(r, n + 1, Len(r)) /\ (n <= Len(r) \/ HungUp)
    BY <1>1, <2>1, <2>4 DEF Reads
  <2>6. CASE n <= Len(r)
    <3>1. Read(n) = SubSeq(r, 1, n)
      BY <2>1, <2>6 DEF Read
    <3>2. CASE HungUp
      <4>1. Prefix(r, a \o b)
        BY <1>1, <2>1, <3>2, Zenon DEF Matches
      <4>2. SubSeq(r, 1, n) = a /\ Prefix(SubSeq(r, n + 1, Len(r)), b)
        BY <1>1, <2>6, <4>1, SplitPrefix
      <4>3. Prefix(resps', b) /\ wpc' = "closed"
        BY <2>3, <2>5, <3>2, <4>2, Zenon
      <4>4. Matches(b)'
        BY <4>3, Zenon DEF Matches, Prefix
      <4> QED
        BY <3>1, <4>2, <4>4
    <3>3. CASE ~HungUp
      <4>1. r \o d = a \o b
        BY <1>1, <2>1, <2>2, <3>3, Zenon DEF Matches
      <4>2. PICK q \in Seq(Nat), h \in Seq(Nat) :
              q = SubSeq(r, n + 1, Len(r)) /\ h = SubSeq(r, 1, n)
        <5>1. SubSeq(r, n + 1, Len(r)) \in Seq(Nat)
          BY RestOf
        <5>2. SubSeq(r, 1, n) \in Seq(Nat)
          BY <2>4, <2>6
        <5> QED
          BY <5>1, <5>2, Zenon
      <4>3. h = a /\ q \o d = b
        <5>1. n = Len(a) /\ n <= Len(r)
          BY <1>1, <2>6
        <5>2. Cut(r, d, a, b, n, h, q)
          BY <4>1, <4>2, <5>1, Zenon DEF Cut
        <5> QED
          BY <5>2, SplitConcat
      <4>4. resps' = q /\ wpc' # "closed"
        BY <2>3, <2>5, <3>3, <4>2, Zenon
      <4>5. resps' \o AnswerLeft' = b
        BY <2>3, <4>3, <4>4, Zenon
      <4>6. Matches(b)'
        BY <4>4, <4>5, Zenon DEF Matches
      <4> QED
        BY <3>1, <4>2, <4>3, <4>6, Zenon
    <3> QED
      BY <3>2, <3>3
  <2>7. CASE ~(n <= Len(r))
    <3>1. HungUp /\ resps' = << >>
      BY <2>4, <2>5, <2>7, SubSeqEmpty
    <3>2. Read(n) = r
      BY <2>1, <2>7, SubSeqFull DEF Read
    <3>3. Prefix(r, a \o b)
      BY <1>1, <2>1, <3>1, Zenon DEF Matches
    <3>4. Prefix(r, a)
      <4>1. /\ Len(a \o b) = n + Len(b) /\ Len(b) \in Nat
            /\ \A i \in 1 .. n + Len(b) : (a \o b)[i] = IF i <= n THEN a[i] ELSE b[i - n]
        BY <1>1, ConcatProperties, LenProperties
      <4>2. ASSUME NEW i \in 1 .. Len(r) PROVE r[i] = a[i]
        <5>1. i \in 1 .. n + Len(b) /\ i <= n
          BY <2>4, <2>7, <4>1
        <5>2. r[i] = (a \o b)[i]
          BY <3>3 DEF Prefix
        <5> QED
          BY <4>1, <5>1, <5>2
      <4> QED
        BY <1>1, <2>4, <2>7, <4>2 DEF Prefix
    <3>5. Len(Read(n)) < n
      BY <2>4, <2>7, <3>2
    <3> QED
      BY <3>1, <3>2, <3>4, <3>5
  <2> QED
    BY <2>6, <2>7
<1> QED
  BY <1>1

----------------------------------------------------------------------------
(* The steps of the worker.                                                *)

\* A client that waits for an answer has asked for one.
LEMMA AwaitingAsked ==
  ASSUME SentInv, cpc \in Waiting
  PROVE  sent # << >> /\ Op \in Commands /\ Op = sent[Len(sent)] /\ Len(sent) \in Nat \ {0}
<1>1. sent # << >> /\ Op # "quit"
  BY DEF SentInv, ClientInv
<1> QED
  BY <1>1, OpTyped DEF SentInv

\* A worker that closes the pipes leaves the client the answer as it is.
LEMMA SyncClose ==
  ASSUME SessionInv, Next, wpc' = "closed", UNCHANGED <<client, outFailed, resps, executed>>
  PROVE  SyncInv'
<1> SUFFICES ASSUME ~outFailed PROVE SyncInv'
  BY DEF SyncInv
<1>0. /\ SentInv /\ cpc' = cpc /\ sent' = sent /\ returned' = returned /\ words' = words
      /\ need' = need
  BY DEF SessionInv
<1>1. Told'
  BY <1>0, ToldStays DEF SessionInv, SyncInv
<1>2. cpc \in {"start", "next"} => Between'
  BY <1>0 DEF SessionInv, SyncInv, Between, Rests
<1>3. cpc = "send" => Sending'
  BY <1>0 DEF SessionInv, SyncInv, Sending, Rests
<1>4. ASSUME cpc \in Waiting PROVE Awaiting'
  <2>1. Awaiting
    BY <1>4 DEF SessionInv, SyncInv
  <2>2. CASE Unanswered
    <3>1. Unanswered'
      BY <1>0, <2>2 DEF Unanswered
    <3> QED
      BY <1>0, <2>1, <3>1 DEF Awaiting
  <2>3. CASE BeingAnswered(executed[Len(sent)].writes)
    <3>1. PICK W : W = executed[Len(sent)].writes
      OBVIOUS
    <3>2. BeingAnswered(W)
      BY <2>3, <3>1
    <3>3. PICK left : left = Left(W)
      OBVIOUS
    <3>4. left = Left(W)'
      BY <1>0, <3>3 DEF Left
    <3>5. Matches(left) => Prefix(resps, left)
      <4> SUFFICES ASSUME Matches(left), ~HungUp PROVE Prefix(resps, left)
        BY DEF Matches
      <4>1. PICK r \in Seq(Nat), d \in Seq(Nat) : r = resps /\ d = AnswerLeft
        BY <1>0, SyncTypes
      <4>2. /\ Len(r \o d) = Len(r) + Len(d) /\ Len(r) \in Nat /\ Len(d) \in Nat
            /\ \A i \in 1 .. Len(r) + Len(d) :
                 (r \o d)[i] = IF i <= Len(r) THEN r[i] ELSE d[i - Len(r)]
        BY ConcatProperties, LenProperties
      <4>3. ASSUME NEW i \in 1 .. Len(r) PROVE r[i] = (r \o d)[i]
        <5>1. i \in 1 .. Len(r) + Len(d) /\ i <= Len(r)
          BY <4>2
        <5> QED
          BY <4>2, <5>1
      <4>4. Prefix(r, r \o d)
        BY <4>2, <4>3 DEF Prefix
      <4>5. r \o d = left
        BY <4>1, Zenon DEF Matches
      <4> QED
        BY <4>1, <4>4, <4>5, Zenon
    <3>6. Matches(left) => Matches(left)'
      BY <3>5 DEF Matches, Prefix
    <3>7. BeingAnswered(W)'
      BY <1>0, <3>2, <3>3, <3>4, <3>6 DEF BeingAnswered
    <3> QED
      BY <1>0, <2>1, <3>1, <3>7 DEF Awaiting
  <2> QED
    BY <2>1, <2>2, <2>3 DEF Awaiting
<1> QED
  BY <1>0, <1>1, <1>2, <1>3, <1>4 DEF SyncInv, Waiting

\* The worker reads a field: the client is sending or waiting.
LEMMA SyncRead ==
  ASSUME SessionInv, Next, ReadField
  PROVE  SyncInv'
<1> SUFFICES ASSUME ~outFailed, wpc' # "closed" PROVE SyncInv'
  BY SyncClose DEF SyncInv, ReadField
<1>1. PICK n \in 1 .. Len(sent) : \E c \in 1 .. Sends[sent[n]] :
        /\ n = Len(executed) + 1 /\ reqs # << >> /\ reqs[1] = <<n, c>> /\ wpc = "read"
        /\ \/ c < Sends[sent[n]] /\ wpc' = "read"
           \/ c = Sends[sent[n]] /\ wpc' = "exec"
  BY FieldRead DEF SessionInv
<1>2. PICK c \in 1 .. Sends[sent[n]] :
        /\ n = Len(executed) + 1 /\ reqs # << >> /\ reqs[1] = <<n, c>> /\ wpc = "read"
        /\ \/ c < Sends[sent[n]] /\ wpc' = "read"
           \/ c = Sends[sent[n]] /\ wpc' = "exec"
  BY <1>1
<1>3. /\ cpc' = cpc /\ sent' = sent /\ returned' = returned /\ words' = words /\ need' = need
      /\ resps' = resps /\ executed' = executed /\ answer' = answer /\ SentInv
      /\ outFailed' = outFailed
  BY DEF SessionInv, ReadField
<1>4. Told'
  BY <1>3, ToldStays DEF SessionInv, SyncInv
<1>5. Len(executed) \in Nat /\ Len(sent) \in Nat /\ Len(executed) < Len(sent)
  BY <1>2, <1>3, SyncTypes
<1>6. cpc \notin {"start", "next"}
  BY <1>2, <1>5 DEF SessionInv, SyncInv, Between
<1>7. ASSUME cpc = "send" PROVE Sending'
  <2>1. Sending /\ Len(sent) = n
    BY <1>2, <1>5, <1>7 DEF SessionInv, SyncInv, Sending
  <2>2. wpc' = "read"
    <3> SUFFICES ASSUME c = Sends[sent[n]] PROVE FALSE
      BY <1>2
    <3>1. After(reqs[1]) = <<n + 1, 1>>
      BY <1>2 DEF After
    <3>2. FieldsSent /\ InOrder /\ PipeEnds
      BY <1>2, <1>3 DEF SentInv, PipeInv
    <3>3. sent # << >> /\ field < Sends[Op] /\ field \in Nat /\ Sends[Op] \in 1 .. 5
      BY <1>3, <1>7, <2>1, OpTyped, FieldCount DEF SentInv, ClientInv, TypeOK
    <3>4. NextField = <<n, field + 1>>
      BY <2>1, <3>3 DEF NextField
    <3>5. Len(reqs) \in Nat \ {0}
      BY <1>2, <1>3 DEF SentInv, TypeOK, Fields
    <3>6. CASE Len(reqs) = 1
      BY <1>2, <3>1, <3>2, <3>4, <3>6 DEF PipeEnds
    <3>7. CASE Len(reqs) # 1
      <4>1. 1 \in 1 .. Len(reqs) - 1 /\ 1 + 1 \in 1 .. Len(reqs)
        <5>1. PICK m \in Nat : m = Len(reqs) /\ m # 0 /\ m # 1
          BY <3>5, <3>7
        <5>2. 1 \in 1 .. m - 1 /\ 1 + 1 \in 1 .. m
          BY <5>1
        <5> QED
          BY <5>1, <5>2
      <4>2. reqs[1 + 1] = <<n + 1, 1>>
        BY <3>1, <3>2, <4>1 DEF InOrder
      <4>3. reqs[1 + 1][1] \in 1 .. Len(sent)
        BY <3>2, <4>1 DEF FieldsSent
      <4> QED
        BY <2>1, <4>2, <4>3
    <3> QED
      BY <3>6, <3>7
  <2> QED
    BY <1>2, <1>3, <2>1, <2>2 DEF Sending, Rests
<1>8. ASSUME cpc \in Waiting PROVE Awaiting'
  <2>1. Awaiting
    BY <1>8 DEF SessionInv, SyncInv
  <2>2. Unanswered
    BY <1>5, <2>1 DEF Awaiting, BeingAnswered
  <2>3. Op' = Op
    BY <1>3 DEF Op, Last
  <2>4. Unanswered'
    BY <1>2, <1>3, <2>2, <2>3 DEF Unanswered
  <2> QED
    BY <1>3, <2>1, <2>4 DEF Awaiting
<1> QED
  BY <1>3, <1>4, <1>6, <1>7, <1>8 DEF SyncInv, Waiting

\* The words of an answer, by where the client waits for it.
LEMMA LeftWhole ==
  ASSUME NEW op \in Commands, NEW W \in Answers(op), cpc = Waits(op)
  PROVE  /\ Left(W) = FlattenSeq(W)
         /\ cpc \in {"size", "count", "status"}
         /\ (cpc = "status" => Content(W) = << >>)
<1>1. CASE op \in {"create", "reserve"}
  <2>1. Ended(W) /\ Len(W) = 1
    BY <1>1, StatusAnswer
  <2>2. cpc = "status"
    BY <1>1 DEF Waits
  <2>3. Content(W) = << >> /\ FlattenSeq(W) = <<Status(W)>>
    BY <2>1, StatusWords
  <2> QED
    BY <2>2, <2>3 DEF Left
<1>2. CASE op \in {"show", "list"}
  <2>1. cpc \in {"size", "count"}
    BY <1>2 DEF Waits
  <2> QED
    BY <2>1 DEF Left
<1> QED
  BY <1>1, <1>2

\* The worker executes the last request: all of its answer is left to read.
LEMMA SyncExecute ==
  ASSUME SessionInv, Next, Execute
  PROVE  SyncInv'
<1> SUFFICES ASSUME ~outFailed PROVE SyncInv'
  BY DEF SyncInv, Execute
<1>0. /\ cpc' = cpc /\ sent' = sent /\ returned' = returned /\ words' = words /\ need' = need
      /\ resps' = resps /\ wpc = "exec" /\ wpc' = "answer" /\ outFailed' = outFailed /\ SentInv
  BY DEF SessionInv, Execute
<1>1. Told'
  BY <1>0, ToldStays DEF SessionInv, SyncInv
<1>2. cpc \notin {"start", "next", "send"}
  BY <1>0 DEF SessionInv, SyncInv, Between, Sending, Rests
<1>3. ASSUME cpc \in Waiting PROVE Awaiting'
  <2>1. /\ OpOf(got[1]) = sent[Len(executed) + 1] /\ Len(executed) \in Nat
        /\ Len(executed) + 1 \in 1 .. Len(sent)
    BY <1>0, Executing
  <2>2. Awaiting
    BY <1>3 DEF SessionInv, SyncInv
  <2>3. Unanswered
    BY <2>1, <2>2 DEF Awaiting, BeingAnswered
  <2>4. Len(executed) + 1 = Len(sent) /\ resps = << >> /\ cpc = Waits(Op) /\ words = << >>
    BY <1>0, <2>3 DEF Unanswered
  <2>5. PICK op \in Commands : op = Op /\ op = sent[Len(sent)]
    BY <1>0, <1>3, AwaitingAsked
  <2>6. PICK W \in Answers(op) :
          answer' = W /\ executed' = Append(executed, [fields |-> got, writes |-> W])
    BY <2>1, <2>4, <2>5 DEF Execute
  <2>7. W \in Seq(Seq(Nat)) /\ got \in Fields
    BY <1>0, <2>5, AnswerTyped DEF Ended, SentInv, TypeOK
  <2>8. PICK e \in [fields : Fields, writes : Seq(Seq(Nat))] :
          executed' = Append(executed, e) /\ e.writes = W
    BY <2>6, <2>7
  <2>9. Len(executed') = Len(executed) + 1 /\ executed'[Len(executed) + 1] = e
    BY <1>0, <2>8, SyncTypes, AppendProperties
  <2>10. Len(executed') = Len(sent) /\ executed'[Len(sent)].writes = W
    BY <2>4, <2>8, <2>9
  <2>11. Left(W) = FlattenSeq(W) /\ cpc \in {"size", "count", "status"}
         /\ (cpc = "status" => Content(W) = << >>)
    BY <2>4, <2>5, LeftWhole
  <2>12. FlattenSeq(W) \in Seq(Nat)
    BY <2>7, FlattenType
  <2>13. resps' \o AnswerLeft' = FlattenSeq(W)
    <3>1. AnswerLeft' = FlattenSeq(W) /\ resps' = << >>
      BY <1>0, <2>4, <2>6 DEF AnswerLeft
    <3> QED
      BY <2>12, <3>1, ConcatEmptySeq
  <2>14. Left(W)' = Left(W)
    BY <1>0 DEF Left
  <2>15. Matches(Left(W))'
    <3>1. PICK left : left = Left(W) /\ left = Left(W)'
      BY <2>14
    <3>2. resps' \o AnswerLeft' = left
      BY <2>11, <2>13, <3>1, Zenon
    <3>3. Matches(left)'
      BY <1>0, <3>2 DEF Matches
    <3> QED
      BY <3>1, <3>3 DEF Matches
  <2>16. BeingAnswered(W)'
    BY <1>0, <2>4, <2>10, <2>11, <2>15 DEF BeingAnswered
  <2> QED
    BY <1>0, <2>2, <2>10, <2>16 DEF Awaiting
<1> QED
  BY <1>0, <1>1, <1>2, <1>3 DEF SyncInv, Waiting

\* The worker writes one more part of the answer.
LEMMA SyncWrite ==
  ASSUME SessionInv, Next, WriteAnswer
  PROVE  SyncInv'
<1> SUFFICES ASSUME ~outFailed PROVE SyncInv'
  BY DEF SyncInv, WriteAnswer
<1>0. /\ cpc' = cpc /\ sent' = sent /\ returned' = returned /\ words' = words /\ need' = need
      /\ resps' = resps \o Head(answer) /\ answer' = Tail(answer) /\ executed' = executed
      /\ wpc = "answer" /\ outFailed' = outFailed /\ SentInv
      /\ (answer' = << >> /\ wpc' = "read") \/ (answer' # << >> /\ wpc' = "answer")
  BY DEF SessionInv, WriteAnswer
<1>1. Told'
  BY <1>0, ToldStays DEF SessionInv, SyncInv
<1>2. cpc \notin {"start", "next", "send"}
  BY <1>0 DEF SessionInv, SyncInv, Between, Sending, Rests
<1>3. resps' \o AnswerLeft' = resps \o AnswerLeft
  <2>1. answer \in Seq(Seq(Nat)) /\ answer # << >> /\ resps \in Seq(Nat)
    BY <1>0, SyncTypes DEF SentInv, WorkerInv
  <2>2. PICK h \in Seq(Nat) : h = Head(answer)
    BY <2>1, HeadTailProperties
  <2>3. Tail(answer) \in Seq(Seq(Nat))
    BY <2>1, HeadTailProperties
  <2>4. PICK t \in Seq(Nat) : t = FlattenSeq(Tail(answer))
    BY <2>3, FlattenType
  <2>5. AnswerLeft = h \o t
    BY <1>0, <2>1, <2>2, <2>4, FlattenHead DEF AnswerLeft
  <2>6. AnswerLeft' = t
    <3>1. CASE answer' = << >>
      BY <1>0, <2>4, <3>1, FlattenEmpty DEF AnswerLeft
    <3>2. CASE answer' # << >>
      BY <1>0, <2>4, <3>2 DEF AnswerLeft
    <3> QED
      BY <3>1, <3>2
  <2>7. PICK r \in Seq(Nat) : r = resps
    BY <2>1
  <2>8. (r \o h) \o t = r \o (h \o t)
    BY Associative, ZenonT(30)
  <2>9. resps' = r \o h
    BY <1>0, <2>2, <2>7
  <2> QED
    BY <2>5, <2>6, <2>7, <2>8, <2>9, Zenon
<1>4. ASSUME cpc \in Waiting PROVE Awaiting'
  <2>1. Awaiting
    BY <1>4 DEF SessionInv, SyncInv
  <2>2. PICK W : W = executed[Len(sent)].writes
    OBVIOUS
  <2>3. BeingAnswered(W)
    BY <1>0, <2>1, <2>2 DEF Awaiting, Unanswered
  <2>4. PICK left : left = Left(W)
    OBVIOUS
  <2>5. left = Left(W)'
    BY <1>0, <2>4 DEF Left
  <2>6. resps \o AnswerLeft = left
    BY <1>0, <2>3, <2>4, Zenon DEF BeingAnswered, Matches
  <2>7. resps' \o AnswerLeft' = left
    BY <1>3, <2>6, Zenon
  <2>8. Matches(left)'
    BY <1>0, <2>7 DEF Matches
  <2>9. BeingAnswered(W)'
    <3>1. Matches(Left(W))'
      BY <2>5, <2>8 DEF Matches
    <3> QED
      BY <1>0, <2>3, <3>1 DEF BeingAnswered
  <2> QED
    BY <1>0, <2>1, <2>2, <2>9 DEF Awaiting
<1> QED
  BY <1>0, <1>1, <1>2, <1>4 DEF SyncInv, Waiting

\* The worker keeps SyncInv.
LEMMA SyncWorker ==
  ASSUME SessionInv, Next, Worker \/ WorkerFail
  PROVE  SyncInv'
<1>1. CASE Eof \/ AnswerFail \/ WorkerFail
  BY <1>1, SyncClose DEF Eof, AnswerFail, WorkerFail
<1> QED
  BY <1>1, SyncRead, SyncExecute, SyncWrite DEF Worker

----------------------------------------------------------------------------
(* The steps of the client.                                                *)

\* The client starts, takes its next command, writes a field of it, or dies.
LEMMA SyncSend ==
  ASSUME SessionInv, Next, Start \/ Command \/ SendField \/ SendSigpipe \/ Crash
  PROVE  SyncInv'
<1> SUFFICES ASSUME ~outFailed PROVE SyncInv'
  BY DEF SyncInv, Start, Command, SendField, SendSigpipe, Crash
<1>0. /\ returned' = returned /\ words' = words /\ need' = need /\ resps' = resps
      /\ wpc' = wpc /\ executed' = executed /\ outFailed' = outFailed
      /\ SentInv
  BY DEF SessionInv, Start, Command, SendField, SendSigpipe, Crash
<1>1. Told'
  BY <1>0, ToldStays DEF SessionInv, SyncInv
<1>2. CASE Start
  <2>1. Between /\ cpc' \in {"next", "quit"} /\ sent' = sent
    BY <1>2 DEF Start, SessionInv, SyncInv
  <2>2. Between'
    BY <1>0, <2>1 DEF Between, Rests
  <2> QED
    BY <1>1, <2>1, <2>2 DEF SyncInv, Waiting
<1>3. CASE Command
  <2>1. Between /\ cpc' = "send"
    BY <1>3 DEF Command, SessionInv, SyncInv
  <2>2. Len(sent') = Len(sent) + 1 /\ Len(sent) \in Nat
    <3>1. PICK op \in Ops : sent' = Append(sent, op)
      BY <1>3 DEF Command
    <3>2. sent \in Seq(Ops)
      BY <1>0, SyncTypes
    <3> QED
      BY <3>1, <3>2, AppendProperties, LenProperties
  <2>3. Sending'
    BY <1>0, <2>1, <2>2 DEF Between, Sending, Rests
  <2> QED
    BY <1>1, <2>1, <2>3 DEF SyncInv, Waiting
<1>4. CASE SendField
  <2>1. /\ Sending /\ ~HungUp /\ sent' = sent
        /\ cpc' = IF field' = Sends[Op] THEN Waits(Op) ELSE "send"
    BY <1>4 DEF SendField, SessionInv, SyncInv
  <2>2. CASE cpc' = "send"
    <3>1. Sending'
      BY <1>0, <2>1 DEF Sending, Rests
    <3> QED
      BY <1>1, <2>2, <3>1 DEF SyncInv, Waiting
  <2>3. CASE cpc' = Waits(Op)
    <3>1. sent # << >> /\ Op' = Op
      BY <1>0, <1>4, <2>1 DEF SendField, SentInv, ClientInv, Op, Last
    <3>2. Waits(Op) \in {"quit", "status", "size", "count"}
      BY <1>0, <3>1, OpTyped, WaitsTyped DEF SentInv
    <3>3. Unanswered'
      BY <1>0, <2>1, <2>3, <3>1 DEF Unanswered, Sending, Rests
    <3>4. Awaiting'
      BY <1>0, <2>1, <3>3 DEF Awaiting, Sending
    <3> QED
      BY <1>1, <2>3, <3>2, <3>4 DEF SyncInv, Waiting
  <2> QED
    BY <2>1, <2>2, <2>3
<1>5. CASE SendSigpipe \/ Crash
  <2>1. cpc' = "dead"
    BY <1>5 DEF SendSigpipe, Crash
  <2> QED
    BY <1>1, <2>1 DEF SyncInv, Waiting
<1> QED
  BY <1>2, <1>3, <1>4, <1>5

\* An operation that returns an error has lost the worker.
LEMMA SyncLost ==
  ASSUME SessionInv, Next, Return(1), HungUp, ~outFailed, cpc \in Waiting,
         UNCHANGED <<sent, executed, wpc, outFailed>>
  PROVE  SyncInv'
<1>1. /\ SentInv /\ Told /\ Awaiting /\ executed' = executed /\ sent' = sent
  BY DEF SessionInv, SyncInv
<1>2. Told' /\ Len(returned') = Len(returned) + 1
  BY <1>1, ToldReturn
<1>3. Between' /\ cpc' = "next"
  BY <1>1, <1>2 DEF Between, Rests, Awaiting, Return
<1> QED
  BY <1>2, <1>3 DEF SyncInv, Waiting

\* A client that goes on reading keeps what it has been told.
LEMMA SyncGoesOn ==
  ASSUME SessionInv, Next, ~outFailed, cpc \in Waiting, cpc' \in {"words", "print", "status"},
         UNCHANGED <<returned, sent, executed, wpc, answer, outFailed>>,
         Unanswered' \/ \E W : W = executed[Len(sent)].writes /\ BeingAnswered(W)'
  PROVE  SyncInv'
<1>1. Told'
  BY ToldStays DEF SessionInv, SyncInv
<1>2. Awaiting
  BY DEF SessionInv, SyncInv
<1>3. Awaiting'
  BY <1>2 DEF Awaiting
<1> QED
  BY <1>1, <1>3 DEF SyncInv, Waiting

\* A client that can read n words of an answer the worker does not write any more,
\* or not yet, finds the end of the pipe.
LEMMA ReadNothing ==
  ASSUME SentInv, NEW n \in Nat, Reads(n), resps = << >>
  PROVE  /\ Read(n) = << >> /\ resps' = << >>
         /\ n > 0 => HungUp
<1>1. Len(resps) = 0 /\ resps \in Seq(Nat)
  BY SyncTypes
<1>2. Len(Read(n)) = 0 /\ Read(n) \in Seq(Nat)
  BY <1>1, ReadTyped DEF SentInv
<1>3. SubSeq(resps, n + 1, 0) = << >>
  BY SubSeqEmpty
<1> QED
  BY <1>1, <1>2, <1>3 DEF Reads

\* The client at an answer: the worker has executed its request and answers it.
LEMMA AtAnswer ==
  ASSUME SessionInv, ~outFailed, cpc \in Waiting, resps # << >>
  PROVE  \E W : /\ W = executed[Len(sent)].writes /\ W \in Answers(Op) /\ Ended(W)
                /\ Len(executed) = Len(sent)
                /\ Matches(Left(W)) /\ (~HungUp => wpc \in {"answer", "read"})
                /\ (cpc = "words" => need = Len(Content(W)))
                /\ (cpc \in {"print", "status"} => words = Content(W))
<1>1. PICK W : W = executed[Len(sent)].writes
  OBVIOUS
<1>2. Awaiting /\ SentInv
  BY DEF SessionInv, SyncInv
<1>3. BeingAnswered(W)
  BY <1>1, <1>2 DEF Awaiting, Unanswered
<1>4. W \in Answers(Op) /\ Ended(W)
  BY <1>1, <1>2, <1>3, AwaitingAsked, LastAnswer DEF BeingAnswered
<1> QED
  BY <1>1, <1>3, <1>4 DEF BeingAnswered

\* Where nothing is left to read, the client finds the end of the pipe again.
LEMMA StillNothing ==
  ASSUME SessionInv, ~outFailed, cpc \in {"size", "count", "words", "print"}, HungUp,
         resps = << >>, resps' = << >>, UNCHANGED <<sent, executed, wpc>>
  PROVE  Unanswered' \/ \E W : W = executed[Len(sent)].writes /\ BeingAnswered(W)'
<1>1. Awaiting
  BY DEF SessionInv, SyncInv, Waiting
<1>2. CASE Unanswered
  BY <1>2 DEF Unanswered
<1>3. CASE BeingAnswered(executed[Len(sent)].writes)
  <2>1. PICK W : W = executed[Len(sent)].writes
    OBVIOUS
  <2>2. BeingAnswered(W)'
    BY <1>3, <2>1 DEF BeingAnswered
  <2> QED
    BY <2>1, <2>2
<1> QED
  BY <1>1, <1>2, <1>3 DEF Awaiting

\* The client reads the size of the room.
LEMMA SyncReadSize ==
  ASSUME SessionInv, Next, ReadSize
  PROVE  SyncInv'
<1> SUFFICES ASSUME ~outFailed PROVE SyncInv'
  BY DEF SyncInv, ReadSize
<1>0. /\ cpc = "size" /\ Reads(4) /\ SentInv
      /\ UNCHANGED <<sent, executed, wpc, answer, outFailed>>
  BY DEF SessionInv, ReadSize
<1>1. cpc \in Waiting
  BY <1>0 DEF Waiting
<1>2. CASE resps = << >>
  <2>1. Read(4) = << >> /\ HungUp
    BY <1>0, <1>2, ReadNothing
  <2>2. Len(Read(4)) = 0
    BY <2>1
  <2>3. Return(1)
    BY <2>2 DEF ReadSize
  <2> QED
    BY <1>0, <1>1, <2>1, <2>3, SyncLost
<1>3. CASE resps # << >>
  <2>1. PICK W : /\ W = executed[Len(sent)].writes /\ W \in Answers(Op) /\ Ended(W)
                 /\ Len(executed) = Len(sent)
                 /\ Matches(Left(W)) /\ (~HungUp => wpc \in {"answer", "read"})
    BY <1>1, <1>3, AtAnswer
  <2>2. W \in Answers("show")
    BY <1>0, <2>1 DEF SentInv, ClientInv
  <2>3. Headed(W, 4, W[1][1] * W[1][3])
    BY <2>2, ShowAnswer
  <2>4. PICK c \in Seq(Nat), b \in Seq(Nat), h \in Seq(Nat) :
          c = Content(W) /\ b = c \o <<Status(W)>> /\ h = W[1]
    <3>1. Content(W) \in Seq(Nat) /\ W[1] \in Seq(Nat)
      BY <2>1, <2>3, AnswerWords DEF Headed
    <3>2. <<Status(W)>> \in Seq(Nat)
      BY <2>1 DEF Ended
    <3>3. Content(W) \o <<Status(W)>> \in Seq(Nat)
      BY <3>1, <3>2, ConcatProperties
    <3> QED
      BY <3>1, <3>3
  <2>5. Left(W) = h \o b
    BY <1>0, <2>1, <2>3, <2>4, AnswerWords DEF Headed, Left
  <2>6. Matches(h \o b)
    BY <2>1, <2>5, Zenon
  <2>7. Len(h) = 4
    BY <2>3, <2>4 DEF Headed
  <2>8. \/ Read(4) = h /\ Matches(b)'
        \/ HungUp /\ resps' = << >> /\ Len(Read(4)) < 4
    BY <1>0, <2>6, <2>7, AfterRead
  <2>9. CASE Read(4) = h /\ Matches(b)'
    <3>1. h[2] = 0 /\ h[4] = 0 /\ Len(Content(W)) = h[1] * h[3]
      BY <2>3, <2>4 DEF Headed
    <3>2. need' = h[1] * h[3] /\ cpc' = "words" /\ returned' = returned
      <4>1. PICK w : w = Read(4)
        OBVIOUS
      <4>2. Len(w) = 4 /\ w[2] = 0 /\ w[4] = 0 /\ w = h
        BY <2>7, <2>9, <3>1, <4>1
      <4>3. \/ need' = w[1] * w[3] /\ cpc' = "words" /\ returned' = returned
            \/ ~(Len(w) = 4 /\ w[2] = 0 /\ w[4] = 0)
            \/ Len(w) \in 1 .. 3
        BY <4>1 DEF ReadSize
      <4> QED
        BY <4>2, <4>3
    <3>3. Left(W)' = b
      BY <2>4, <3>2 DEF Left
    <3>4. Matches(Left(W))'
      BY <2>9, <3>3 DEF Matches
    <3>5. BeingAnswered(W)'
      BY <1>0, <2>1, <3>1, <3>2, <3>4 DEF BeingAnswered
    <3> QED
      BY <1>0, <1>1, <2>1, <3>2, <3>5, SyncGoesOn
  <2>10. CASE HungUp /\ Len(Read(4)) < 4
    <3>1. CASE Return(1)
      BY <1>0, <1>1, <2>10, <3>1, SyncLost
    <3>2. CASE cpc' = "dead" /\ UNCHANGED returned
      <4>1. Told'
        BY <1>0, <3>2, ToldStays DEF SessionInv, SyncInv
      <4> QED
        BY <3>2, <4>1 DEF SyncInv, Waiting
    <3>3. ~(Len(Read(4)) = 4)
      <4>1. PICK l : l = Len(Read(4))
        OBVIOUS
      <4>2. l < 4
        BY <2>10, <4>1
      <4>3. l \in Nat
        <5>1. TypeOK
          BY <1>0 DEF SentInv
        <5>2. Read(4) \in Seq(Nat)
          BY <5>1, ReadTyped
        <5> QED
          BY <4>1, <5>2, LenProperties
      <4>4. l # 4
        BY <4>2, <4>3
      <4> QED
        BY <4>1, <4>4, Zenon
    <3> QED
      BY <3>1, <3>2, <3>3 DEF ReadSize
  <2> QED
    BY <2>8, <2>9, <2>10
<1> QED
  BY <1>2, <1>3

\* A number is 0 where its words are missing.
LEMMA Padded ==
  ASSUME NEW r \in Seq(Nat), NEW l \in Nat, l = Len(r)
  PROVE  /\ l < 2 => (r \o <<0, 0>>)[2] = 0
         /\ l = 2 => (r \o <<0, 0>>)[1] = r[1] /\ (r \o <<0, 0>>)[2] = r[2]
<1>0. <<0, 0>> \in Seq(Nat) /\ Len(<<0, 0>>) = 2 /\ <<0, 0>>[1] = 0 /\ <<0, 0>>[2] = 0
  OBVIOUS
<1>1. PICK z \in Seq(Nat) : z = <<0, 0>> /\ Len(z) = 2 /\ z[1] = 0 /\ z[2] = 0
  BY <1>0, Zenon
<1>2. Len(z) = 2 /\ z[1] = 0 /\ z[2] = 0
  BY <1>1, Zenon
<1>3. PICK q : q = r \o z
  OBVIOUS
<1>4. \A i \in 1 .. l + 2 : q[i] = IF i <= l THEN r[i] ELSE z[i - l]
  <2>1. \A i \in 1 .. Len(r) + Len(z) : (r \o z)[i] = IF i <= Len(r) THEN r[i] ELSE z[i - Len(r)]
    BY ConcatProperties
  <2> QED
    BY <2>1, <1>2, <1>3, Zenon
<1>5. l < 2 => q[2] = 0
  <2>1. ASSUME l = 0 PROVE q[2] = 0
    <3>1. 2 \in 1 .. l + 2 /\ ~(2 <= l) /\ 2 - l = 2
      BY <2>1
    <3> QED
      BY <1>2, <1>4, <3>1
  <2>2. ASSUME l = 1 PROVE q[2] = 0
    <3>1. 2 \in 1 .. l + 2 /\ ~(2 <= l) /\ 2 - l = 1
      BY <2>2
    <3> QED
      BY <1>2, <1>4, <3>1
  <2>3. l < 2 => l = 0 \/ l = 1
    OBVIOUS
  <2> QED
    BY <2>1, <2>2, <2>3, Zenon
<1>7. l = 2 => (q[1] = r[1] /\ q[2] = r[2])
  <2> SUFFICES ASSUME l = 2 PROVE q[1] = r[1] /\ q[2] = r[2]
    OBVIOUS
  <2>1. 1 \in 1 .. l + 2 /\ 1 <= l /\ 2 \in 1 .. l + 2 /\ 2 <= l
    OBVIOUS
  <2> QED
    BY <1>4, <2>1
<1> QED
  BY <1>1, <1>3, <1>5, <1>7, Zenon

\* The client reads the number of events.
LEMMA SyncReadCount ==
  ASSUME SessionInv, Next, ReadCount
  PROVE  SyncInv'
<1> SUFFICES ASSUME ~outFailed PROVE SyncInv'
  BY DEF SyncInv, ReadCount
<1>0. /\ cpc = "count" /\ Reads(2) /\ SentInv
      /\ UNCHANGED <<sent, executed, wpc, answer, outFailed>>
  BY DEF SessionInv, ReadCount
<1>1. cpc \in Waiting
  BY <1>0 DEF Waiting
<1>2. PICK w : w = Read(2) \o <<0, 0>>
  OBVIOUS
<1>3. ASSUME w[2] = 0
      PROVE  need' = w[1] /\ cpc' = "words" /\ UNCHANGED <<words, returned>>
  BY <1>2, <1>3 DEF ReadCount
<1>4. CASE resps = << >>
  <2>1. Read(2) = << >> /\ HungUp /\ resps' = << >>
    BY <1>0, <1>4, ReadNothing
  <2>2. w[2] = 0
    <3>1. PICK r \in Seq(Nat) : r = << >>
      BY EmptySeq
    <3>2. Len(r) = 0
      BY <3>1
    <3>3. (r \o <<0, 0>>)[2] = 0
      BY <3>2, Padded
    <3> QED
      BY <1>2, <2>1, <3>1, <3>3, Zenon
  <2>3. Unanswered' \/ \E W : W = executed[Len(sent)].writes /\ BeingAnswered(W)'
    BY <1>0, <1>4, <2>1, StillNothing
  <2> QED
    BY <1>0, <1>1, <1>3, <2>2, <2>3, SyncGoesOn
<1>5. CASE resps # << >>
  <2>1. PICK W : /\ W = executed[Len(sent)].writes /\ W \in Answers(Op) /\ Ended(W)
                 /\ Len(executed) = Len(sent)
                 /\ Matches(Left(W)) /\ (~HungUp => wpc \in {"answer", "read"})
    BY <1>1, <1>5, AtAnswer
  <2>2. W \in Answers("list")
    BY <1>0, <2>1 DEF SentInv, ClientInv
  <2>3. Headed(W, 2, W[1][1])
    BY <2>2, ListAnswer
  <2>4. PICK c \in Seq(Nat), b \in Seq(Nat), h \in Seq(Nat) :
          c = Content(W) /\ b = c \o <<Status(W)>> /\ h = W[1]
    <3>1. Content(W) \in Seq(Nat) /\ W[1] \in Seq(Nat)
      BY <2>1, <2>3, AnswerWords DEF Headed
    <3>2. <<Status(W)>> \in Seq(Nat)
      BY <2>1 DEF Ended
    <3>3. Content(W) \o <<Status(W)>> \in Seq(Nat)
      BY <3>1, <3>2, ConcatProperties
    <3> QED
      BY <3>1, <3>3
  <2>5. Left(W) = h \o b
    BY <1>0, <2>1, <2>3, <2>4, AnswerWords DEF Headed, Left
  <2>6. Matches(h \o b)
    BY <2>1, <2>5, Zenon
  <2>7. Len(h) = 2 /\ h[2] = 0 /\ Len(c) = h[1]
    BY <2>3, <2>4 DEF Headed
  <2>8. \/ Read(2) = h /\ Matches(b)'
        \/ HungUp /\ resps' = << >> /\ Len(Read(2)) < 2 /\ Prefix(Read(2), h)
    BY <1>0, <2>6, <2>7, AfterRead
  <2>9. CASE Read(2) = h /\ Matches(b)'
    <3>1. w[1] = h[1] /\ w[2] = 0
      <4>1. w = h \o <<0, 0>>
        BY <1>2, <2>9, Zenon
      <4>2. (h \o <<0, 0>>)[1] = h[1] /\ (h \o <<0, 0>>)[2] = h[2]
        BY <2>7, Padded
      <4> QED
        BY <2>7, <4>1, <4>2, Zenon
    <3>2. Left(W)' = b
      BY <1>3, <2>4, <3>1 DEF Left
    <3>3. Matches(Left(W))'
      BY <2>9, <3>2 DEF Matches
    <3>4. BeingAnswered(W)'
      BY <1>0, <1>3, <2>1, <2>4, <2>7, <3>1, <3>3 DEF BeingAnswered
    <3> QED
      BY <1>0, <1>1, <1>3, <2>1, <3>1, <3>4, SyncGoesOn
  <2>10. CASE HungUp /\ resps' = << >> /\ Len(Read(2)) < 2
    <3>1. PICK r \in Seq(Nat) : r = Read(2)
      <4>1. TypeOK
        BY <1>0 DEF SentInv
      <4> QED
        BY <4>1, ReadTyped
    <3>2. PICK l \in Nat : l = Len(r)
      BY LenProperties
    <3>3. l < 2
      BY <2>10, <3>1, <3>2
    <3>4. (r \o <<0, 0>>)[2] = 0
      BY <3>2, <3>3, Padded
    <3>5. w[2] = 0
      BY <1>2, <3>1, <3>4, Zenon
    <3>6. BeingAnswered(W)'
      BY <1>0, <2>1, <2>10 DEF BeingAnswered
    <3> QED
      BY <1>0, <1>1, <1>3, <2>1, <3>5, <3>6, SyncGoesOn
  <2> QED
    BY <2>8, <2>9, <2>10
<1> QED
  BY <1>4, <1>5

\* The client reads the seats or ids.
LEMMA SyncReadWords ==
  ASSUME SessionInv, Next, ReadWords
  PROVE  SyncInv'
<1> SUFFICES ASSUME ~outFailed PROVE SyncInv'
  BY DEF SyncInv, ReadWords
<1>0. /\ cpc = "words" /\ Reads(need) /\ SentInv /\ need \in Nat
      /\ UNCHANGED <<sent, executed, wpc, answer, outFailed, returned>>
      /\ cpc' = "print" /\ words' = Read(need) \o [i \in 1 .. need - Len(Read(need)) |-> Garbage]
  BY SyncTypes DEF SessionInv, ReadWords
<1>1. cpc \in Waiting
  BY <1>0 DEF Waiting
<1>2. CASE HungUp /\ resps = << >>
  <2>1. resps' = << >>
    BY <1>0, <1>2, ReadNothing
  <2>2. Unanswered' \/ \E W : W = executed[Len(sent)].writes /\ BeingAnswered(W)'
    BY <1>0, <1>2, <2>1, StillNothing
  <2> QED
    BY <1>0, <1>1, <2>2, SyncGoesOn
<1>3. CASE ~(HungUp /\ resps = << >>)
  <2>1. Awaiting
    BY <1>1 DEF SessionInv, SyncInv
  <2>2. ~Unanswered
    <3> SUFFICES ASSUME Unanswered PROVE FALSE
      OBVIOUS
    <3>1. cpc = Waits(Op) /\ Op \in Ops
      BY <1>0, <1>1, <1>3, AwaitingAsked DEF Unanswered
    <3> QED
      BY <1>0, <3>1, WaitsTyped DEF Waits
  <2>3. PICK W : W = executed[Len(sent)].writes
    OBVIOUS
  <2>4. BeingAnswered(W)
    BY <2>1, <2>2, <2>3 DEF Awaiting
  <2>5. /\ Len(executed) = Len(sent)
        /\ Matches(Left(W)) /\ (~HungUp => wpc \in {"answer", "read"})
        /\ need = Len(Content(W))
    BY <1>0, <1>3, <2>4 DEF BeingAnswered
  <2>6. W \in Answers(Op) /\ Ended(W) /\ Op \in {"show", "list"}
    <3>1. sent # << >>
      BY <1>0, <1>1, AwaitingAsked
    <3> QED
      BY <1>0, <2>3, <2>5, <3>1, LastAnswer DEF SentInv, ClientInv
  <2>7. Len(W) >= 2
    BY <2>6, ShowAnswer, ListAnswer DEF Headed
  <2>8. PICK c \in Seq(Nat), z \in Seq(Nat) : c = Content(W) /\ z = <<Status(W)>>
    <3>1. Content(W) \in Seq(Nat)
      BY <2>6, <2>7, AnswerWords
    <3>2. <<Status(W)>> \in Seq(Nat)
      BY <2>6 DEF Ended
    <3> QED
      BY <3>1, <3>2
  <2>9. Matches(c \o z) /\ need = Len(c)
    BY <1>0, <2>5, <2>8 DEF Left
  <2>10. \/ Read(need) = c /\ Matches(z)'
         \/ HungUp /\ resps' = << >>
    BY <1>0, <2>9, AfterRead
  <2>11. CASE Read(need) = c /\ Matches(z)'
    <3>1. words' = c
      <4>1. PICK l \in Nat : l = Len(c) /\ l = need
        BY <2>9, LenProperties
      <4>2. [i \in 1 .. l - l |-> Garbage] = << >>
        OBVIOUS
      <4>3. words' = c \o [i \in 1 .. l - l |-> Garbage]
        BY <1>0, <2>11, <4>1, Zenon
      <4>4. c \o << >> = c
        BY ConcatEmptySeq
      <4> QED
        BY <4>2, <4>3, <4>4, Zenon
    <3>2. Left(W)' = z
      BY <1>0, <2>8 DEF Left
    <3>3. Matches(Left(W))'
      BY <2>11, <3>2 DEF Matches
    <3>4. BeingAnswered(W)'
      BY <1>0, <2>5, <2>8, <3>1, <3>3 DEF BeingAnswered
    <3> QED
      BY <1>0, <1>1, <2>3, <3>4, SyncGoesOn
  <2>12. CASE HungUp /\ resps' = << >>
    <3>1. BeingAnswered(W)'
      BY <1>0, <2>5, <2>12 DEF BeingAnswered
    <3> QED
      BY <1>0, <1>1, <2>3, <3>1, SyncGoesOn
  <2> QED
    BY <2>10, <2>11, <2>12
<1> QED
  BY <1>2, <1>3

\* The client writes its output.
LEMMA SyncOutput ==
  ASSUME SessionInv, Next, Output
  PROVE  SyncInv'
<1> SUFFICES ASSUME ~outFailed PROVE SyncInv'
  BY DEF SyncInv, Output
<1>0. /\ cpc = "print" /\ cpc' = "status" /\ SentInv
      /\ UNCHANGED <<sent, executed, wpc, answer, outFailed, returned, resps, words, need>>
  BY DEF SessionInv, Output
<1>1. cpc \in Waiting
  BY <1>0 DEF Waiting
<1>2. Awaiting
  BY <1>1 DEF SessionInv, SyncInv
<1>3. CASE Unanswered
  <2>1. HungUp
    <3> SUFFICES ASSUME ~HungUp PROVE FALSE
      OBVIOUS
    <3>1. cpc = Waits(Op) /\ Op \in Ops
      BY <1>0, <1>1, <1>3, AwaitingAsked DEF Unanswered
    <3> QED
      BY <1>0, <3>1, WaitsTyped DEF Waits
  <2>2. Unanswered'
    BY <1>0, <1>3, <2>1 DEF Unanswered
  <2> QED
    BY <1>0, <1>1, <2>2, SyncGoesOn
<1>4. CASE BeingAnswered(executed[Len(sent)].writes)
  <2>1. PICK W : W = executed[Len(sent)].writes
    OBVIOUS
  <2>2. BeingAnswered(W)
    BY <1>4, <2>1
  <2>3. Left(W)' = Left(W)
    BY <1>0 DEF Left
  <2>4. Matches(Left(W)) => Matches(Left(W))'
    BY <1>0, <2>3 DEF Matches, AnswerLeft, Prefix
  <2>5. BeingAnswered(W)'
    BY <1>0, <2>2, <2>4 DEF BeingAnswered
  <2> QED
    BY <1>0, <1>1, <2>1, <2>5, SyncGoesOn
<1> QED
  BY <1>2, <1>3, <1>4 DEF Awaiting

\* When nothing of an answer is left, the worker waits for the next request.
LEMMA NothingLeft ==
  ASSUME SentInv, NEW r \in Seq(Nat), ~HungUp, wpc \in {"answer", "read"},
         r \o AnswerLeft = << >>
  PROVE  r = << >> /\ wpc = "read"
<1>1. PICK d \in Seq(Nat) : d = AnswerLeft
  BY SyncTypes
<1>2. r \o d = << >>
  BY <1>1, Zenon
<1>3. Len(r \o d) = Len(r) + Len(d) /\ Len(r) \in Nat /\ Len(d) \in Nat
  BY ConcatProperties, LenProperties
<1>4. Len(r) = 0 /\ Len(d) = 0
  <2>1. Len(r \o d) = 0
    BY <1>2
  <2> QED
    BY <1>3, <2>1
<1>5. r = << >>
  BY <1>4, EmptySeq
<1>6. wpc # "answer"
  <2> SUFFICES ASSUME wpc = "answer" PROVE FALSE
    OBVIOUS
  <2>1. answer # << >> /\ Len(Last(answer)) = 1 /\ answer \in Seq(Seq(Nat))
    BY SyncTypes DEF SentInv, WorkerInv
  <2>2. PICK s \in Seq(Seq(Nat)), x \in Seq(Nat) : answer = Append(s, x)
    BY <2>1, SequenceEmptyOrAppend
  <2>3. Last(answer) = x
    BY <2>1, <2>2, AppendProperties DEF Last
  <2>4. PICK g \in Seq(Nat) : g = FlattenSeq(s)
    BY FlattenType
  <2>5. FlattenSeq(answer) = g \o x
    BY <2>2, <2>4, FlattenAppend
  <2>6. d = g \o x
    BY <1>1, <2>5 DEF AnswerLeft
  <2>7. Len(g \o x) = Len(g) + Len(x) /\ Len(g) \in Nat /\ Len(x) = 1
    BY <2>1, <2>3, ConcatProperties, LenProperties
  <2> QED
    BY <1>4, <2>6, <2>7
<1> QED
  BY <1>5, <1>6

\* The client reads the status.
LEMMA SyncReadStatus ==
  ASSUME SessionInv, Next, ReadStatus
  PROVE  SyncInv'
<1> SUFFICES ASSUME ~outFailed PROVE SyncInv'
  BY DEF SyncInv, ReadStatus
<1>0. /\ cpc = "status" /\ Reads(1) /\ SentInv
      /\ UNCHANGED <<sent, executed, wpc, answer, outFailed>>
      /\ Return(IF Read(1) = << >> THEN 1 ELSE Read(1)[1])
  BY DEF SessionInv, ReadStatus
<1>1. cpc \in Waiting
  BY <1>0 DEF Waiting
<1>2. ASSUME Read(1) = << >>, HungUp PROVE SyncInv'
  <2>1. Return(1)
    BY <1>0, <1>2
  <2> QED
    BY <1>0, <1>1, <1>2, <2>1, SyncLost
<1>3. CASE resps = << >>
  <2>1. Read(1) = << >> /\ HungUp
    BY <1>0, <1>3, ReadNothing
  <2> QED
    BY <1>2, <2>1
<1>4. CASE resps # << >>
  <2>1. PICK W : /\ W = executed[Len(sent)].writes /\ W \in Answers(Op) /\ Ended(W)
                 /\ Len(executed) = Len(sent)
                 /\ Matches(Left(W)) /\ (~HungUp => wpc \in {"answer", "read"})
                 /\ words = Content(W)
    BY <1>0, <1>1, <1>4, AtAnswer
  <2>2. PICK z \in Nat, a \in Seq(Nat), e \in Seq(Nat) : z = Status(W) /\ a = <<z>> /\ e = << >>
    <3>1. Status(W) \in Nat
      BY <2>1 DEF Ended
    <3>2. <<Status(W)>> \in Seq(Nat) /\ << >> \in Seq(Nat)
      BY <3>1
    <3> QED
      BY <3>1, <3>2, Zenon
  <2>3. a \o e = a
    BY <2>2, ConcatEmptySeq
  <2>4. Matches(a)
    <3>1. Left(W) = a
      BY <1>0, <2>2 DEF Left
    <3> QED
      BY <2>1, <3>1, Zenon
  <2>5. Matches(a \o e)
    BY <2>3, <2>4, Zenon
  <2>6. Len(a) = 1 /\ a[1] = z /\ a # << >>
    BY <2>2
  <2>7. \/ Read(1) = a /\ Matches(e)'
        \/ HungUp /\ Len(Read(1)) < 1
    BY <1>0, <2>5, <2>6, AfterRead
  <2>8. CASE Read(1) = a /\ Matches(e)'
    <3>1. Return(z)
      BY <1>0, <2>6, <2>8
    <3>2. Told /\ Awaiting /\ Len(returned) + 1 = Len(executed) /\ Len(executed) \in Nat
      BY <1>0, <1>1, <2>1, SyncTypes DEF SessionInv, SyncInv, Awaiting
    <3>3. Told' /\ Len(returned') = Len(returned) + 1
      <4>1. z = 0 => /\ Len(returned) + 1 <= Len(executed)
                     /\ Status(executed[Len(returned) + 1].writes) = 0
                     /\ words = Content(executed[Len(returned) + 1].writes)
        <5>1. PICK k : k = Len(returned) + 1
          OBVIOUS
        <5>2. k = Len(sent) /\ k = Len(executed)
          BY <2>1, <3>2, <5>1
        <5>3. W = executed[k].writes
          BY <2>1, <5>2, Zenon
        <5>4. k <= Len(executed)
          BY <3>2, <5>2
        <5> QED
          BY <2>1, <2>2, <5>1, <5>3, <5>4, Zenon
      <4> QED
        BY <1>0, <3>1, <3>2, <4>1, ToldReturn
    <3>4. HungUp \/ (wpc' = "read" /\ resps' = << >>)
      <4> SUFFICES ASSUME ~HungUp PROVE wpc' = "read" /\ resps' = << >>
        OBVIOUS
      <4>1. AnswerLeft' = AnswerLeft
        BY <1>0 DEF AnswerLeft
      <4>2. resps' \o AnswerLeft = << >>
        BY <1>0, <2>2, <2>8, <4>1 DEF Matches
      <4>3. resps' \in Seq(Nat)
        BY <1>0, ReadTyped DEF Reads, SentInv
      <4> QED
        BY <1>0, <2>1, <4>2, <4>3, NothingLeft
    <3>5. Between' /\ cpc' = "next"
      BY <1>0, <2>1, <3>1, <3>2, <3>3, <3>4 DEF Between, Rests, Return
    <3> QED
      BY <3>3, <3>5 DEF SyncInv, Waiting
  <2>9. CASE HungUp /\ Len(Read(1)) < 1
    <3>1. PICK r \in Seq(Nat) : r = Read(1)
      BY <1>0, ReadTyped DEF SentInv
    <3>2. PICK l \in Nat : l = Len(r)
      BY LenProperties
    <3>3. l < 1
      BY <2>9, <3>1, <3>2
    <3>4. Len(r) = 0
      BY <3>2, <3>3
    <3>5. Read(1) = << >>
      BY <3>1, <3>4, EmptySeq
    <3> QED
      BY <1>2, <2>9, <3>5
  <2> QED
    BY <2>7, <2>8, <2>9
<1> QED
  BY <1>3, <1>4

----------------------------------------------------------------------------
(* The theorems.                                                           *)

\* SyncInv holds when the session begins.
LEMMA SyncInitially == Init => SyncInv
BY DEF Init, SyncInv, Told, Between, Rests, Waiting

\* Every step keeps it.
LEMMA SyncKept == SessionInv /\ [Next]_vars => SyncInv'
<1> SUFFICES ASSUME SessionInv, [Next]_vars PROVE SyncInv'
  OBVIOUS
<1>1. CASE Next
  <2>1. CASE OutputFail
    BY <2>1 DEF OutputFail, SyncInv
  <2> QED
    BY <1>1, <2>1, SyncWorker, SyncSend, SyncReadSize, SyncReadCount, SyncReadWords, SyncOutput,
       SyncReadStatus DEF Next, Client, Fault
<1>2. CASE UNCHANGED vars
  BY <1>2 DEF vars, SessionInv, SyncInv, Told, Done, Between, Sending, Awaiting, Rests, Unanswered,
              BeingAnswered, Matches, AnswerLeft, Left, Prefix, Op, Last
<1> QED
  BY <1>1, <1>2

\* What the client and the worker have done, and what is in the two pipes between
\* them, fit together in every state of a session.
THEOREM SessionInvariance == Spec => []SessionInv
<1>1. Init => SessionInv
  BY SentInitially, SyncInitially DEF SessionInv
<1>2. SessionInv /\ [Next]_vars => SessionInv'
  BY SentKept, SyncKept DEF SessionInv
<1> QED
  BY <1>1, <1>2, PTL DEF Spec

\* Every variable of a session holds a value of its type.
THEOREM SessionTyped == Spec => []TypeOK
<1>1. SessionInv => TypeOK
  BY DEF SessionInv, SentInv
<1> QED
  BY <1>1, SessionInvariance, PTL

\* The worker executes the client's requests in order, each once and whole.
THEOREM RequestsExecutedAsSent == Spec => []ExecutedAsSent
<1>1. SessionInv => ExecutedAsSent
  BY DEF SessionInv, SentInv, ExecutedInv, ExecutedAsSent, Full
<1> QED
  BY <1>1, SessionInvariance, PTL

\* An operation that returns 0 was executed with status 0, and printed what the
\* server sent.
THEOREM SessionReturnsTrue == Spec => []ReturnsTrue
<1>1. SessionInv => ReturnsTrue
  BY DEF SessionInv, SyncInv, Told, ReturnsTrue
<1> QED
  BY <1>1, SessionInvariance, PTL

\* Between two commands the pipes are empty and the worker waits.
THEOREM SessionInStep == Spec => []InStep
<1>1. SessionInv => InStep
  <2> SUFFICES ASSUME SessionInv, cpc = "next", ~HungUp, ~outFailed
               PROVE  reqs = << >> /\ resps = << >> /\ wpc = "read" /\ got = << >>
    BY DEF InStep
  <2>1. /\ SentInv /\ wpc = "read" /\ resps = << >> /\ Len(executed) = Len(sent)
    BY DEF SessionInv, SyncInv, Between, Rests
  <2>2. Len(sent) \in Nat
    BY <2>1, SyncTypes
  <2>3. got = << >>
    BY <2>1, <2>2 DEF SentInv, WorkerInv
  <2>4. reqs = << >>
    <3> SUFFICES ASSUME reqs # << >> PROVE FALSE
      OBVIOUS
    <3>1. FieldsSent /\ reqs[1] = <<Len(executed) + 1, Len(got) + 1>>
      BY <2>1 DEF SentInv, PipeInv, PipeEnds, Awaited
    <3>2. 1 \in 1 .. Len(reqs)
      BY <2>1 DEF SentInv, TypeOK, Fields
    <3>3. reqs[1][1] \in 1 .. Len(sent)
      BY <3>1, <3>2 DEF FieldsSent
    <3> QED
      BY <2>1, <2>2, <3>1, <3>3
  <2> QED
    BY <2>1, <2>3, <2>4
<1> QED
  BY <1>1, SessionInvariance, PTL

----------------------------------------------------------------------------
(* No deadlock.                                                            *)

\* A worker that waits for a request with none in the pipe has executed all.
LEMMA AllExecuted ==
  ASSUME SentInv, WorkerWaits, cpc \in Waiting
  PROVE  Len(executed) = Len(sent)
<1>1. Len(executed) \in Nat /\ Len(sent) \in Nat
  BY SyncTypes
<1>2. Awaited = NextField /\ wpc = "read"
  BY DEF SentInv, PipeInv, PipeEnds, WorkerWaits
<1>3. Awaited = <<Len(executed) + 1, Len(got) + 1>>
  BY <1>2 DEF Awaited
<1>4. NextField = <<Len(sent) + 1, 1>>
  BY DEF SentInv, ClientInv, NextField
<1>5. Awaited[1] = Len(executed) + 1 /\ NextField[1] = Len(sent) + 1
  BY <1>3, <1>4
<1> QED
  BY <1>1, <1>2, <1>5

\* It has written its answers too: what the client still has to read of the last
\* one is in the response pipe.
LEMMA AllAnswered ==
  ASSUME SessionInv, ~outFailed, WorkerWaits, cpc \in Waiting, ~HungUp
  PROVE  \E W : /\ W \in Answers(Op) /\ Ended(W) /\ resps = Left(W)
                /\ cpc = "words" => need = Len(Content(W))
<1>1. Awaiting /\ SentInv
  BY DEF SessionInv, SyncInv
<1>2. Len(executed) = Len(sent) /\ Len(sent) \in Nat
  BY <1>1, AllExecuted, SyncTypes
<1>3. PICK W : W = executed[Len(sent)].writes
  OBVIOUS
<1>4. BeingAnswered(W)
  BY <1>1, <1>2, <1>3 DEF Awaiting, Unanswered
<1>5. W \in Answers(Op) /\ Ended(W)
  BY <1>1, <1>2, <1>3, AwaitingAsked, LastAnswer
<1>6. resps = Left(W)
  <2>1. Matches(Left(W))
    BY <1>4 DEF BeingAnswered
  <2>2. PICK l : l = Left(W)
    OBVIOUS
  <2>3. resps \o << >> = l
    BY <2>1, <2>2 DEF Matches, AnswerLeft, WorkerWaits
  <2>4. resps \in Seq(Nat)
    BY <1>1, SyncTypes
  <2> QED
    BY <2>2, <2>3, <2>4, ConcatEmptySeq
<1> QED
  BY <1>4, <1>5, <1>6 DEF BeingAnswered

\* What comes after the header.
LEMMA AfterHeader ==
  ASSUME NEW W, Ended(W), Len(W) >= 2
  PROVE  Content(W) \in Seq(Nat) /\ <<Status(W)>> \in Seq(Nat) /\ Len(<<Status(W)>>) = 1
<1>1. PICK z \in Nat : z = Status(W)
  BY DEF Ended
<1>2. <<z>> \in Seq(Nat) /\ Len(<<z>>) = 1
  OBVIOUS
<1> QED
  BY <1>1, <1>2, AnswerWords

\* The words of an answer to SHOW or LIST are its header and one more at least.
LEMMA HeaderComes ==
  ASSUME NEW W, NEW n \in Nat, NEW c, Ended(W), Headed(W, n, c)
  PROVE  Len(FlattenSeq(W)) >= n
<1>1. Len(W) >= 2 /\ Len(W[1]) = n
  BY DEF Headed
<1>2. PICK h \in Seq(Nat) : h = W[1]
  BY <1>1, AnswerWords
<1>3. PICK r \in Seq(Nat) : r = Content(W) \o <<Status(W)>>
  <2>1. Content(W) \in Seq(Nat) /\ <<Status(W)>> \in Seq(Nat)
    BY <1>1, AfterHeader
  <2> QED
    BY <2>1, ConcatProperties
<1>4. FlattenSeq(W) = h \o r
  BY <1>1, <1>2, <1>3, AnswerWords
<1>5. Len(h \o r) = Len(h) + Len(r) /\ Len(r) \in Nat /\ Len(h) = n
  BY <1>1, <1>2, ConcatProperties, LenProperties
<1> QED
  BY <1>4, <1>5

\* The client and the worker never wait for each other: what handle_requests
\* writes is as long as what the functions of api.c read, and the reverse.
THEOREM SessionNeverStuck == Spec => []NeverBothWait
<1>1. ASSUME SessionInv, ~outFailed, ClientWaits, WorkerWaits PROVE FALSE
  <2>0. SentInv /\ ~HungUp /\ cpc \in Waiting
    BY <1>1 DEF SessionInv, ClientWaits, Waiting
  <2>1. PICK W : /\ W \in Answers(Op) /\ Ended(W) /\ resps = Left(W)
                 /\ cpc = "words" => need = Len(Content(W))
    BY <1>1, <2>0, AllAnswered
  <2>2. CASE cpc = "size"
    <3>1. W \in Answers("show")
      BY <2>0, <2>1, <2>2 DEF SentInv, ClientInv
    <3>2. Len(FlattenSeq(W)) >= 4
      BY <3>1, ShowAnswer, HeaderComes
    <3>3. Len(resps) < 4
      BY <1>1, <2>2 DEF ClientWaits
    <3> QED
      BY <2>1, <2>2, <3>2, <3>3 DEF Left
  <2>3. CASE cpc = "count"
    <3>1. W \in Answers("list")
      BY <2>0, <2>1, <2>3 DEF SentInv, ClientInv
    <3>2. Len(FlattenSeq(W)) >= 2
      BY <3>1, ListAnswer, HeaderComes
    <3>3. Len(resps) < 2
      BY <1>1, <2>3 DEF ClientWaits
    <3> QED
      BY <2>1, <2>3, <3>2, <3>3 DEF Left
  <2>4. CASE cpc = "words"
    <3>1. Len(resps) < need /\ need = Len(Content(W))
      BY <1>1, <2>1, <2>4 DEF ClientWaits
    <3>2. resps = Content(W) \o <<Status(W)>>
      BY <2>1, <2>4 DEF Left
    <3>3. Content(W) \in Seq(Nat) /\ <<Status(W)>> \in Seq(Nat) /\ Len(<<Status(W)>>) = 1
      <4>1. Op \in {"show", "list"}
        BY <2>0, <2>4 DEF SentInv, ClientInv
      <4>2. Len(W) >= 2
        BY <2>1, <4>1, ShowAnswer, ListAnswer DEF Headed
      <4> QED
        BY <2>1, <4>2, AfterHeader
    <3>4. Len(resps) = Len(Content(W)) + 1 /\ Len(Content(W)) \in Nat
      BY <3>2, <3>3, ConcatProperties, LenProperties
    <3> QED
      BY <3>1, <3>4
  <2>5. CASE cpc = "status"
    BY <1>1, <2>1, <2>5 DEF Left, ClientWaits
  <2> QED
    BY <2>2, <2>3, <2>4, <2>5, <1>1 DEF ClientWaits
<1>2. SessionInv => NeverBothWait
  BY <1>1 DEF NeverBothWait
<1> QED
  BY <1>2, SessionInvariance, PTL

=============================================================================
