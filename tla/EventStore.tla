----------------------------- MODULE EventStore -----------------------------
(***************************************************************************)
(* What the event store promises its clients, without locks: CREATE,       *)
(* RESERVE and LIST take effect, or are refused, in one step between the   *)
(* request and its answer.  SHOW is weaker: it reads the seats one by one, *)
(* and may miss a seat only of a reservation that is not yet acknowledged. *)
(***************************************************************************)
EXTENDS Integers, Sequences, FiniteSets

CONSTANTS Clients, Requests, NoRequest

VARIABLES
  events,  \* the events created, oldest first
  seats,   \* for each event, the reservation that owns each seat (0: none)
  phase,   \* per client: "idle", "called" or "answered"
  request, \* per client: the request it waits for
  grant,   \* per client: the <<event, reservation>> its RESERVE was granted
  target,  \* per client: the event SHOW has found
  sent,    \* per client: the values sent back so far
  result   \* per client: the final status

vars == <<events, seats, phase, request, grant, target, sent, result>>

NoGrant  == <<0, 0>>
NoTarget == 0

Found(id) == {e \in 1 .. Len(events) : events[e].id = id}
Index(e, seat) == (seat[1] - 1) * events[e].cols + seat[2] - 1
\* A seat is its row and its column, in the order of api.h ("xs Array of rows of
\* the seats to reserve") and operations.h.  Both READMEs have it the other way
\* round; the store does not keep that promise.
Exists(e, seat) == seat[1] \in 1 .. events[e].rows /\ seat[2] \in 1 .. events[e].cols
Entries(c) == {request[c].seats[j] : j \in 1 .. Len(request[c].seats)}
Granted(e) == {seats[e][i] : i \in DOMAIN seats[e]} \ {0}

Init ==
  /\ events = << >> /\ seats = << >>
  /\ phase   = [c \in Clients |-> "idle"]
  /\ request = [c \in Clients |-> NoRequest]
  /\ grant   = [c \in Clients |-> NoGrant]
  /\ target  = [c \in Clients |-> NoTarget]
  /\ sent    = [c \in Clients |-> << >>]
  /\ result  = [c \in Clients |-> 0]

Waits(c, op) == phase[c] = "called" /\ request[c].op = op

\* The answer is decided: status s, after the values v.
Answer(c, s, v) ==
  /\ phase'  = [phase EXCEPT ![c] = "answered"]
  /\ result' = [result EXCEPT ![c] = s]
  /\ sent'   = [sent EXCEPT ![c] = v]

Call(c) ==
  /\ phase[c] = "idle"
  /\ phase' = [phase EXCEPT ![c] = "called"]
  /\ \E r \in Requests : request' = [request EXCEPT ![c] = r]
  /\ UNCHANGED <<events, seats, grant, target, sent, result>>

Return(c) ==
  /\ phase[c] = "answered"
  /\ phase'   = [phase EXCEPT ![c] = "idle"]
  /\ request' = [request EXCEPT ![c] = NoRequest]
  /\ grant'   = [grant EXCEPT ![c] = NoGrant]
  /\ target'  = [target EXCEPT ![c] = NoTarget]
  /\ sent'    = [sent EXCEPT ![c] = << >>]
  /\ result'  = [result EXCEPT ![c] = 0]
  /\ UNCHANGED <<events, seats>>

\* A new event has no reservation.
Create(c) ==
  LET r == request[c]
  IN /\ Waits(c, "create") /\ Found(r.id) = {}
     /\ events' = Append(events, [id |-> r.id, rows |-> r.size[1], cols |-> r.size[2]])
     /\ seats'  = Append(seats, [i \in 0 .. r.size[1] * r.size[2] - 1 |-> 0])
     /\ Answer(c, 0, << >>)
     /\ UNCHANGED <<request, grant, target>>

\* A CREATE is refused if the event exists, or for lack of memory.
CreateRefused(c) ==
  /\ Waits(c, "create") /\ Answer(c, 1, << >>)
  /\ UNCHANGED <<events, seats, request, grant, target>>

\* All the seats asked for are free: they get the event's next reservation id.
Reserve(c) ==
  /\ Waits(c, "reserve")
  /\ \E e \in Found(request[c].id) :
       LET wanted == {Index(e, s) : s \in Entries(c)}
           id     == Cardinality(Granted(e)) + 1
       IN /\ \A s \in Entries(c) : Exists(e, s)
          /\ \A i \in wanted : seats[e][i] = 0
          /\ seats' = [seats EXCEPT ![e] = [i \in DOMAIN @ |-> IF i \in wanted THEN id ELSE @[i]]]
          /\ grant' = [grant EXCEPT ![c] = <<e, id>>]
  /\ Answer(c, 0, << >>)
  /\ UNCHANGED <<events, request, target>>

\* A RESERVE is refused only for a reason.
ReserveRefused(c) ==
  /\ Waits(c, "reserve")
  /\ \A e \in Found(request[c].id) : \E s \in Entries(c) :
       Exists(e, s) => seats[e][Index(e, s)] # 0
  /\ Answer(c, 1, << >>)
  /\ UNCHANGED <<events, seats, request, grant, target>>

\* SHOW finds the event and answers with its size first ...
ShowFound(c) ==
  /\ Waits(c, "show") /\ target[c] = NoTarget
  /\ target' \in {[target EXCEPT ![c] = e] : e \in Found(request[c].id)}
  /\ UNCHANGED <<events, seats, phase, request, grant, sent, result>>

ShowSize(c) ==
  /\ Waits(c, "show") /\ target[c] # NoTarget /\ sent[c] = << >>
  /\ sent' = [sent EXCEPT ![c] = <<events[target[c]].rows, events[target[c]].cols>>]
  /\ UNCHANGED <<events, seats, phase, request, grant, target, result>>

\* ... then with each seat: its reservation, or 0 if it is free or if the
\* client that reserved it has not been answered.
Unacknowledged(e, r) == \E d \in Clients : phase[d] # "idle" /\ grant[d] = <<e, r>>

ShowSeat(c) ==
  LET e == target[c]
      i == Len(sent[c]) - 2
  IN /\ Waits(c, "show") /\ e # NoTarget /\ i \in DOMAIN seats[e]
     /\ \/ sent' = [sent EXCEPT ![c] = Append(@, seats[e][i])]
        \/ /\ Unacknowledged(e, seats[e][i])
           /\ sent' = [sent EXCEPT ![c] = Append(@, 0)]
     /\ UNCHANGED <<events, seats, phase, request, grant, target, result>>

ShowEnd(c) ==
  /\ Waits(c, "show") /\ target[c] # NoTarget
  /\ Len(sent[c]) = events[target[c]].rows * events[target[c]].cols + 2
  /\ Answer(c, 0, sent[c])
  /\ UNCHANGED <<events, seats, request, grant, target>>

\* The event is unknown, or the client stops reading.
ShowRefused(c) ==
  /\ Waits(c, "show")
  /\ \/ target[c] # NoTarget /\ Answer(c, 1, sent[c])
     \/ Found(request[c].id) = {} /\ \E v \in {<<0, 0>>, << >>} : Answer(c, 1, v)
  /\ UNCHANGED <<events, seats, request, grant, target>>

\* LIST answers with the number of events and the id of each.
Listing == <<Len(events)>> \o [e \in 1 .. Len(events) |-> events[e].id]

ListAll(c) ==
  /\ Waits(c, "list") /\ Answer(c, 0, Listing)
  /\ UNCHANGED <<events, seats, request, grant, target>>

\* The client stops reading before the end.
ListPart(c) ==
  /\ Waits(c, "list")
  /\ \E n \in 0 .. Len(Listing) - 1 : Answer(c, 1, SubSeq(Listing, 1, n))
  /\ UNCHANGED <<events, seats, request, grant, target>>

Next == \E c \in Clients :
  \/ Call(c) \/ Return(c)
  \/ Create(c) \/ CreateRefused(c)
  \/ Reserve(c) \/ ReserveRefused(c)
  \/ ShowFound(c) \/ ShowSize(c) \/ ShowSeat(c) \/ ShowEnd(c) \/ ShowRefused(c)
  \/ ListAll(c) \/ ListPart(c)

Spec == Init /\ [][Next]_vars

=============================================================================
