------------------------- MODULE EmsServerRefinement ------------------------
(***************************************************************************)
(* The threads and locks of EmsServer implement the promise of EventStore. *)
(* A CREATE takes effect when its node is linked, a RESERVE when it takes  *)
(* its reservation id: the seats it has still to write count as its own.   *)
(***************************************************************************)
EXTENDS EmsServer, FiniteSets

\* The seats of event e that thread w has been granted and not yet written.
Unwritten(e, w) ==
  IF At(w, "reserve_write") /\ ev[w] = e
  THEN {SeatIndex(list[e].cols, req[w].seats[j][1], req[w].seats[j][2])
          : j \in idx[w] .. Len(req[w].seats)}
  ELSE {}

SeatsBar ==
  [e \in Positions |-> [i \in SeatsOf(e) |->
     IF \E w \in Workers : i \in Unwritten(e, w)
     THEN rid[CHOOSE w \in Workers : i \in Unwritten(e, w)]
     ELSE data[e][i]]]

Decided(w) == pc[w] \in {"done", "create_count", "reserve_write"}

PhaseBar == [w \in Workers |-> CASE At(w, "idle") -> "idle"
                                 [] Decided(w)    -> "answered"
                                 [] OTHER         -> "called"]

GrantBar == [w \in Workers |-> IF rid[w] = 0 THEN <<0, 0>> ELSE <<ev[w], rid[w]>>]

TargetBar == [w \in Workers |-> IF req[w].op = "show" THEN ev[w] ELSE 0]

\* LIST counts as unanswered until its last write.
SentBar == [w \in Workers |-> IF req[w].op = "show" \/ Decided(w) THEN out[w] ELSE << >>]

Store == INSTANCE EventStore WITH
  Clients <- Workers, events <- list, seats <- SeatsBar, phase <- PhaseBar,
  request <- [w \in Workers |-> req[w]], grant <- GrantBar, target <- TargetBar,
  sent <- SentBar, result <- [w \in Workers |-> status[w]]

\* The server implements the abstract event store: whatever the interleaving,
\* each client gets an answer that fits one order of the requests.
RefinesEventStore == Store!Spec

=============================================================================
