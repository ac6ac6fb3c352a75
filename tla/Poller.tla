------------------------------- MODULE Poller -------------------------------
(***************************************************************************)
(* The two implementations of IPolling (networkutils/polling.cpp).  Both   *)
(* ask the kernel for a batch of events and hand them out one by one; what *)
(* happens to a socket between the batch and its turn is the point.        *)
(* Event sets are "read" and "write".                                      *)
(***************************************************************************)
EXTENDS Naturals, Sequences, FiniteSets

S == INSTANCE SequencesExt
F == INSTANCE Functions

H == INSTANCE FastHash

-----------------------------------------------------------------------------
(* CEpoll: the interest list is in the kernel, the batch in _events.  The  *)
(* kernel orders a batch as it likes, so it is a set.                      *)

EpollInitialize == [interest |-> <<>>, pending |-> {}]

EpollAdd(p, fd, ev) ==
  [p EXCEPT !.interest = [f \in DOMAIN @ \cup {fd} |-> IF f = fd THEN ev ELSE @[f]]]

(* Events of the socket that wait in the batch stay there.                 *)
EpollRemove(p, fd) == [p EXCEPT !.interest = F!Restrict(@, DOMAIN @ \ {fd})]

EpollChangeEventSet(p, fd, ev) == [p EXCEPT !.interest[fd] = ev]

(* What may come next: the rest of the batch or, when it is used up, what  *)
(* the kernel finds ready now.                                             *)
EpollBatch(p, ready) == IF p.pending # {} THEN p.pending ELSE ready

EpollTake(p, ready, fd) == [p EXCEPT !.pending = EpollBatch(p, ready) \ {fd}]

-----------------------------------------------------------------------------
(* CPoll: an array of descriptors, a table from descriptor to position, a  *)
(* rotating start and the number of events of the batch not yet handed out.*)

PollInitialize(maxSockets) ==
  [fds |-> <<>>, table |-> H!InitTable(maxSockets, 0), rotation |-> 0, unread |-> 0]

PollAdd(p, fd, ev) ==
  IF H!Exists(p.table, fd) THEN p
  ELSE [p EXCEPT !.fds = Append(@, [fd |-> fd, events |-> ev, revents |-> FALSE]),
                 !.table = H!Insert(@, fd, Len(p.fds))]

\* Mutant: the table does not learn where the last entry went.
PollRemoveMovesSilently(p, fd) ==
  LET size == Len(p.fds)
      pos  == H!Lookup(p.table, fd)
      moved == IF pos = size - 1 THEN p ELSE [p EXCEPT !.fds[pos + 1] = p.fds[size]]
  IN  IF size = 0 \/ ~H!Exists(p.table, fd) THEN p
      ELSE [moved EXCEPT !.table = H!Remove(@, fd), !.fds = S!Front(@)]

(* The last entry moves into the hole.                                     *)
PollRemove(p, fd) ==
  LET size == Len(p.fds)
      pos  == H!Lookup(p.table, fd)
      moved == IF pos = size - 1 THEN p
               ELSE [p EXCEPT !.fds[pos + 1] = p.fds[size],
                              !.table = H!SetValue(@, p.fds[size].fd, pos)]
  IN  IF size = 0 \/ ~H!Exists(p.table, fd) THEN p
      ELSE [moved EXCEPT !.table = H!Remove(@, fd), !.fds = S!Front(@)]

PollChangeEventSet(p, fd, ev) ==
  IF ~H!Exists(p.table, fd) THEN p
  ELSE [p EXCEPT !.fds[H!Lookup(p.table, fd) + 1].events = ev]

\* Mutant: poll() is told of one entry too few.
PollRefillShort(p, ready) ==
  LET seen == {i \in DOMAIN p.fds : i < Len(p.fds) /\ p.fds[i].fd \in ready}
  IN  [p EXCEPT !.fds = [i \in DOMAIN @ |-> [@[i] EXCEPT !.revents = i \in seen]],
                !.unread = Cardinality(seen)]

(* poll() marks the sockets that are ready.                                *)
PollRefill(p, ready) ==
  [p EXCEPT !.fds = [i \in DOMAIN @ |-> [@[i] EXCEPT !.revents = p.fds[i].fd \in ready]],
            !.unread = Cardinality({i \in DOMAIN p.fds : p.fds[i].fd \in ready})]

Marked(p) == {i \in DOMAIN p.fds : p.fds[i].revents}

(* The first marked entry from the rotating start, if any is expected.     *)
PollFound(p) == p.unread # 0 /\ Marked(p) # {}

PollSlot(p) ==
  LET size == Len(p.fds)
      from == IF p.rotation >= size THEN 0 ELSE p.rotation
      at(k) == ((k + from) % size) + 1
  IN  at(CHOOSE k \in 0..(size - 1) :
           at(k) \in Marked(p) /\ \A j \in 0..(k - 1) : at(j) \notin Marked(p))

PollTake(p) ==
  LET from == IF p.rotation >= Len(p.fds) THEN 0 ELSE p.rotation
  IN  [p EXCEPT !.fds[PollSlot(p)].revents = FALSE, !.rotation = from + 1,
                !.unread = @ - 1]

(* A search that finds nothing forgets the events it still expected.       *)
PollMiss(p) ==
  [p EXCEPT !.unread = 0,
            !.rotation = IF p.unread # 0 /\ @ >= Len(p.fds) THEN 0 ELSE @]

(* The table says where each socket is.                                    *)
PollSound(p) ==
  /\ H!IndexSound(p.table)
  /\ H!Keys(p.table) = {p.fds[i].fd : i \in DOMAIN p.fds}
  /\ \A i \in DOMAIN p.fds : H!Lookup(p.table, p.fds[i].fd) = i - 1
=============================================================================
