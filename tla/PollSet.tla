------------------------------ MODULE PollSet ------------------------------
(***************************************************************************)
(* A server thread on a system without epoll: sockets are added to and     *)
(* removed from a CPoll between two waits, a number is used again for a    *)
(* new socket, data arrives at any time.                                   *)
(*                                                                         *)
(* poll is the CPoll, ready the sockets with data in the kernel, last the  *)
(* socket whose event was handed out last and whether data had come for it *)
(* since it was added (0 and TRUE before the first).  fresh are the        *)
(* sockets that got data since they were added, drops counts the closed    *)
(* ones.                                                                   *)
(***************************************************************************)
EXTENDS Naturals, Sequences, FiniteSets

CONSTANTS
  Fd,        \* descriptors, numbers from 1
  MaxDrop    \* bound: sockets closed in a behaviour

P == INSTANCE Poller

(* A set of finitely many numbers.                                         *)
ASSUME FdAssumption == Fd \subseteq Nat /\ Fd # {} /\ IsFiniteSet(Fd)

(* There is a prime between a number and its double: the search for the    *)
(* width of the table ends.                                                *)
ASSUME FdPrimeAssumption ==
  \E p \in Cardinality(Fd)..(2 * Cardinality(Fd) + 2) : P!H!IsPrime(p)

VARIABLES poll, ready, fresh, last, drops

pollVars == <<poll, ready, fresh, last, drops>>

Listed == {poll.fds[i].fd : i \in DOMAIN poll.fds}

PollStart ==
  /\ poll = P!PollInitialize(Cardinality(Fd))
  /\ ready = {} /\ fresh = {} /\ last = [fd |-> 0, current |-> TRUE] /\ drops = 0

Add(fd) ==
  /\ fd \notin Listed
  /\ poll' = P!PollAdd(poll, fd, "read")
  /\ UNCHANGED <<ready, fresh, last, drops>>

(* The handler closes the socket: its data goes with it.                   *)
Drop(fd) ==
  /\ fd \in Listed /\ drops < MaxDrop
  /\ drops' = drops + 1
  /\ poll' = P!PollRemove(poll, fd)
  /\ ready' = ready \ {fd} /\ fresh' = fresh \ {fd}
  /\ UNCHANGED last

Arrives(fd) ==
  /\ fd \in Listed
  /\ ready' = ready \cup {fd} /\ fresh' = fresh \cup {fd}
  /\ UNCHANGED <<poll, last, drops>>

(* An event left from the last poll(), else a new poll() that may time     *)
(* out; the handler reads what has arrived.                                *)
WaitForNextEvent ==
  LET missed == P!PollMiss(poll)
      p == IF P!PollFound(poll) THEN poll ELSE P!PollRefill(missed, ready)
      fd == p.fds[P!PollSlot(p)].fd
  IN  /\ poll.fds # <<>>
      /\ IF P!PollFound(p)
           THEN /\ poll' = P!PollTake(p) /\ ready' = ready \ {fd}
                /\ last' = [fd |-> fd, current |-> fd \in fresh]
           ELSE poll' = missed /\ UNCHANGED <<ready, last>>
      /\ UNCHANGED <<fresh, drops>>

PollNext ==
  \/ \E fd \in Fd : Add(fd) \/ Drop(fd) \/ Arrives(fd)
  \/ WaitForNextEvent

PollSpec == PollStart /\ [][PollNext]_pollVars

(* The thread keeps waiting for events.  A wait takes one socket out of    *)
(* ready whenever there is one, and only finitely many sockets are closed, *)
(* so this is weak fairness of WaitForNextEvent.                           *)
Served == \E fd \in ready : fd \notin ready'

PollFairness == []<>(ready = {}) \/ []<><<Served>>_pollVars

-----------------------------------------------------------------------------
(* Whatever is removed while events of a poll() are still to be handed     *)
(* out, the table finds every socket at its place in the array, and an     *)
(* event is never one that an earlier socket with the same number left     *)
(* behind (CPoll::Remove moves the last entry into the hole).              *)
PollConsistent == P!PollSound(poll) /\ last.current /\ last.fd \in Fd \cup {0}

(* A socket that stays and has data gets its turn, whatever the others do, *)
(* sockets closed in the middle of a batch included: a batch is handed out *)
(* to its end and the search starts one further each time                  *)
(* (CPoll::WaitForNextEvent, FindNextEvent).                               *)
EveryoneGetsATurn ==
  \A fd \in Fd : (fd \in ready) ~> (fd \notin ready)
=============================================================================
