----------------------------- MODULE UdpServer -----------------------------
(***************************************************************************)
(* The UDP server (server/server.cpp) and its threads (server/             *)
(* stunsocketthread.cpp): one thread that selects over all sockets, or one *)
(* per socket that blocks in its receive; started together, stopped by a   *)
(* flag and a datagram each socket sends to itself.  What is done with a   *)
(* request is the message handler's business and is left out here; who     *)
(* gets through the rate limiter is not.                                   *)
(***************************************************************************)
EXTENDS RateLimiter

CONSTANTS Roles,         \* roles the configuration asks for
          Source,        \* addresses of clients: positive numbers
          Self,          \* the server's own address
          QueueMax,      \* datagrams a socket's buffer holds
          TableSize,     \* addresses the limiter has room for
          Times,         \* readings of the clock, from 1
          MaxFailures    \* receives that fail, per behaviour

ASSUME UdpAssumption ==
  /\ Roles \subseteq 0..3 /\ Self \in Nat \ {0} /\ Source \subseteq Nat \ {0, Self}
  /\ QueueMax \in Nat \ {0} /\ TableSize \in Nat \ {0} /\ 1 \in Times /\ Times \subseteq Nat /\ MaxFailures \in Nat

(* There is a prime between a number and its double: the search for the    *)
(* width of the limiter's table ends, where the limiter gives none because *)
(* half of its one place is 0.                                             *)
ASSUME PrimeAssumption == \E p \in TableSize..(2 * TableSize + 2) : H!IsPrime(p)

VARIABLES phase,     \* of CStunServer, as main sees it
          multi,     \* fMultiThreadedMode
          th,        \* the threads
          queue,     \* role -> sources of the datagrams that wait
          limiter, now, failures,
          arrived, refused   \* history: what each source sent, and who was turned away

vars == <<phase, multi, th, queue, limiter, now, failures, arrived, refused>>

Init ==
  /\ phase = "new" /\ multi \in BOOLEAN /\ th = <<>> /\ queue = [r \in Roles |-> <<>>]
  /\ limiter = H!InitTable(TableSize, TableSize \div 2) /\ now = 1 /\ failures = 0
  /\ arrived = [a \in Source |-> 0] /\ refused = {}

(* The roles in ascending order: the order of _arrSockets.                 *)
Ordered(set) == CHOOSE q \in [1..Cardinality(set) -> set] :
                  \A i, j \in 1..Cardinality(set) : i < j => q[i] < q[j]

(* addr is _msgIn.addrRemote, which keeps its value from one receive to    *)
(* the next.  Before the first it is the default address, no client's      *)
(* either, for which Self stands.                                          *)
ThreadInit(socks) ==
  [socks |-> socks, pc |-> "off", exit |-> FALSE, rotation |-> 0, sock |-> 0, addr |-> Self]

(* One thread for all the sockets or one for each; a socket that cannot be *)
(* opened takes everything down again.                                     *)
Initialize ==
  /\ phase = "new"
  /\ \/ /\ Roles # {} /\ phase' = "ready"
        /\ th' = IF multi THEN [i \in 1..Cardinality(Roles) |-> ThreadInit(<<Ordered(Roles)[i]>>)]
                 ELSE <<ThreadInit(Ordered(Roles))>>
     \/ phase' = "stopped" /\ UNCHANGED th
  /\ UNCHANGED <<multi, queue, limiter, now, failures, arrived, refused>>

(* Threads start one after the other.  When one cannot be started those    *)
(* that run are stopped.                                                   *)
Start ==
  /\ phase = "ready"
  /\ LET i == CHOOSE j \in DOMAIN th : th[j].pc = "off" /\ \A k \in 1..(j - 1) : th[k].pc # "off"
     IN  \/ /\ th' = [th EXCEPT ![i].pc = "top", ![i].sock = th[i].socks[1]]
            /\ phase' = IF i = Len(th) THEN "running" ELSE "ready"
         \/ phase' = "flag" /\ UNCHANGED th
  /\ UNCHANGED <<multi, queue, limiter, now, failures, arrived, refused>>

(* Stop: the flag of every thread, then the flag again and a datagram to   *)
(* each of its sockets, then wait for every thread.                        *)
Stop ==
  /\ phase = "running" /\ phase' = "flag"
  /\ UNCHANGED <<multi, th, queue, limiter, now, failures, arrived, refused>>

SignalFlag ==
  /\ phase = "flag" /\ phase' = "post"
  /\ th' = [i \in DOMAIN th |-> [th[i] EXCEPT !.exit = TRUE]]
  /\ UNCHANGED <<multi, queue, limiter, now, failures, arrived, refused>>

\* Mutant: nothing is sent to the socket.
PostedNothing(q) == q

Posted(q) == IF Len(q) < QueueMax THEN Append(q, Self) ELSE q

SignalForStop ==
  /\ phase = "post" /\ phase' = "join"
  /\ queue' = [r \in Roles |-> Posted(queue[r])]
  /\ UNCHANGED <<multi, th, limiter, now, failures, arrived, refused>>

WaitForStopAndClose ==
  /\ phase = "join" /\ \A i \in DOMAIN th : th[i].pc \in {"off", "done"}
  /\ phase' = "stopped" /\ th' = <<>> /\ queue' = [r \in Roles |-> <<>>]
  /\ UNCHANGED <<multi, limiter, now, failures, arrived, refused>>

-----------------------------------------------------------------------------
(* A thread.                                                               *)

Many(t) == Len(th[t].socks) > 1

At(t, pc) == t \in DOMAIN th /\ th[t].pc = pc

(* The loop's test.                                                        *)
LoopTop(t) ==
  /\ At(t, "top")
  /\ th' = [th EXCEPT ![t].pc = IF th[t].exit THEN "done"
                                ELSE IF Many(t) THEN "select" ELSE "recv"]
  /\ UNCHANGED <<phase, multi, queue, limiter, now, failures, arrived, refused>>

\* Mutants: the rotation runs past the last socket; it never moves.
WaitForSocketDataPastEnd(t) ==
  LET n == Len(th[t].socks)
      at(i) == th[t].socks[((i + th[t].rotation) % n) + 1]
      first == CHOOSE i \in 0..(n - 1) : queue[at(i)] # <<>>
  IN  [th[t] EXCEPT !.rotation = @ + 1, !.sock = at(first)]

WaitForSocketDataFixed(t) ==
  LET n == Len(th[t].socks)
      at(i) == th[t].socks[i + 1]
      first == CHOOSE i \in 0..(n - 1) : queue[at(i)] # <<>> /\ \A j \in 0..(i - 1) : queue[at(j)] = <<>>
  IN  [th[t] EXCEPT !.sock = at(first)]

(* The first socket with data, from a start that moves on at every call.   *)
WaitForSocketData(t) ==
  LET n   == Len(th[t].socks)
      rot == (th[t].rotation + 1) % n
      at(i) == th[t].socks[((i + rot) % n) + 1]
      first == CHOOSE i \in 0..(n - 1) : queue[at(i)] # <<>> /\ \A j \in 0..(i - 1) : queue[at(j)] = <<>>
  IN  [th[t] EXCEPT !.rotation = rot, !.sock = at(first)]

Select(t) ==
  /\ At(t, "select") /\ \E i \in DOMAIN th[t].socks : queue[th[t].socks[i]] # <<>>
  /\ th' = [th EXCEPT ![t] = [WaitForSocketData(t) EXCEPT
                                !.pc = IF th[t].exit THEN "done" ELSE "recv"]]
  /\ UNCHANGED <<phase, multi, queue, limiter, now, failures, arrived, refused>>

(* The datagram is taken, or is found damaged and the receive fails; the   *)
(* limiter is asked about the address in the message either way, which     *)
(* after a failure is that of the datagram before.                         *)
Receive(t) ==
  /\ At(t, "recv") /\ queue[th[t].sock] # <<>>
  /\ queue' = [queue EXCEPT ![th[t].sock] = Tail(@)]
  /\ \E ok \in BOOLEAN :
       LET addr == IF ok THEN Head(queue[th[t].sock]) ELSE th[t].addr
           r    == RateCheck(limiter, addr, now)
       IN  /\ ok \/ failures < MaxFailures
           /\ failures' = IF ok THEN failures ELSE failures + 1
           /\ limiter' = r.table
           /\ refused' = IF ok /\ ~r.pass THEN refused \cup {addr} ELSE refused
           /\ th' = [th EXCEPT ![t].addr = addr,
                       ![t].pc = IF ~ok \/ ~r.pass THEN "top"
                                 ELSE IF th[t].exit THEN "done" ELSE "process"]
  /\ UNCHANGED <<phase, multi, now, arrived>>

ProcessRequestAndSendResponse(t) ==
  /\ At(t, "process") /\ th' = [th EXCEPT ![t].pc = "top"]
  /\ UNCHANGED <<phase, multi, queue, limiter, now, failures, arrived, refused>>

Thread(t) == LoopTop(t) \/ Select(t) \/ Receive(t) \/ ProcessRequestAndSendResponse(t)

-----------------------------------------------------------------------------
(* Clients and time.                                                       *)

(* A datagram for a socket whose buffer is full is lost.                   *)
Arrive(r, a) ==
  /\ phase \notin {"new", "stopped"} /\ Len(queue[r]) < QueueMax
  /\ queue' = [queue EXCEPT ![r] = Append(@, a)]
  /\ arrived' = [arrived EXCEPT ![a] = IF @ < MIN_COUNT_FOR_CONSIDERATION THEN @ + 1 ELSE @]
  /\ UNCHANGED <<phase, multi, th, limiter, now, failures, refused>>

Tick ==
  /\ \E t \in Times : t > now /\ now' = t
  /\ UNCHANGED <<phase, multi, th, queue, limiter, failures, arrived, refused>>

Finished == phase = "stopped" /\ UNCHANGED vars

Next ==
  \/ Initialize \/ Start \/ Stop \/ SignalFlag \/ SignalForStop \/ WaitForStopAndClose
  \/ \E t \in 1..4 : LoopTop(t) \/ Select(t) \/ Receive(t) \/ ProcessRequestAndSendResponse(t)
  \/ \E r \in Roles, a \in Source : Arrive(r, a)
  \/ Tick \/ Finished

(* Every thread is scheduled, and Stop goes on once it has begun.          *)
Fairness ==
  /\ \A t \in 1..4 : WF_vars(Thread(t))
  /\ WF_vars(SignalFlag) /\ WF_vars(SignalForStop) /\ WF_vars(WaitForStopAndClose)

Spec == Init /\ [][Next]_vars /\ Fairness

-----------------------------------------------------------------------------
(* Properties.                                                             *)

TypeOK ==
  /\ phase \in {"new", "ready", "running", "flag", "post", "join", "stopped"}
  /\ \A i \in DOMAIN th :
       /\ th[i].pc \in {"off", "top", "select", "recv", "process", "done"}
       /\ th[i].exit \in BOOLEAN /\ th[i].addr \in Source \cup {Self}
       /\ th[i].rotation < Len(th[i].socks)
  /\ \A r \in Roles : Len(queue[r]) <= QueueMax

(* The limiter's table stays in order through inserts, removals and dumps, *)
(* and an address that is not in the penalty box is below the rate.        *)
LimiterSound ==
  /\ H!IndexSound(limiter)
  /\ \A a \in H!Keys(limiter) :
       LET rt == H!Lookup(limiter, a)
       IN  /\ rt.penalty = 0 => get_rate(rt) < MAX_RATE
           /\ rt.penalty <= now + PENALTY_TIME_SECONDS

(* Whoever is turned away has sent as many datagrams as the limiter starts *)
(* to look at; a receive that failed counts against someone, too.          *)
RefusedOnlyFlooders ==
  \A a \in refused \cap Source : arrived[a] + failures >= MIN_COUNT_FOR_CONSIDERATION

(* A datagram on one socket is not kept waiting by a flood on another: the *)
(* thread turns to its socket sooner or later.                             *)
NoSocketStarves ==
  \A r \in Roles :
    (phase = "running" /\ queue[r] # <<>>) ~> (phase # "running" \/ \E t \in DOMAIN th : th[t].sock = r)

(* Stop returns: no thread misses both the flag and the datagram.          *)
StopReturns == (phase = "flag") ~> (phase = "stopped")
=============================================================================
