----------------------------- MODULE TcpServer -----------------------------
(***************************************************************************)
(* One thread of the TCP server (server/tcpserver.cpp, server/             *)
(* stunconnection.cpp) on top of the epoll wrapper and the hash table.     *)
(*                                                                         *)
(* Descriptors are numbers: a listen socket has the number of its role,    *)
(* the read end of the pipe is Pipe, accepted sockets take the lowest      *)
(* number that is free.  A message of a client has MsgUnits units, the     *)
(* first of which is its header, an answer RespUnits; the window of a      *)
(* client takes Window units until it reads them.  Everything the handlers *)
(* touch is one record s, so that a handler that calls another is a        *)
(* composition of operators.                                               *)
(***************************************************************************)
EXTENDS Integers, Sequences, FiniteSets, FiniteSetsExt

CONSTANTS Client,          \* clients, each of which connects once
          Roles,           \* roles of the listen sockets of this thread
          MaxConnections,
          PoolGrow,        \* connections the pool allocates at a time
          Script,          \* client -> messages: "req", "ind" or "bad"
          Window,
          RateLimited      \* whether a rate limiter is configured

MsgUnits == 2
RespUnits == 2
Pipe == 4
NoSock == -1

ASSUME TcpAssumption ==
  /\ IsFiniteSet(Client) /\ Roles \subseteq 0..3 /\ Roles # {}
  /\ MaxConnections \in Nat \ {0} /\ PoolGrow \in Nat \ {0} /\ Window \in Nat \ {0}
  /\ RateLimited \in BOOLEAN

VARIABLES s,          \* tables, pool, polling object, clients, backlogs
          phase,      \* of the thread object, as its owner sees it
          pc,         \* of the thread: "off", "poll", "sweep", "done"
          needToExit, pipe,
          due         \* a sweep interval has passed since the last sweep

vars == <<s, phase, pc, needToExit, pipe, due>>

H == INSTANCE FastHash
P == INSTANCE Poller

(* There is a prime between a number and its double: the search for the    *)
(* width of a table ends.                                                  *)
ASSUME PrimeAssumption == \E p \in MaxConnections..(2 * MaxConnections + 2) : H!IsPrime(p)

ClientFd == (Pipe + 1)..(Pipe + Cardinality(Client))

Idle == [st |-> "idle", sock |-> NoSock, gone |-> "no", sent |-> 0, rcvd |-> 0,
         room |-> Window, got |-> 0]

(* The state Reset leaves behind, with no socket open.                     *)
Reset(cl) ==
  [table |-> [i \in 1..2 |-> H!InitTable(MaxConnections, 0)], new |-> 1,
   conn |-> <<>>, free |-> <<>>, ep |-> P!EpollInitialize, listenOn |-> FALSE,
   cl |-> cl, backlog |-> [r \in Roles |-> <<>>]]

Init ==
  /\ s = Reset([c \in Client |-> Idle])
  /\ phase = "new" /\ pc = "off" /\ needToExit = FALSE /\ pipe = FALSE /\ due = FALSE

New(x) == x.table[x.new]
Old(x) == x.table[3 - x.new]
ConnCount(x) == New(x).size + Old(x).size
Owner(x, fd) == CHOOSE c \in Client : x.cl[c].sock = fd
Live(x) == {k \in DOMAIN x.conn : x.conn[k].sock # NoSock}

IsConnectionCountAtMax(x) == ConnCount(x) >= MaxConnections

(* Every listen socket in turn is added or removed.                        *)
SetEachListenSocket(ep, enable) ==
  LET set(e, r) == IF r \notin Roles THEN e
                   ELSE IF enable THEN P!EpollAdd(e, r, "read") ELSE P!EpollRemove(e, r)
  IN  set(set(set(set(ep, 0), 1), 2), 3)

\* Mutant: listen sockets that were taken out are not put back.
SetListenSocketsStayOff(x, enable) ==
  IF enable = x.listenOn \/ (enable /\ x.conn # <<>>) THEN x
  ELSE [x EXCEPT !.ep = SetEachListenSocket(@, enable), !.listenOn = enable]

SetListenSocketsOnEpoll(x, enable) ==
  IF enable = x.listenOn THEN x
  ELSE [x EXCEPT !.ep = SetEachListenSocket(@, enable), !.listenOn = enable]

-----------------------------------------------------------------------------
(* The connection pool.                                                    *)

NewConn == [sock |-> NoSock, state |-> "Receiving", reader |-> <<>>, tx |-> 0, id |-> 0]

Grow(x) ==
  LET n == Len(x.conn) IN
  [x EXCEPT !.conn = @ \o [i \in 1..PoolGrow |-> NewConn],
            !.free = [i \in 1..PoolGrow |-> n + PoolGrow + 1 - i] \o @]

(* The head of the free list, with an empty reader and no table.           *)
GetConnection(x, fd) ==
  LET g == IF x.free = <<>> THEN Grow(x) ELSE x
  IN  [g EXCEPT !.free = Tail(@), !.conn[Head(g.free)] = [NewConn EXCEPT !.sock = fd]]

ReleaseConnection(x, k) == [x EXCEPT !.free = <<k>> \o @]

\* Mutant: the reader keeps the message that was answered.
ResetConnectionKeepsReader(x, k) ==
  [x EXCEPT !.conn[k].state = "Receiving", !.conn[k].tx = 0]

ResetConnection(x, k) ==
  [x EXCEPT !.conn[k].reader = <<>>, !.conn[k].state = "Receiving", !.conn[k].tx = 0]

-----------------------------------------------------------------------------
(* Connections.                                                            *)

(* The server's end of a client's connection is closed.                    *)
Dropped == [Idle EXCEPT !.st = "closed"]

\* Mutant: the table keeps the entry of the closed connection.
CloseConnectionKeepsEntry(x, k) ==
  LET fd == x.conn[k].sock
  IN  ReleaseConnection([x EXCEPT !.ep = P!EpollRemove(@, fd), !.conn[k].sock = NoSock,
                                  !.cl[Owner(x, fd)] = Dropped], k)

CloseConnection(x, k) ==
  LET fd == x.conn[k].sock
      id == x.conn[k].id
      y  == [x EXCEPT !.ep = P!EpollRemove(@, fd), !.conn[k].sock = NoSock,
                      !.cl[Owner(x, fd)] = Dropped]
      z  == IF id = 0 THEN y ELSE [y EXCEPT !.table[id] = H!Remove(@, fd)]
  IN  ReleaseConnection(z, k)

Lower(a, b) == IF a < b THEN a ELSE b

(* send takes what fits.  A client that has closed its end resets the      *)
(* connection when bytes reach it.                                         *)
SendUnits(x, k, c, n) ==
  [x EXCEPT !.conn[k].tx = @ + n, !.cl[c].room = @ - n, !.cl[c].got = @ + n,
            !.cl[c].gone = IF @ = "fin" /\ n > 0 THEN "rst" ELSE @]

(* An answer that is out makes room for the next message.                  *)
AnswerOut(x, k, fd) ==
  [ResetConnection(x, k) EXCEPT !.ep = P!EpollChangeEventSet(@, fd, "read")]

(* Sends until the answer is out or the window is full.                    *)
WriteBytesForConnection(x, k) ==
  LET c == Owner(x, x.conn[k].sock)
      y == SendUnits(x, k, c, Lower(x.cl[c].room, RespUnits - x.conn[k].tx))
  IN  IF x.cl[c].gone = "rst" THEN CloseConnection(x, k)
      ELSE IF y.conn[k].tx < RespUnits THEN y
      ELSE AnswerOut(y, k, x.conn[k].sock)

(* What the reader makes of the units it holds: the kind of the message    *)
(* its first unit belongs to, garbage when that is not where one starts.   *)
Kind(units) ==
  LET c == units[1][1]
      i == units[1][2]
  IN  IF i % MsgUnits # 1 THEN "bad" ELSE Script[c][(i \div MsgUnits) + 1]

HowManyUnitsNeeded(units) == MsgUnits - Len(units)

RecvUnits(x, k, c, n) ==
  [x EXCEPT !.cl[c].rcvd = @ + n,
            !.conn[k].reader = @ \o [i \in 1..n |-> <<c, x.cl[c].rcvd + i>>]]

(* The answer of a whole message is to be sent.                            *)
StartAnswer(x, k, fd) ==
  [x EXCEPT !.conn[k].state = "Transmitting", !.ep = P!EpollChangeEventSet(@, fd, "write")]

\* Mutant: counts what it asked for, not what recv returned.
ReceiveBytesAsked(x, k, pass) ==
  LET c == Owner(x, x.conn[k].sock)
      y == RecvUnits(x, k, c, HowManyUnitsNeeded(x.conn[k].reader))
  IN  IF x.cl[c].gone # "no" \/ ~pass \/ x.cl[c].sent = x.cl[c].rcvd \/ Kind(y.conn[k].reader) # "req"
        THEN CloseConnection(x, k)
        ELSE WriteBytesForConnection(StartAnswer(y, k, x.conn[k].sock), k)

(* Reads what the current message still lacks, as far as it has arrived.   *)
(* A reset discards what has arrived; end of stream follows the last unit. *)
ReceiveBytesForConnection(x, k, pass) ==
  LET c == Owner(x, x.conn[k].sock)
      arrived == IF x.cl[c].gone = "rst" THEN 0 ELSE x.cl[c].sent - x.cl[c].rcvd
      n == Lower(arrived, HowManyUnitsNeeded(x.conn[k].reader))
      y == RecvUnits(x, k, c, n)
      read == y.conn[k].reader
      whole == Len(read) = MsgUnits
      dead == \/ n > 0 /\ Kind(read) = "bad"
              \/ whole /\ (~pass \/ Kind(read) # "req")
              \/ ~whole /\ x.cl[c].gone # "no"
  IN  IF dead THEN CloseConnection(y, k)
      ELSE IF whole THEN WriteBytesForConnection(StartAnswer(y, k, x.conn[k].sock), k)
      ELSE y

LowestFree(x) == Min({fd \in ClientFd : \A c \in Client : x.cl[c].sock # fd})

(* accept takes the client out of the backlog and gives it a socket.       *)
Accepted(x, role, fd) ==
  LET c == Head(x.backlog[role])
  IN  [x EXCEPT !.backlog[role] = Tail(@), !.cl[c].st = "open", !.cl[c].sock = fd]

Refused(x, role) ==
  [x EXCEPT !.backlog[role] = Tail(@), !.cl[Head(x.backlog[role])] = Dropped]

(* The accepted socket goes into the polling object, then into the new     *)
(* table.                                                                  *)
Entered(x, k, fd) ==
  [x EXCEPT !.ep = P!EpollAdd(@, fd, "read"), !.conn[k].id = x.new,
            !.table[x.new] = H!Insert(@, fd, k)]

(* A table without room closes the connection again.  A successful accept  *)
(* reads at once.  The limiter is asked about the client (accept), and     *)
(* once more if a whole message is read (pass).                            *)
AcceptConnection(x, role, accept, pass) ==
  LET fd == LowestFree(x)
      g  == GetConnection(Accepted(x, role, fd), fd)
      k  == CHOOSE i \in Live(g) : g.conn[i].sock = fd
      y  == Entered(g, k, fd)
  IN  IF x.backlog[role] = <<>> THEN x
      ELSE IF ~accept THEN Refused(x, role)
      ELSE IF H!IsFull(New(x)) THEN CloseConnection(y, k)
      ELSE ReceiveBytesForConnection(y, k, pass)

(* An event of a socket that is in neither table is ignored.               *)
ProcessConnectionEvent(x, fd, pass) ==
  LET h == IF H!Exists(New(x), fd) THEN New(x) ELSE Old(x)
      k == H!Lookup(h, fd)
  IN  IF ~H!Exists(h, fd) THEN x
      ELSE IF x.conn[k].state = "Receiving" THEN ReceiveBytesForConnection(x, k, pass)
      ELSE WriteBytesForConnection(x, k)

(* Closes the connection at position 0, which is looked up in an index     *)
(* that is in order again.                                                 *)
CloseFirst(x, id) ==
  LET y == [x EXCEPT !.table[id] = H!Indexed(@)]
  IN  CloseConnection(y, H!LookupByIndex(y.table[id], 0).value)

(* Takes the item at position 0 until the table is empty.                  *)
CloseAllConnections(x, id) ==
  LET size == x.table[id].size
      after[n \in 0..size] == IF n = 0 THEN x ELSE CloseFirst(after[n - 1], id)
  IN  after[size]

\* Mutant: only the new table is emptied.
ThreadCleanupNewOnly(x) == CloseAllConnections(x, x.new)

ThreadCleanup(x) == CloseAllConnections(CloseAllConnections(x, 3 - x.new), x.new)

\* Mutant: the tables change places, the stale connections stay.
SweepKeepsStale(x) == [x EXCEPT !.new = 3 - @]

Sweep(x) ==
  [CloseAllConnections(x, 3 - x.new) EXCEPT !.new = 3 - @]

-----------------------------------------------------------------------------
(* The owner of the thread.                                                *)

(* Listen sockets, pipe and polling object; on failure of any step         *)
(* everything is taken back and the server is deleted.                     *)
ThreadInit ==
  /\ phase = "new"
  /\ \/ /\ s' = LET l == SetListenSocketsOnEpoll(s, TRUE)
                IN  [l EXCEPT !.ep = P!EpollAdd(@, Pipe, "read")]
        /\ phase' = "ready"
     \/ s' = Reset(s.cl) /\ phase' = "gone"
  /\ UNCHANGED <<pc, needToExit, pipe, due>>

Start ==
  /\ phase = "ready" /\ phase' = "running"
  /\ pc' = "poll" /\ needToExit' = FALSE /\ due' = FALSE /\ UNCHANGED <<s, pipe>>

(* Every socket the object still holds is closed; clients in a backlog are *)
(* reset.                                                                  *)
Closed(x) ==
  Reset([c \in Client |-> IF x.cl[c].st = "queued" THEN Dropped ELSE x.cl[c]])

(* Stop raises the flag, wakes the thread through the pipe, waits for it   *)
(* and resets the object.                                                  *)
Stop ==
  \/ phase = "running" /\ needToExit' = TRUE /\ phase' = "signal" /\ UNCHANGED s
  \/ phase = "ready" /\ phase' = "gone" /\ s' = Closed(s) /\ UNCHANGED needToExit

StopStep == Stop /\ UNCHANGED <<pc, pipe, due>>

\* Mutant: only the flag is set.
NotifyWithoutByte ==
  /\ phase = "signal" /\ phase' = "joining" /\ pipe' = pipe
  /\ UNCHANGED <<s, pc, needToExit, due>>

NotifyThreadViaPipe ==
  /\ phase = "signal" /\ phase' = "joining" /\ pipe' = TRUE
  /\ UNCHANGED <<s, pc, needToExit, due>>

Join ==
  /\ phase = "joining" /\ pc = "done"
  /\ phase' = "gone" /\ s' = Closed(s) /\ pipe' = FALSE /\ needToExit' = FALSE
  /\ UNCHANGED <<pc, due>>

-----------------------------------------------------------------------------
(* The thread.                                                             *)

(* Level triggered.  The end of a client's stream wakes a reader, a reset  *)
(* wakes anyone.                                                           *)
Ready(x) ==
  {fd \in DOMAIN x.ep.interest :
     \/ fd = Pipe /\ pipe
     \/ fd \in Roles /\ x.backlog[fd] # <<>>
     \/ /\ fd \in ClientFd
        /\ LET c == x.cl[Owner(x, fd)]
           IN  \/ c.gone = "rst"
               \/ x.ep.interest[fd] = "read" /\ (c.sent > c.rcvd \/ c.gone = "fin")
               \/ x.ep.interest[fd] = "write" /\ c.room > 0}

Exit(x) == s' = ThreadCleanup(x) /\ pc' = "done"

HandleEvent(x, fd, accept, pass) ==
  IF fd \in Roles THEN AcceptConnection(x, fd, accept, pass) ELSE ProcessConnectionEvent(x, fd, pass)

(* From the return of WaitForNextEvent to the sweep.                       *)
Run(fd) ==
  /\ pc = "poll" /\ fd \in P!EpollBatch(s.ep, Ready(s))
  /\ LET x == [s EXCEPT !.ep = P!EpollTake(@, Ready(s), fd)]
     IN  IF needToExit \/ fd = Pipe THEN Exit(x)
         ELSE \E accept, pass \in BOOLEAN :
                /\ RateLimited \/ (accept /\ pass)
                /\ s' = HandleEvent(x, fd, accept, pass) /\ pc' = "sweep"
  /\ UNCHANGED <<phase, needToExit, pipe, due>>

(* WaitForNextEvent times out, which it does only while there are          *)
(* connections; a timeout with nothing to do changes nothing.              *)
RunTimeout ==
  /\ pc = "poll" /\ P!EpollBatch(s.ep, Ready(s)) = {} /\ ConnCount(s) > 0
  /\ due \/ needToExit
  /\ IF needToExit THEN Exit(s) ELSE pc' = "sweep" /\ UNCHANGED s
  /\ UNCHANGED <<phase, needToExit, pipe, due>>

(* The sweep, the loop's test and the listen sockets before the next wait. *)
SweepDeadConnections ==
  /\ pc = "sweep"
  /\ LET x == IF due THEN Sweep(s) ELSE s
     IN  IF needToExit THEN Exit(x)
         ELSE s' = SetListenSocketsOnEpoll(x, ~IsConnectionCountAtMax(x)) /\ pc' = "poll"
  /\ due' = FALSE /\ UNCHANGED <<phase, needToExit, pipe>>

Thread == (\E fd \in 0..(Pipe + Cardinality(Client)) : Run(fd))
          \/ RunTimeout \/ SweepDeadConnections

Tick == pc \in {"poll", "sweep"} /\ ~due /\ due' = TRUE
        /\ UNCHANGED <<s, phase, pc, needToExit, pipe>>

-----------------------------------------------------------------------------
(* Clients and the kernel between them and the server.                     *)

Kernel(x) == s' = x /\ UNCHANGED <<phase, pc, needToExit, pipe, due>>

Connect(c, role) ==
  /\ phase \in {"ready", "running", "signal", "joining"} /\ s.cl[c].st = "idle"
  /\ Kernel([s EXCEPT !.cl[c].st = "queued", !.backlog[role] = Append(@, c)])

Send(c) ==
  /\ s.cl[c].st \in {"queued", "open"} /\ s.cl[c].gone = "no"
  /\ s.cl[c].sent < MsgUnits * Len(Script[c])
  /\ Kernel([s EXCEPT !.cl[c].sent = @ + 1])

ReadAnswer(c) ==
  /\ s.cl[c].room < Window /\ s.cl[c].gone = "no"
  /\ Kernel([s EXCEPT !.cl[c].room = Window])

(* Closing with an answer unread resets the connection.                    *)
Leave(c, how) ==
  /\ s.cl[c].st \in {"queued", "open"} /\ s.cl[c].gone = "no"
  /\ how = "fin" => s.cl[c].room = Window
  /\ Kernel([s EXCEPT !.cl[c].gone = how])

Finished == phase = "gone" /\ UNCHANGED vars

Next ==
  \/ ThreadInit \/ Start \/ StopStep \/ NotifyThreadViaPipe \/ Join
  \/ Thread \/ Tick
  \/ \E c \in Client : \/ \E role \in Roles : Connect(c, role)
                       \/ Send(c) \/ ReadAnswer(c)
                       \/ Leave(c, "fin") \/ Leave(c, "rst")
  \/ Finished

(* What every step of the thread does to pc and when it can: stated apart  *)
(* from Thread because ENABLED of the handlers is costly to evaluate.      *)
ThreadMoves ==
  \/ /\ pc = "poll" /\ pc' \in {"sweep", "done"}
     /\ \/ P!EpollBatch(s.ep, Ready(s)) # {}
        \/ ConnCount(s) > 0 /\ (due \/ needToExit)
  \/ pc = "sweep" /\ pc' \in {"poll", "done"}

(* The thread is scheduled, time passes, main starts the server and, once  *)
(* it has begun to stop it, goes on; clients read what they are sent.      *)
Fairness ==
  /\ WF_pc(ThreadMoves) /\ WF_vars(Tick) /\ WF_vars(Start)
  /\ WF_vars(NotifyThreadViaPipe) /\ WF_vars(Join)
  /\ \A c \in Client : WF_vars(ReadAnswer(c))

Spec == Init /\ [][Next]_vars /\ Fairness
-----------------------------------------------------------------------------
(* Properties.                                                             *)

TypeOK ==
  /\ phase \in {"new", "ready", "running", "signal", "joining", "gone"}
  /\ pc \in {"off", "poll", "sweep", "done"}
  /\ needToExit \in BOOLEAN /\ pipe \in BOOLEAN /\ due \in BOOLEAN
  /\ s.new \in 1..2 /\ s.listenOn \in BOOLEAN
  /\ \A k \in DOMAIN s.conn :
       /\ s.conn[k].sock \in ClientFd \cup {NoSock} /\ s.conn[k].id \in 0..2
       /\ s.conn[k].state \in {"Receiving", "Transmitting"} /\ s.conn[k].tx \in 0..RespUnits
  /\ \A c \in Client :
       /\ s.cl[c].st \in {"idle", "queued", "open", "closed"}
       /\ s.cl[c].rcvd <= s.cl[c].sent /\ s.cl[c].room \in 0..Window

(* Every open client socket is held by exactly one connection object, which *)
(* is in the one table its _idHashTable names, is polled for what it is    *)
(* about to do, and is not on the free list; the tables' chains, free      *)
(* nodes and positions are in order; the listen sockets and the pipe are   *)
(* all else that is polled.                                                *)
ConnectionsTracked ==
  LET fds == {s.conn[k].sock : k \in Live(s)} IN
  /\ fds = {s.cl[c].sock : c \in {d \in Client : s.cl[d].st = "open"}}
  /\ Cardinality(fds) = Cardinality(Live(s))
  /\ {s.free[i] : i \in DOMAIN s.free} = DOMAIN s.conn \ Live(s)
  /\ Len(s.free) = Cardinality(DOMAIN s.conn \ Live(s))
  /\ \A k \in Live(s) :
       /\ s.conn[k].id # 0 /\ H!Exists(s.table[s.conn[k].id], s.conn[k].sock)
       /\ H!Lookup(s.table[s.conn[k].id], s.conn[k].sock) = k
       /\ s.ep.interest[s.conn[k].sock]
            = IF s.conn[k].state = "Receiving" THEN "read" ELSE "write"
  /\ H!Keys(s.table[1]) \cup H!Keys(s.table[2]) = fds
  /\ ConnCount(s) = Cardinality(fds)
  /\ H!IndexSound(s.table[1]) /\ H!IndexSound(s.table[2])
  /\ DOMAIN s.ep.interest = fds \cup (IF s.listenOn THEN Roles ELSE {})
                              \cup (IF phase \in {"new", "gone"} THEN {} ELSE {Pipe})

(* A connection's reader holds the units of the current message of its own *)
(* client and nothing else, whatever pooled object, reused descriptor or   *)
(* left-over event it got there by; every complete request was answered    *)
(* once and in full before the next is read.                               *)
ReaderFollowsStream ==
  \A k \in Live(s) :
    LET c == Owner(s, s.conn[k].sock)
        n == s.cl[c].rcvd
        m == n \div MsgUnits
    IN  IF s.conn[k].state = "Receiving"
          THEN /\ s.conn[k].reader = [i \in 1..(n % MsgUnits) |-> <<c, m * MsgUnits + i>>]
               /\ s.cl[c].got = m * RespUnits /\ s.conn[k].tx = 0
          ELSE /\ n % MsgUnits = 0 /\ s.conn[k].tx < RespUnits
               /\ s.cl[c].got = (m - 1) * RespUnits + s.conn[k].tx

(* When the thread has ended nothing is left open, as Reset asserts.       *)
NothingLeftOpen ==
  /\ pc = "done" => Live(s) = {} /\ ConnCount(s) = 0
  /\ phase = "gone" => \A c \in Client : s.cl[c].st \in {"idle", "closed"}

Tracker == INSTANCE ConnTracker WITH
  Sock <- ClientFd, fresh <- H!Keys(New(s)), stale <- H!Keys(Old(s)),
  running <- pc # "done"

(* The two tables implement the promise about lifetimes: a connection is   *)
(* closed by the second sweep after it was accepted, and by the end of the *)
(* thread.                                                                 *)
ImplementsTracker == Tracker!Spec

(* A request that has been sent whole is answered, unless the connection   *)
(* ends first; a client in the backlog is no exception, because sweeps     *)
(* make room.                                                              *)
RequestsAnswered ==
  \A c \in Client :
    (s.cl[c].st \in {"queued", "open"} /\ s.cl[c].sent >= MsgUnits)
      ~> (s.cl[c].got >= RespUnits \/ s.cl[c].st = "closed" \/ s.cl[c].gone # "no")

(* Stop returns, whatever the thread was doing when it was called.         *)
StopReturns == (phase = "signal") ~> (phase = "gone")
=============================================================================
