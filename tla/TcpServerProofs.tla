-------------------------- MODULE TcpServerProofs --------------------------
(***************************************************************************)
(* Proofs about the TCP server: for any clients, limits, scripts, windows  *)
(* and listen sockets, no connection is lost or mixed up, readers follow   *)
(* their streams, the thread leaves nothing open, and every step is one    *)
(* that ConnTracker allows.                                                *)
(***************************************************************************)
EXTENDS TcpServer, NatLemmas, SequenceTheorems, FiniteSetTheorems, TLAPS

HP == INSTANCE FastHashProofs

-----------------------------------------------------------------------------
(* The inductive invariant, as a predicate on the record the handlers      *)
(* share.                                                                  *)

Sock == ClientFd \cup {NoSock}

ConnRec ==
  [sock : Sock, state : {"Receiving", "Transmitting"}, reader : Seq(Client \X Nat),
   tx : 0 .. RespUnits, id : 0 .. 2]

ClientRec ==
  [st : {"idle", "queued", "open", "closed"}, sock : Sock, gone : {"no", "fin", "rst"},
   sent : Nat, rcvd : Nat, room : 0 .. Window, got : Nat]

Rec(t, n, c, f, e, l, u, b) ==
  [table |-> t, new |-> n, conn |-> c, free |-> f, ep |-> e, listenOn |-> l, cl |-> u,
   backlog |-> b]

Shape(x) ==
  /\ x = Rec(x.table, x.new, x.conn, x.free, x.ep, x.listenOn, x.cl, x.backlog)
  /\ x.table = [i \in 1 .. 2 |-> x.table[i]] /\ x.new \in 1 .. 2
  /\ x.conn \in Seq(ConnRec) /\ x.free \in Seq(Nat)
  /\ x.ep = [interest |-> x.ep.interest, pending |-> x.ep.pending]
  /\ x.ep.interest \in [DOMAIN x.ep.interest -> {"read", "write"}]
  /\ x.listenOn \in BOOLEAN
  /\ x.cl \in [Client -> ClientRec] /\ x.backlog \in [Roles -> Seq(Client)]

\* The free list has the objects without a socket, each once.
Pool(x) ==
  /\ \A i, j \in DOMAIN x.free : x.free[i] = x.free[j] => i = j
  /\ \A i \in DOMAIN x.free : x.free[i] \in DOMAIN x.conn /\ x.conn[x.free[i]].sock = NoSock
  /\ \A k \in DOMAIN x.conn : x.conn[k].sock = NoSock => \E i \in DOMAIN x.free : x.free[i] = k

\* Open clients and live objects are matched by their sockets.
Sockets(x) ==
  /\ \A c \in Client : x.cl[c].st = "open" <=> x.cl[c].sock # NoSock
  /\ \A c, d \in Client : x.cl[c].sock = x.cl[d].sock /\ x.cl[c].sock # NoSock => c = d
  /\ \A k, l \in DOMAIN x.conn : x.conn[k].sock = x.conn[l].sock /\ x.conn[k].sock # NoSock => k = l
  /\ \A k \in DOMAIN x.conn : x.conn[k].sock # NoSock => \E c \in Client : x.cl[c].sock = x.conn[k].sock
  /\ \A c \in Client : x.cl[c].sock # NoSock => \E k \in DOMAIN x.conn : x.conn[k].sock = x.cl[c].sock

\* A client is in a backlog once, and before it is accepted nothing is read.
Queued(x) ==
  /\ \A r \in Roles : \A i \in DOMAIN x.backlog[r] : x.cl[x.backlog[r][i]].st = "queued"
  /\ \A r, q \in Roles : \A i \in DOMAIN x.backlog[r], j \in DOMAIN x.backlog[q] :
       x.backlog[r][i] = x.backlog[q][j] => r = q /\ i = j
  /\ \A c \in Client : /\ x.cl[c].rcvd <= x.cl[c].sent
                       /\ x.cl[c].st \in {"idle", "queued"} => x.cl[c].rcvd = 0 /\ x.cl[c].got = 0

\* Both tables are in order and name connections that think they are there.
Tables(x) ==
  \A i \in 1 .. 2 :
    /\ HP!Well(x.table[i], Nat)
    /\ \A fd \in HP!Keys(x.table[i]) : \E k \in DOMAIN x.conn : x.conn[k].sock = fd /\ x.conn[k].id = i

Fds(x) == {x.conn[k].sock : k \in Live(x)}

Polled(x, p) ==
  DOMAIN x.ep.interest =
    Fds(x) \cup (IF x.listenOn THEN Roles ELSE {}) \cup p

\* A connection is found where it thinks it is, and polled for what it does.
Filed(x, k) ==
  /\ x.conn[k].id # 0 /\ x.conn[k].sock \in HP!Keys(x.table[x.conn[k].id])
  /\ HP!Lookup(x.table[x.conn[k].id], x.conn[k].sock) = k

Wants(r) == IF r.state = "Receiving" THEN "read" ELSE "write"

Held(x, k) == Filed(x, k) /\ x.ep.interest[x.conn[k].sock] = Wants(x.conn[k])

\* Object r is where the stream of client c, whose record is u, is.
InStream(r, c, u) ==
  LET n == u.rcvd
      m == n \div MsgUnits
  IN  IF r.state = "Receiving"
        THEN /\ r.reader = [i \in 1 .. (n % MsgUnits) |-> <<c, m * MsgUnits + i>>]
             /\ u.got = m * RespUnits /\ r.tx = 0
        ELSE /\ n % MsgUnits = 0 /\ r.tx < RespUnits
             /\ u.got = (m - 1) * RespUnits + r.tx

Follows(x, k) ==
  \A c \in Client : x.cl[c].sock = x.conn[k].sock => InStream(x.conn[k], c, x.cl[c])

\* The objects in X are being worked on; p are other descriptors that are polled.
Inv(x, p, X) ==
  /\ Shape(x) /\ Pool(x) /\ Sockets(x) /\ Queued(x) /\ Tables(x) /\ Polled(x, p)
  /\ \A k \in Live(x) \ X : Held(x, k) /\ Follows(x, k)

Control ==
  /\ phase \in {"new", "ready", "running", "signal", "joining", "gone"}
  /\ pc \in {"off", "poll", "sweep", "done"}
  /\ needToExit \in BOOLEAN /\ pipe \in BOOLEAN /\ due \in BOOLEAN
  /\ phase \in {"new", "ready"} => pc = "off"
  /\ phase \in {"running", "signal", "joining"} => pc # "off"
  /\ phase = "gone" => pc \in {"off", "done"}
  /\ pc \in {"off", "done"} => Live(s) = {}
  /\ phase \in {"new", "gone"} => \A c \in Client : s.cl[c].st \in {"idle", "closed"}

Extra == IF phase \in {"new", "gone"} THEN {} ELSE {Pipe}

IInv == Control /\ Inv(s, Extra, {})

-----------------------------------------------------------------------------
(* The tables. *)

\* The table module and the module with its proofs define the same operators.
LEMMA SameTable ==
  ASSUME NEW h, NEW key, NEW value
  PROVE  /\ H!InitTable(key, value) = HP!InitTable(key, value)
         /\ H!ResetTable(h) = HP!ResetTable(h)
         /\ H!IsFull(h) = HP!IsFull(h)
         /\ H!Exists(h, key) = HP!Exists(h, key)
         /\ H!Lookup(h, key) = HP!Lookup(h, key)
         /\ H!Insert(h, key, value) = HP!Insert(h, key, value)
         /\ H!SetValue(h, key, value) = HP!SetValue(h, key, value)
         /\ H!Remove(h, key) = HP!Remove(h, key)
         /\ H!Keys(h) = HP!Keys(h)
         /\ H!Indexed(h) = HP!Indexed(h)
         /\ H!LookupByIndex(h, key) = HP!LookupByIndex(h, key)
<1>1. H!InitTable(key, value) = HP!InitTable(key, value) /\ H!ResetTable(h) = HP!ResetTable(h)
  BY DEF H!InitTable, HP!InitTable, H!ResetTable, HP!ResetTable, H!Init, HP!Init, H!NoItem,
         HP!NoItem, H!FindPrime, HP!FindPrime, H!IsPrime, HP!IsPrime
<1> USE DEF H!Hash, HP!Hash, H!Chain, HP!Chain, H!Places, HP!Places, H!S!Min, HP!S!Min
<1>2. H!IsFull(h) = HP!IsFull(h) /\ H!Exists(h, key) = HP!Exists(h, key)
  BY DEF H!IsFull, HP!IsFull, H!Exists, HP!Exists
<1>3. H!Find(h, key) = HP!Find(h, key)
  BY DEF H!Find, HP!Find
<1>4. H!Lookup(h, key) = HP!Lookup(h, key)
  BY <1>3 DEF H!Lookup, HP!Lookup
<1>5. H!Insert(h, key, value) = HP!Insert(h, key, value)
  BY DEF H!Insert, HP!Insert, H!IsFull, HP!IsFull, H!UpdateIndexWithAdd, HP!UpdateIndexWithAdd
<1>6. H!SetValue(h, key, value) = HP!SetValue(h, key, value)
  BY DEF H!SetValue, HP!SetValue, H!Find, HP!Find
<1>7. H!Remove(h, key) = HP!Remove(h, key)
  BY DEF H!Remove, HP!Remove, H!Exists, HP!Exists, H!Find, HP!Find, H!NoItem, HP!NoItem,
         H!UpdateIndexWithRemove, HP!UpdateIndexWithRemove, H!S!RemoveAt, HP!S!RemoveAt
<1>8. H!Keys(h) = HP!Keys(h)
  BY DEF H!Keys, HP!Keys, H!Nodes, HP!Nodes, H!S!ToSet, HP!S!ToSet
<1>9. H!Indexed(h) = HP!Indexed(h)
  <2>1. \A q : H!S!FlattenSeq(q) = HP!S!FlattenSeq(q)
    BY DEF H!S!FlattenSeq, HP!S!FlattenSeq
  <2> QED
    BY <2>1 DEF H!Indexed, HP!Indexed, H!ReIndex, HP!ReIndex
<1>10. H!LookupByIndex(h, key) = HP!LookupByIndex(h, key)
  BY <1>9 DEF H!LookupByIndex, HP!LookupByIndex
<1> QED
  BY <1>1, <1>2, <1>4, <1>5, <1>6, <1>7, <1>8, <1>9, <1>10

\* Soundness, too, means the same in both.
LEMMA SameSound ==
  ASSUME NEW h
  PROVE  H!IndexSound(h) = HP!IndexSound(h)
<1>1. \A q : H!S!FlattenSeq(q) = HP!S!FlattenSeq(q)
  BY DEF H!S!FlattenSeq, HP!S!FlattenSeq
<1>2. H!Indexed(h) = HP!Indexed(h)
  BY <1>1 DEF H!Indexed, HP!Indexed, H!ReIndex, HP!ReIndex
<1>3. H!Nodes(h) = HP!Nodes(h) /\ \A q : H!S!ToSet(q) = HP!S!ToSet(q)
  BY DEF H!Nodes, HP!Nodes, H!S!ToSet, HP!S!ToSet
<1>4. \A k : H!Hash(h, k) = HP!Hash(h, k)
  BY DEF H!Hash, HP!Hash
<1>5. \A X : H!Cardinality(X) = HP!Cardinality(X)
  BY DEF H!Cardinality, HP!Cardinality, H!IsFiniteSet, HP!IsFiniteSet
<1> QED
  BY <1>2, <1>3, <1>4, <1>5 DEF H!IndexSound, HP!IndexSound

\* Removing a key, whether or not it is there.
LEMMA RemoveKey ==
  ASSUME NEW h, HP!Well(h, Nat), NEW key \in Nat, NEW g, g = H!Remove(h, key)
  PROVE  /\ HP!Well(g, Nat) /\ HP!Keys(g) = HP!Keys(h) \ {key}
         /\ \A b \in HP!Keys(g) : HP!Lookup(g, b) = HP!Lookup(h, b)
<1>1. g = HP!Remove(h, key) /\ 0 \in Nat
  BY SameTable
<1>2. CASE key \in HP!Keys(h)
  BY <1>1, <1>2, HP!RemoveMap
<1>3. CASE key \notin HP!Keys(h)
  <2>1. ~HP!Exists(h, key)
    BY <1>3, HP!ExistsKey
  <2>2. g = h
    BY <1>1, <2>1 DEF HP!Remove
  <2> QED
    BY <1>3, <2>2
<1> QED
  BY <1>2, <1>3

-----------------------------------------------------------------------------
(* Descriptors and the records of a state. *)

\* The descriptors of clients are numbers of their own.
LEMMA Descriptors ==
  /\ Cardinality(Client) \in Nat /\ IsFiniteSet(ClientFd)
  /\ Cardinality(ClientFd) = Cardinality(Client)
  /\ ClientFd \subseteq Nat /\ NoSock \notin ClientFd /\ Pipe \notin ClientFd
  /\ Roles \cap ClientFd = {} /\ Pipe \notin Roles
<1>1. Cardinality(Client) \in Nat
  BY TcpAssumption, FS_CardinalityType
<1> DEFINE n == Cardinality(Client)
<1>2. ClientFd = 5 .. (4 + n)
  BY DEF ClientFd, Pipe
<1> HIDE DEF n
<1>3. n \in Nat
  BY <1>1 DEF n
<1>4. IsFiniteSet(5 .. (4 + n)) /\ Cardinality(5 .. (4 + n)) = n
  <2> DEFINE a == 5
             b == 4 + n
  <2>1. a \in Int /\ b \in Int /\ (a > b <=> n = 0) /\ b - a + 1 = n
    BY <1>3
  <2> HIDE DEF a, b
  <2>2. IsFiniteSet(a .. b) /\ Cardinality(a .. b) = IF a > b THEN 0 ELSE b - a + 1
    BY <2>1, FS_Interval
  <2>3. IsFiniteSet(a .. b) /\ Cardinality(a .. b) = n
    BY <2>1, <2>2
  <2> QED
    BY <2>3 DEF a, b
<1>5. ClientFd \subseteq Nat /\ NoSock \notin ClientFd /\ Pipe \notin ClientFd
  BY <1>2, <1>3 DEF NoSock, Pipe
<1>6. Roles \cap ClientFd = {} /\ Pipe \notin Roles
  BY <1>2, <1>3, TcpAssumption DEF Pipe
<1> QED
  BY <1>1, <1>2, <1>4, <1>5, <1>6 DEF n

\* A list with a new head.
LEMMA Prepended ==
  ASSUME NEW A, NEW q \in Seq(A), NEW k \in A
  PROVE  /\ <<k>> \o q \in Seq(A) /\ DOMAIN (<<k>> \o q) = 1 .. (Len(q) + 1)
         /\ (<<k>> \o q)[1] = k /\ \A i \in 1 .. Len(q) : (<<k>> \o q)[i + 1] = q[i]
<1>1. <<k>> \in Seq(A) /\ Len(<<k>>) = 1 /\ Len(q) \in Nat
  OBVIOUS
<1>2. <<k>> \o q \in Seq(A) /\ Len(<<k>> \o q) = Len(q) + 1
  BY <1>1
<1>3. \A i \in 1 .. Len(q) : (<<k>> \o q)[i + 1] = q[i]
  BY <1>1
<1> QED
  BY <1>1, <1>2, <1>3

\* The positions of a list that got one more element in front.
LEMMA Shifted ==
  ASSUME NEW n \in Nat, NEW i \in 1 .. (n + 1)
  PROVE  /\ i \in Nat /\ (i = 1 \/ (i - 1 \in 1 .. n /\ (i - 1) + 1 = i))
         /\ i \in 1 .. n => i + 1 \in 1 .. (n + 1)
OBVIOUS

\* A function that is changed at one place.
LEMMA Put ==
  ASSUME NEW D, NEW R, NEW f \in [D -> R], NEW d \in D, NEW v \in R, NEW g, g = [f EXCEPT ![d] = v]
  PROVE  g \in [D -> R] /\ g[d] = v /\ \A o \in D : o # d => g[o] = f[o]
OBVIOUS

\* Two lists, one after the other.
LEMMA Joined ==
  ASSUME NEW A, NEW a \in Seq(A), NEW b \in Seq(A)
  PROVE  a \o b \in Seq(A) /\ Len(a \o b) = Len(a) + Len(b)
OBVIOUS

\* The fields of a record that is put together.
LEMMA RecFields ==
  ASSUME NEW t, NEW n, NEW c, NEW f, NEW e, NEW l, NEW u, NEW b,
         NEW y, y = Rec(t, n, c, f, e, l, u, b)
  PROVE  /\ y.table = t /\ y.new = n /\ y.conn = c /\ y.free = f /\ y.ep = e
         /\ y.listenOn = l /\ y.cl = u /\ y.backlog = b
         /\ y = Rec(y.table, y.new, y.conn, y.free, y.ep, y.listenOn, y.cl, y.backlog)
BY DEF Rec

\* The same record with another free list.
LEMMA WithFree ==
  ASSUME NEW t, NEW n, NEW c, NEW f, NEW e, NEW l, NEW u, NEW b, NEW g,
         NEW y, y = Rec(t, n, c, f, e, l, u, b)
  PROVE  [y EXCEPT !.free = g] = Rec(t, n, c, g, e, l, u, b)
BY DEF Rec

\* The same record with other clients.
LEMMA WithClients ==
  ASSUME NEW t, NEW n, NEW c, NEW f, NEW e, NEW l, NEW u, NEW b, NEW g,
         NEW y, y = Rec(t, n, c, f, e, l, u, b)
  PROVE  [y EXCEPT !.cl = g] = Rec(t, n, c, f, e, l, g, b)
BY DEF Rec

\* The same record with other backlogs.
LEMMA WithBacklog ==
  ASSUME NEW y, y = Rec(y.table, y.new, y.conn, y.free, y.ep, y.listenOn, y.cl, y.backlog), NEW g
  PROVE  [y EXCEPT !.backlog = g] = Rec(y.table, y.new, y.conn, y.free, y.ep, y.listenOn, y.cl, g)
BY DEF Rec

\* The client at the other end of a live object.
LEMMA OwnerOf ==
  ASSUME NEW x, Shape(x), Sockets(x), NEW k \in Live(x), NEW fd, fd = x.conn[k].sock
  PROVE  /\ k \in DOMAIN x.conn /\ x.conn[k] \in ConnRec /\ fd \in ClientFd
         /\ Owner(x, fd) \in Client /\ x.cl[Owner(x, fd)].sock = fd
         /\ x.cl[Owner(x, fd)].st = "open"
         /\ \A d \in Client : x.cl[d].sock = fd => d = Owner(x, fd)
<1>1. k \in DOMAIN x.conn /\ fd # NoSock
  BY DEF Live
<1>2. x.conn[k] \in ConnRec
  BY <1>1 DEF Shape
<1>3. fd \in ClientFd
  BY <1>1, <1>2 DEF ConnRec, Sock
<1>4. \E c \in Client : x.cl[c].sock = fd
  BY <1>1 DEF Sockets
<1>5. Owner(x, fd) \in Client /\ x.cl[Owner(x, fd)].sock = fd
  BY <1>4 DEF Owner
<1> HIDE DEF Owner
<1>6. \A d \in Client : x.cl[d].sock = fd => d = Owner(x, fd)
  BY <1>1, <1>5 DEF Sockets
<1>7. x.cl[Owner(x, fd)].st = "open"
  BY <1>1, <1>5 DEF Sockets
<1> QED
  BY <1>1, <1>2, <1>3, <1>5, <1>6, <1>7

-----------------------------------------------------------------------------
(* Closing a connection. *)

CloseTable(x, fd, id) == IF id = 0 THEN x.table ELSE [x.table EXCEPT ![id] = H!Remove(@, fd)]

\* CloseConnection, field by field.
LEMMA CloseFields ==
  ASSUME NEW x, Shape(x), NEW k, NEW fd, fd = x.conn[k].sock
  PROVE  CloseConnection(x, k) =
           Rec(CloseTable(x, fd, x.conn[k].id), x.new, [x.conn EXCEPT ![k].sock = NoSock],
               <<k>> \o x.free, P!EpollRemove(x.ep, fd), x.listenOn,
               [x.cl EXCEPT ![Owner(x, fd)] = Dropped], x.backlog)
<1> DEFINE c == Owner(x, fd)
           e == P!EpollRemove(x.ep, fd)
           id == x.conn[k].id
           y == [x EXCEPT !.ep = P!EpollRemove(@, fd), !.conn[k].sock = NoSock, !.cl[c] = Dropped]
           z == IF id = 0 THEN y ELSE [y EXCEPT !.table[id] = H!Remove(@, fd)]
<1>1. CloseConnection(x, k) = ReleaseConnection(z, k)
  BY DEF CloseConnection
<1>2. x = Rec(x.table, x.new, x.conn, x.free, x.ep, x.listenOn, x.cl, x.backlog)
  BY DEF Shape
<1>3. y = Rec(x.table, x.new, [x.conn EXCEPT ![k].sock = NoSock], x.free, e, x.listenOn,
              [x.cl EXCEPT ![c] = Dropped], x.backlog)
  <2> HIDE DEF c
  <2>1. y = [x EXCEPT !.ep = e, !.conn = [x.conn EXCEPT ![k].sock = NoSock],
                      !.cl = [x.cl EXCEPT ![c] = Dropped]]
    OBVIOUS
  <2> HIDE DEF e, y
  <2> DEFINE co == [x.conn EXCEPT ![k].sock = NoSock]
             cl == [x.cl EXCEPT ![c] = Dropped]
  <2>2. y = [x EXCEPT !.ep = e, !.conn = co, !.cl = cl]
    BY <2>1
  <2> HIDE DEF co, cl
  <2>3. y = Rec(x.table, x.new, co, x.free, e, x.listenOn, cl, x.backlog)
    BY <1>2, <2>2 DEF Rec
  <2> QED
    BY <2>3 DEF co, cl
<1> HIDE DEF y, e, c
<1> DEFINE t == CloseTable(x, fd, id)
<1>4. z = Rec(t, y.new, y.conn, y.free, y.ep, y.listenOn, y.cl, y.backlog)
  <2> DEFINE h == [x.table EXCEPT ![id] = H!Remove(@, fd)]
  <2>1. y.table = x.table /\ y = Rec(y.table, y.new, y.conn, y.free, y.ep, y.listenOn, y.cl, y.backlog)
    BY <1>3, RecFields
  <2>2. CASE id = 0
    BY <2>1, <2>2 DEF CloseTable
  <2>3. CASE id # 0
    <3>1. z = [y EXCEPT !.table = h]
      BY <2>1, <2>3
    <3>2. t = h
      BY <2>3 DEF CloseTable
    <3> HIDE DEF h, t, z
    <3> QED
      BY <2>1, <3>1, <3>2 DEF Rec
  <2> QED
    BY <2>2, <2>3
<1> HIDE DEF z, t
<1>5. ReleaseConnection(z, k) = Rec(t, y.new, y.conn, <<k>> \o y.free, y.ep, y.listenOn, y.cl, y.backlog)
  <2> DEFINE f == <<k>> \o y.free
  <2>1. z.free = y.free
    BY <1>4, RecFields
  <2>2. ReleaseConnection(z, k) = [z EXCEPT !.free = f]
    BY <2>1 DEF ReleaseConnection
  <2> HIDE DEF f
  <2>3. [z EXCEPT !.free = f] = Rec(t, y.new, y.conn, f, y.ep, y.listenOn, y.cl, y.backlog)
    BY <1>4, WithFree
  <2> QED
    BY <2>2, <2>3 DEF f
<1>6. /\ y.new = x.new /\ y.conn = [x.conn EXCEPT ![k].sock = NoSock] /\ y.free = x.free
      /\ y.ep = e /\ y.listenOn = x.listenOn /\ y.cl = [x.cl EXCEPT ![c] = Dropped]
      /\ y.backlog = x.backlog
  BY <1>3, RecFields
<1> QED
  BY <1>1, <1>5, <1>6 DEF t, e, c

LEMMA DroppedRec ==
  /\ Dropped \in ClientRec /\ Dropped.st = "closed" /\ Dropped.sock = NoSock
  /\ Dropped.rcvd = 0 /\ Dropped.sent = 0
BY TcpAssumption DEF Dropped, Idle, ClientRec, Sock

\* A descriptor is taken out of the kernel's interest list.
LEMMA Unpolled ==
  ASSUME NEW ep, ep = [interest |-> ep.interest, pending |-> ep.pending],
         ep.interest \in [DOMAIN ep.interest -> {"read", "write"}],
         NEW fd, NEW e, e = P!EpollRemove(ep, fd)
  PROVE  /\ e = [interest |-> e.interest, pending |-> e.pending]
         /\ e.interest \in [DOMAIN e.interest -> {"read", "write"}]
         /\ DOMAIN e.interest = DOMAIN ep.interest \ {fd}
         /\ \A f \in DOMAIN e.interest : e.interest[f] = ep.interest[f]
<1> DEFINE g == [f \in DOMAIN ep.interest \ {fd} |-> ep.interest[f]]
<1>1. e = [ep EXCEPT !.interest = g]
  BY DEF P!EpollRemove, P!F!Restrict
<1>2. DOMAIN g = DOMAIN ep.interest \ {fd} /\ \A f \in DOMAIN g : g[f] = ep.interest[f]
  OBVIOUS
<1>3. g \in [DOMAIN g -> {"read", "write"}]
  OBVIOUS
<1> HIDE DEF g
<1>4. e = [interest |-> g, pending |-> ep.pending]
  BY <1>1
<1>5. e.interest = g /\ e.pending = ep.pending
  BY <1>4
<1> QED
  BY <1>2, <1>3, <1>4, <1>5

ClosedTables(t, x, fd) ==
  /\ t = [i \in 1 .. 2 |-> t[i]]
  /\ \A i \in 1 .. 2 : /\ HP!Well(t[i], Nat) /\ HP!Keys(t[i]) = HP!Keys(x.table[i]) \ {fd}
                       /\ \A b \in HP!Keys(t[i]) : HP!Lookup(t[i], b) = HP!Lookup(x.table[i], b)

\* The tables after the connection at descriptor fd is closed.
LEMMA CloseTables ==
  ASSUME NEW x, Shape(x), Sockets(x), Tables(x), NEW k \in Live(x),
         NEW fd, fd = x.conn[k].sock, NEW t, t = CloseTable(x, fd, x.conn[k].id)
  PROVE  ClosedTables(t, x, fd)
<1> DEFINE id == x.conn[k].id
<1>1. k \in DOMAIN x.conn /\ x.conn[k] \in ConnRec /\ fd \in ClientFd /\ fd \in Nat /\ fd # NoSock
  BY OwnerOf, Descriptors DEF Live
<1>2. id \in 0 .. 2
  BY <1>1 DEF ConnRec
<1>3. \A i \in 1 .. 2 : i # id => fd \notin HP!Keys(x.table[i])
  <2> SUFFICES ASSUME NEW i \in 1 .. 2, i # id, fd \in HP!Keys(x.table[i])
               PROVE  FALSE
    OBVIOUS
  <2>1. PICK l \in DOMAIN x.conn : x.conn[l].sock = fd /\ x.conn[l].id = i
    BY DEF Tables
  <2>2. l = k
    BY <1>1, <2>1 DEF Sockets
  <2> QED
    BY <2>1, <2>2
<1>4. \A i \in 1 .. 2 : HP!Well(x.table[i], Nat)
  BY DEF Tables
<1>5. x.table = [i \in 1 .. 2 |-> x.table[i]]
  BY DEF Shape
<1> HIDE DEF id
<1>6. CASE id = 0
  <2>1. t = x.table
    BY <1>6, SMTT(30), ZenonT(30) DEF CloseTable, id
  <2>2. \A i \in 1 .. 2 : fd \notin HP!Keys(x.table[i])
    BY <1>3, <1>6
  <2> QED
    BY <1>4, <1>5, <2>1, <2>2 DEF ClosedTables
<1>7. CASE id # 0
  <2> DEFINE g == H!Remove(x.table[id], fd)
  <2>1. id \in 1 .. 2
    BY <1>2, <1>7
  <2>2. t = [x.table EXCEPT ![id] = g]
    BY <1>7 DEF CloseTable, id
  <2> HIDE DEF g
  <2>3. /\ HP!Well(g, Nat) /\ HP!Keys(g) = HP!Keys(x.table[id]) \ {fd}
        /\ \A b \in HP!Keys(g) : HP!Lookup(g, b) = HP!Lookup(x.table[id], b)
    <3>1. HP!Well(x.table[id], Nat) /\ g = H!Remove(x.table[id], fd)
      BY <1>4, <2>1 DEF g
    <3> QED
      BY <1>1, <3>1, RemoveKey
  <2>4. t = [i \in 1 .. 2 |-> IF i = id THEN g ELSE x.table[i]]
    BY <1>5, <2>1, <2>2
  <2>5. t = [i \in 1 .. 2 |-> t[i]] /\ \A i \in 1 .. 2 : t[i] = IF i = id THEN g ELSE x.table[i]
    BY <2>4
  <2>6. \A i \in 1 .. 2 : i # id => HP!Keys(x.table[i]) = HP!Keys(x.table[i]) \ {fd}
    BY <1>3
  <2> QED
    BY <1>4, <2>3, <2>5, <2>6 DEF ClosedTables
<1> QED
  BY <1>6, <1>7

Closable(x, p, k, fd, y) ==
  /\ p \cap ClientFd = {} /\ k \in Live(x) /\ Inv(x, p, {k}) /\ fd = x.conn[k].sock
  /\ y = CloseConnection(x, k)

IsClosed(x, p, k, fd, y) ==
  /\ Inv(y, p, {}) /\ y.new = x.new /\ Live(y) = Live(x) \ {k}
  /\ \A i \in 1 .. 2 : HP!Keys(y.table[i]) = HP!Keys(x.table[i]) \ {fd}

\* What CloseConnection does, whatever the object was in the middle of: the
\* rest of the state is in order, and the descriptor is in no table.
LEMMA CloseStep ==
  ASSUME NEW x, NEW p, NEW k, NEW fd, NEW y, Closable(x, p, k, fd, y)
  PROVE  IsClosed(x, p, k, fd, y)
<1>0. /\ p \cap ClientFd = {} /\ k \in Live(x) /\ Inv(x, p, {k}) /\ fd = x.conn[k].sock
      /\ y = CloseConnection(x, k)
  BY DEF Closable
<1> USE <1>0
<1> DEFINE c == Owner(x, fd)
<1>1. /\ Shape(x) /\ Pool(x) /\ Sockets(x) /\ Queued(x) /\ Tables(x) /\ Polled(x, p)
      /\ \A l \in Live(x) : l # k => Held(x, l) /\ Follows(x, l)
  BY DEF Inv
<1>2. /\ k \in DOMAIN x.conn /\ x.conn[k] \in ConnRec /\ fd \in ClientFd /\ fd # NoSock
      /\ c \in Client /\ x.cl[c].sock = fd /\ x.cl[c].st = "open"
      /\ \A d \in Client : x.cl[d].sock = fd => d = c
  BY <1>1, OwnerOf, Descriptors
<1> DEFINE t == CloseTable(x, fd, x.conn[k].id)
           co == [x.conn EXCEPT ![k].sock = NoSock]
           cl == [x.cl EXCEPT ![c] = Dropped]
           e == P!EpollRemove(x.ep, fd)
           f == <<k>> \o x.free
<1>3. y = Rec(t, x.new, co, f, e, x.listenOn, cl, x.backlog)
  BY <1>1, CloseFields
<1> HIDE DEF c, t, co, cl, e, f
<1>4. /\ y.table = t /\ y.new = x.new /\ y.conn = co /\ y.free = f /\ y.ep = e
      /\ y.listenOn = x.listenOn /\ y.cl = cl /\ y.backlog = x.backlog
  BY <1>3, RecFields
<1>5. y = Rec(y.table, y.new, y.conn, y.free, y.ep, y.listenOn, y.cl, y.backlog)
  BY <1>3, RecFields
<1>6. /\ y.table = [i \in 1 .. 2 |-> y.table[i]]
      /\ \A i \in 1 .. 2 : /\ HP!Well(y.table[i], Nat)
                           /\ HP!Keys(y.table[i]) = HP!Keys(x.table[i]) \ {fd}
                           /\ \A b \in HP!Keys(y.table[i]) :
                                HP!Lookup(y.table[i], b) = HP!Lookup(x.table[i], b)
  <2>1. t = CloseTable(x, fd, x.conn[k].id)
    BY DEF t
  <2>2. ClosedTables(t, x, fd)
    BY <1>1, <2>1, CloseTables
  <2> QED
    BY <1>4, <2>2 DEF ClosedTables
<1>7. /\ y.ep = [interest |-> y.ep.interest, pending |-> y.ep.pending]
      /\ y.ep.interest \in [DOMAIN y.ep.interest -> {"read", "write"}]
      /\ DOMAIN y.ep.interest = DOMAIN x.ep.interest \ {fd}
      /\ \A b \in DOMAIN y.ep.interest : y.ep.interest[b] = x.ep.interest[b]
  <2>1. /\ x.ep = [interest |-> x.ep.interest, pending |-> x.ep.pending]
        /\ x.ep.interest \in [DOMAIN x.ep.interest -> {"read", "write"}]
    BY <1>1 DEF Shape
  <2> QED
    BY <1>4, <2>1, Unpolled DEF e
<1> DEFINE r == [x.conn[k] EXCEPT !.sock = NoSock]
<1>8. r \in ConnRec /\ r.sock = NoSock /\ r.id = x.conn[k].id
  BY <1>2 DEF ConnRec, Sock
<1>9. /\ y.conn \in Seq(ConnRec) /\ DOMAIN y.conn = DOMAIN x.conn
      /\ y.conn[k] = r /\ \A l \in DOMAIN x.conn : l # k => y.conn[l] = x.conn[l]
  <2>1. y.conn = [x.conn EXCEPT ![k] = r]
    BY <1>4 DEF co
  <2>2. x.conn \in Seq(ConnRec)
    BY <1>1 DEF Shape
  <2> HIDE DEF r
  <2> QED
    BY <1>2, <1>8, <2>1, <2>2
<1> HIDE DEF r
<1>10. /\ y.cl \in [Client -> ClientRec] /\ y.cl[c] = Dropped
       /\ \A d \in Client : d # c => y.cl[d] = x.cl[d]
  <2>1. x.cl \in [Client -> ClientRec]
    BY <1>1 DEF Shape
  <2> QED
    BY <1>2, <1>4, <2>1, DroppedRec DEF cl
<1>11. k \in Nat /\ x.free \in Seq(Nat) /\ Len(x.free) \in Nat /\ DOMAIN x.free = 1 .. Len(x.free)
  BY <1>1, <1>2 DEF Shape
<1>12. /\ y.free \in Seq(Nat) /\ DOMAIN y.free = 1 .. (Len(x.free) + 1)
       /\ y.free[1] = k /\ \A i \in 1 .. Len(x.free) : y.free[i + 1] = x.free[i]
  BY <1>4, <1>11, Prepended DEF f
<1>13. Live(y) = Live(x) \ {k}
  BY <1>2, <1>8, <1>9 DEF Live
<1>14. Shape(y)
  <2>1. x.new \in 1 .. 2 /\ x.listenOn \in BOOLEAN /\ x.backlog \in [Roles -> Seq(Client)]
    BY <1>1 DEF Shape
  <2> QED
    BY <1>4, <1>5, <1>6, <1>7, <1>9, <1>10, <1>12, <2>1 DEF Shape
<1>15. Pool(y)
  <2>1. \A i \in DOMAIN y.free : i = 1 \/ (i - 1 \in DOMAIN x.free /\ y.free[i] = x.free[i - 1])
    <3> TAKE i \in DOMAIN y.free
    <3>0. Len(x.free) \in Nat /\ i \in 1 .. (Len(x.free) + 1)
      BY <1>11, <1>12
    <3>1. i = 1 \/ (i - 1 \in 1 .. Len(x.free) /\ (i - 1) + 1 = i)
      BY <3>0, Shifted
    <3>2. i - 1 \in 1 .. Len(x.free) => y.free[(i - 1) + 1] = x.free[i - 1]
      BY <1>12
    <3> QED
      BY <1>11, <3>1, <3>2
  <2>2. \A i \in DOMAIN x.free : x.free[i] \in DOMAIN x.conn /\ x.free[i] # k
    BY <1>1, <1>2 DEF Pool
  <2>3. ASSUME NEW i \in DOMAIN y.free, NEW j \in DOMAIN y.free, y.free[i] = y.free[j]
        PROVE  i = j
    <3>1. i \in Nat /\ j \in Nat
      BY <1>11, <1>12
    <3>2. CASE i = 1
      BY <1>12, <2>1, <2>2, <2>3, <3>2
    <3>3. CASE i # 1 /\ j # 1
      <4>1. i - 1 = j - 1
        BY <1>1, <2>1, <2>3, <3>3 DEF Pool
      <4> QED
        BY <3>1, <4>1
    <3>4. CASE j = 1
      BY <1>12, <2>1, <2>2, <2>3, <3>4
    <3> QED
      BY <3>2, <3>3, <3>4
  <2>4. ASSUME NEW i \in DOMAIN y.free
        PROVE  y.free[i] \in DOMAIN y.conn /\ y.conn[y.free[i]].sock = NoSock
    <3>1. CASE i = 1
      BY <1>2, <1>8, <1>9, <1>12, <3>1
    <3>2. CASE i # 1
      BY <1>1, <1>9, <2>1, <2>2, <3>2 DEF Pool
    <3> QED
      BY <3>1, <3>2
  <2>5. ASSUME NEW l \in DOMAIN y.conn, y.conn[l].sock = NoSock
        PROVE  \E i \in DOMAIN y.free : y.free[i] = l
    <3>1. CASE l = k
      <4>1. 1 \in DOMAIN y.free
        BY <1>11, <1>12
      <4>2. y.free[1] = k
        BY <1>12
      <4> QED
        BY <3>1, <4>1, <4>2
    <3>2. CASE l # k
      <4>1. PICK i \in DOMAIN x.free : x.free[i] = l
        BY <1>1, <1>9, <2>5, <3>2 DEF Pool
      <4>2. i + 1 \in DOMAIN y.free
        <5>1. Len(x.free) \in Nat /\ i \in 1 .. Len(x.free) /\ DOMAIN y.free = 1 .. (Len(x.free) + 1)
          BY <1>11, <1>12
        <5>2. i \in 1 .. (Len(x.free) + 1)
          BY <5>1
        <5> QED
          BY <5>1, <5>2, Shifted
      <4>3. y.free[i + 1] = x.free[i]
        BY <1>11, <1>12
      <4> QED
        BY <4>1, <4>2, <4>3
    <3> QED
      BY <3>1, <3>2
  <2> QED
    BY <2>3, <2>4, <2>5 DEF Pool
<1>16. Sockets(y)
  <2>1. y.cl[c].sock = NoSock /\ y.cl[c].st = "closed"
    BY <1>10, DroppedRec
  <2>2. \A d \in Client : d # c => x.cl[d].sock # fd
    BY <1>2
  <2>3. \A l \in DOMAIN x.conn : l # k => x.conn[l].sock # fd
    BY <1>1, <1>2 DEF Sockets
  <2>4. ASSUME NEW d \in Client
        PROVE  y.cl[d].st = "open" <=> y.cl[d].sock # NoSock
    BY <1>1, <1>10, <2>1 DEF Sockets
  <2>5. ASSUME NEW d \in Client, NEW b \in Client, y.cl[d].sock = y.cl[b].sock, y.cl[d].sock # NoSock
        PROVE  d = b
    <3>1. d # c /\ b # c
      BY <2>1, <2>5
    <3> QED
      BY <1>1, <1>10, <2>5, <3>1 DEF Sockets
  <2>6. ASSUME NEW l \in DOMAIN y.conn, NEW m \in DOMAIN y.conn,
               y.conn[l].sock = y.conn[m].sock, y.conn[l].sock # NoSock
        PROVE  l = m
    <3>1. l # k /\ m # k
      BY <1>8, <1>9, <2>6
    <3> QED
      BY <1>1, <1>9, <2>6, <3>1 DEF Sockets
  <2>7. ASSUME NEW l \in DOMAIN y.conn, y.conn[l].sock # NoSock
        PROVE  \E d \in Client : y.cl[d].sock = y.conn[l].sock
    <3>1. l # k
      BY <1>8, <1>9, <2>7
    <3>2. PICK d \in Client : x.cl[d].sock = x.conn[l].sock
      BY <1>1, <1>9, <2>7, <3>1 DEF Sockets
    <3>3. d # c
      BY <1>2, <1>9, <2>3, <3>1, <3>2
    <3> QED
      BY <1>9, <1>10, <3>1, <3>2, <3>3
  <2>8. ASSUME NEW d \in Client, y.cl[d].sock # NoSock
        PROVE  \E l \in DOMAIN y.conn : y.conn[l].sock = y.cl[d].sock
    <3>1. d # c
      BY <2>1, <2>8
    <3>2. PICK l \in DOMAIN x.conn : x.conn[l].sock = x.cl[d].sock
      BY <1>1, <1>10, <2>8, <3>1 DEF Sockets
    <3>3. l # k
      BY <2>2, <3>1, <3>2
    <3> QED
      BY <1>9, <1>10, <3>1, <3>2, <3>3
  <2> QED
    BY <2>4, <2>5, <2>6, <2>7, <2>8 DEF Sockets
<1>17. Queued(y)
  <2>1. \A q \in Roles : \A i \in DOMAIN x.backlog[q] : x.backlog[q][i] \in Client /\ x.backlog[q][i] # c
    <3> TAKE q \in Roles
    <3> TAKE i \in DOMAIN x.backlog[q]
    <3>1. x.backlog[q] \in Seq(Client)
      BY <1>1 DEF Shape
    <3> QED
      BY <1>1, <1>2, <3>1 DEF Queued
  <2>2. ASSUME NEW d \in Client
        PROVE  /\ y.cl[d].rcvd <= y.cl[d].sent
               /\ y.cl[d].st \in {"idle", "queued"} => y.cl[d].rcvd = 0 /\ y.cl[d].got = 0
    <3>1. CASE d = c
      BY <1>10, <3>1, DroppedRec
    <3>2. CASE d # c
      BY <1>1, <1>10, <3>2 DEF Queued
    <3> QED
      BY <3>1, <3>2
  <2>3. \A q \in Roles : \A i \in DOMAIN y.backlog[q] : y.cl[y.backlog[q][i]].st = "queued"
    BY <1>1, <1>4, <1>10, <2>1 DEF Queued
  <2> QED
    BY <1>1, <1>4, <2>2, <2>3 DEF Queued
<1>18. Tables(y)
  <2>1. ASSUME NEW i \in 1 .. 2, NEW b \in HP!Keys(y.table[i])
        PROVE  \E l \in DOMAIN y.conn : y.conn[l].sock = b /\ y.conn[l].id = i
    <3>1. b # fd /\ b \in HP!Keys(x.table[i])
      BY <1>6, <2>1
    <3>2. PICK l \in DOMAIN x.conn : x.conn[l].sock = b /\ x.conn[l].id = i
      BY <1>1, <3>1 DEF Tables
    <3> QED
      BY <1>9, <3>1, <3>2
  <2> QED
    BY <1>6, <2>1 DEF Tables
<1>19. Polled(y, p)
  <2>1. Fds(y) = Fds(x) \ {fd}
    <3>1. \A l \in Live(x) : l # k => x.conn[l].sock # fd /\ l \in DOMAIN x.conn
      BY <1>1, <1>2 DEF Sockets, Live
    <3> QED
      BY <1>9, <1>13, <3>1 DEF Fds
  <2>2. fd \notin p /\ fd \notin Roles
    BY <1>2, Descriptors
  <2> QED
    BY <1>1, <1>4, <1>7, <2>1, <2>2 DEF Polled
<1>20. ASSUME NEW l \in Live(y)
       PROVE  Held(y, l) /\ Follows(y, l)
  <2>1. l \in Live(x) /\ l # k /\ l \in DOMAIN x.conn /\ y.conn[l] = x.conn[l] /\ x.conn[l] \in ConnRec
    BY <1>1, <1>9, <1>13 DEF Live, Shape
  <2>2. Held(x, l) /\ Follows(x, l)
    BY <1>1, <2>1
  <2>3. x.conn[l].sock # fd /\ x.conn[l].sock # NoSock
    BY <1>1, <1>2, <2>1 DEF Sockets, Live
  <2>4. x.conn[l].id \in 1 .. 2
    BY <2>1, <2>2 DEF Held, Filed, ConnRec
  <2>5. x.conn[l].sock \in DOMAIN x.ep.interest
    BY <1>1, <2>1 DEF Polled, Fds
  <2>6. Held(y, l)
    BY <1>6, <1>7, <2>1, <2>2, <2>3, <2>4, <2>5 DEF Held, Filed
  <2>7. Follows(y, l)
    <3> SUFFICES ASSUME NEW d \in Client, y.cl[d].sock = y.conn[l].sock
                 PROVE  InStream(y.conn[l], d, y.cl[d])
      BY DEF Follows
    <3>1. d # c
      BY <1>10, <2>1, <2>3, DroppedRec
    <3> QED
      BY <1>10, <2>1, <2>2, <3>1 DEF Follows
  <2> QED
    BY <2>6, <2>7
<1> QED
  BY <1>4, <1>6, <1>13, <1>14, <1>15, <1>16, <1>17, <1>18, <1>19, <1>20 DEF Inv, IsClosed

-----------------------------------------------------------------------------
(* Working on a connection. *)

\* The interest list e differs from that of ep at fd at most.
SameInterest(e, ep, fd) ==
  /\ e = [interest |-> e.interest, pending |-> e.pending]
  /\ e.interest \in [DOMAIN e.interest -> {"read", "write"}]
  /\ DOMAIN e.interest = DOMAIN ep.interest
  /\ \A f \in DOMAIN e.interest : f # fd => e.interest[f] = ep.interest[f]

\* x with object k, its client c and the polling object replaced.
Touched(x, k, r, c, u, e) ==
  Rec(x.table, x.new, [x.conn EXCEPT ![k] = r], x.free, e, x.listenOn, [x.cl EXCEPT ![c] = u], x.backlog)

\* Objects and clients have the same sockets in x and y.
KeepSockets(x, y) ==
  /\ DOMAIN y.conn = DOMAIN x.conn
  /\ \A l \in DOMAIN x.conn : y.conn[l].sock = x.conn[l].sock
  /\ \A d \in Client : y.cl[d].sock = x.cl[d].sock /\ (y.cl[d].st = "open" <=> x.cl[d].st = "open")

\* Sockets that stay where they are keep their owners.
LEMMA SameSockets ==
  ASSUME NEW x, NEW y, Sockets(x), KeepSockets(x, y)
  PROVE  /\ Sockets(y) /\ Live(y) = Live(x)
         /\ Fds(y) = Fds(x)
<1> USE DEF KeepSockets
<1>1. Live(y) = Live(x) /\ \A l \in Live(x) : y.conn[l].sock = x.conn[l].sock
  BY DEF Live
<1>2. Fds(y) = Fds(x)
  BY <1>1, Zenon DEF Fds
<1>3. ASSUME NEW d \in Client
      PROVE  y.cl[d].st = "open" <=> y.cl[d].sock # NoSock
  BY DEF Sockets
<1>4. ASSUME NEW d \in Client, NEW b \in Client, y.cl[d].sock = y.cl[b].sock, y.cl[d].sock # NoSock
      PROVE  d = b
  BY <1>4 DEF Sockets
<1>5. ASSUME NEW l \in DOMAIN y.conn, NEW m \in DOMAIN y.conn,
             y.conn[l].sock = y.conn[m].sock, y.conn[l].sock # NoSock
      PROVE  l = m
  BY <1>5 DEF Sockets
<1>6. ASSUME NEW l \in DOMAIN y.conn, y.conn[l].sock # NoSock
      PROVE  \E d \in Client : y.cl[d].sock = y.conn[l].sock
  BY <1>6 DEF Sockets
<1>7. ASSUME NEW d \in Client, y.cl[d].sock # NoSock
      PROVE  \E l \in DOMAIN y.conn : y.conn[l].sock = y.cl[d].sock
  BY <1>7 DEF Sockets
<1> QED
  BY <1>1, <1>2, <1>3, <1>4, <1>5, <1>6, <1>7 DEF Sockets

Touchable(x, p, k, fd, r, c, u, e) ==
  /\ k \in Live(x) /\ Inv(x, p, {k}) /\ fd = x.conn[k].sock /\ c = Owner(x, fd)
  /\ r \in ConnRec /\ r.sock = fd /\ r.id = x.conn[k].id
  /\ u \in ClientRec /\ u.st = x.cl[c].st /\ u.sock = x.cl[c].sock /\ u.rcvd <= u.sent
  /\ SameInterest(e, x.ep, fd)

Touches(x, p, k, fd, r, c, u, e, y) ==
  /\ Inv(y, p, {k}) /\ k \in Live(y) /\ Live(y) = Live(x) /\ y.new = x.new /\ y.table = x.table
  /\ y.conn[k] = r /\ y.cl[c] = u /\ y.ep = e /\ Owner(y, fd) = c
  /\ Filed(x, k) /\ InStream(r, c, u) /\ e.interest[fd] = Wants(r) => Inv(y, p, {})

\* An object and its client change, but not the socket between them: the
\* rest of the state is in order, and so is the object if it is where its
\* stream is.
LEMMA TouchStep ==
  ASSUME NEW x, NEW p, NEW k, NEW fd, NEW r, NEW c, NEW u, NEW e, Touchable(x, p, k, fd, r, c, u, e),
         NEW y, y = Touched(x, k, r, c, u, e)
  PROVE  Touches(x, p, k, fd, r, c, u, e, y)
<1>t. /\ k \in Live(x) /\ Inv(x, p, {k}) /\ fd = x.conn[k].sock /\ c = Owner(x, fd)
      /\ r \in ConnRec /\ r.sock = fd /\ r.id = x.conn[k].id
      /\ u \in ClientRec /\ u.st = x.cl[c].st /\ u.sock = x.cl[c].sock /\ u.rcvd <= u.sent
      /\ SameInterest(e, x.ep, fd)
  BY DEF Touchable
<1>1. /\ Shape(x) /\ Pool(x) /\ Sockets(x) /\ Queued(x) /\ Tables(x) /\ Polled(x, p)
      /\ \A l \in Live(x) : l # k => Held(x, l) /\ Follows(x, l)
  BY <1>t DEF Inv
<1>2. /\ k \in DOMAIN x.conn /\ x.conn[k] \in ConnRec /\ fd \in ClientFd /\ fd # NoSock
      /\ c \in Client /\ x.cl[c].sock = fd /\ x.cl[c].st = "open"
      /\ \A d \in Client : x.cl[d].sock = fd => d = c
  BY <1>t, <1>1, OwnerOf, Descriptors
<1> DEFINE co == [x.conn EXCEPT ![k] = r]
           cl == [x.cl EXCEPT ![c] = u]
<1>3. y = Rec(x.table, x.new, co, x.free, e, x.listenOn, cl, x.backlog)
  BY DEF Touched
<1> HIDE DEF co, cl
<1>4. /\ y.table = x.table /\ y.new = x.new /\ y.conn = co /\ y.free = x.free /\ y.ep = e
      /\ y.listenOn = x.listenOn /\ y.cl = cl /\ y.backlog = x.backlog
  BY <1>3, RecFields
<1>5. y = Rec(y.table, y.new, y.conn, y.free, y.ep, y.listenOn, y.cl, y.backlog)
  BY <1>3, RecFields
<1>6. /\ y.conn \in Seq(ConnRec) /\ DOMAIN y.conn = DOMAIN x.conn
      /\ y.conn[k] = r /\ \A l \in DOMAIN x.conn : l # k => y.conn[l] = x.conn[l]
  <2>1. x.conn \in Seq(ConnRec)
    BY <1>1 DEF Shape
  <2>2. r \in ConnRec /\ k \in DOMAIN x.conn
    BY <1>t, <1>2
  <2>3. y.conn = [x.conn EXCEPT ![k] = r]
    BY <1>4 DEF co
  <2> QED
    BY <2>1, <2>2, <2>3
<1>7. /\ y.cl \in [Client -> ClientRec] /\ y.cl[c] = u
      /\ \A d \in Client : d # c => y.cl[d] = x.cl[d]
  <2>1. x.cl \in [Client -> ClientRec]
    BY <1>1 DEF Shape
  <2>2. u \in ClientRec /\ c \in Client
    BY <1>t, <1>2
  <2>3. y.cl = [x.cl EXCEPT ![c] = u]
    BY <1>4, ZenonT(60) DEF cl
  <2> QED
    BY <2>1, <2>2, <2>3, Put
<1>8. /\ \A l \in DOMAIN x.conn : y.conn[l].sock = x.conn[l].sock /\ y.conn[l].id = x.conn[l].id
      /\ \A d \in Client : y.cl[d].sock = x.cl[d].sock /\ y.cl[d].st = x.cl[d].st
  BY <1>t, <1>6, <1>7
<1>d. \A d \in Client : y.cl[d].sock = x.cl[d].sock
  BY <1>8
<1>o. c \in Client /\ x.cl[c].sock = fd /\ \A d \in Client : x.cl[d].sock = fd => d = c
  BY <1>2
<1>9. Sockets(y) /\ Live(y) = Live(x) /\ Fds(y) = Fds(x)
  <2>1. KeepSockets(x, y)
    BY <1>6, <1>8 DEF KeepSockets
  <2> QED
    BY <1>1, <2>1, SameSockets
<1>10. Shape(y)
  <2>0. Shape(x)
    BY <1>1
  <2>1. /\ x.new \in 1 .. 2 /\ x.listenOn \in BOOLEAN /\ x.backlog \in [Roles -> Seq(Client)]
        /\ x.table = [i \in 1 .. 2 |-> x.table[i]] /\ x.free \in Seq(Nat)
    BY <2>0 DEF Shape
  <2>2. /\ y.ep = [interest |-> y.ep.interest, pending |-> y.ep.pending]
        /\ y.ep.interest \in [DOMAIN y.ep.interest -> {"read", "write"}]
    BY <1>t, <1>4 DEF SameInterest
  <2> QED
    BY <1>4, <1>5, <1>6, <1>7, <2>1, <2>2 DEF Shape
<1>11. Pool(y)
  BY <1>1, <1>4, <1>6, <1>8 DEF Pool
<1>13. Queued(y)
  <2>1. \A q \in Roles : \A i \in DOMAIN x.backlog[q] : x.backlog[q][i] \in Client
    <3> TAKE q \in Roles
    <3>1. x.backlog[q] \in Seq(Client)
      BY <1>1 DEF Shape
    <3> QED
      BY <3>1
  <2>2. ASSUME NEW d \in Client
        PROVE  /\ y.cl[d].rcvd <= y.cl[d].sent
               /\ y.cl[d].st \in {"idle", "queued"} => y.cl[d].rcvd = 0 /\ y.cl[d].got = 0
    <3>0. Queued(x)
      BY <1>1
    <3>1. CASE d = c
      <4>1. y.cl[d] = u /\ u.rcvd <= u.sent /\ u.st = "open"
        BY <1>t, <1>2, <1>7, <3>1
      <4> QED
        BY <4>1
    <3>2. CASE d # c
      <4>1. y.cl[d] = x.cl[d]
        BY <1>7, <3>2
      <4> QED
        BY <3>0, <4>1 DEF Queued
    <3> QED
      BY <3>1, <3>2
  <2>0. Queued(x)
    BY <1>1
  <2>3. \A q \in Roles : \A i \in DOMAIN y.backlog[q] : y.cl[y.backlog[q][i]].st = "queued"
    BY <1>4, <1>8, <2>0, <2>1 DEF Queued
  <2>4. \A r1, q \in Roles : \A i \in DOMAIN x.backlog[r1], j \in DOMAIN x.backlog[q] :
          x.backlog[r1][i] = x.backlog[q][j] => r1 = q /\ i = j
    BY <2>0 DEF Queued
  <2> QED
    BY <1>4, <2>2, <2>3, <2>4 DEF Queued
<1>14. Tables(y)
  <2>1. Tables(x) /\ y.table = x.table
    BY <1>1, <1>4
  <2> QED
    BY <1>6, <1>8, <2>1 DEF Tables
<1>15. Polled(y, p)
  BY <1>t, <1>1, <1>4, <1>9 DEF Polled, SameInterest
<1>16. ASSUME NEW l \in Live(y), l # k
       PROVE  Held(y, l) /\ Follows(y, l)
  <2>1. l \in Live(x) /\ l \in DOMAIN x.conn /\ y.conn[l] = x.conn[l]
    BY <1>6, <1>9, <1>16 DEF Live
  <2>2. Held(x, l) /\ Follows(x, l)
    BY <1>1, <1>16, <2>1
  <2>3. x.conn[l].sock # fd /\ x.conn[l].sock \in DOMAIN x.ep.interest
    <3>1. \A a, b \in DOMAIN x.conn : x.conn[a].sock = x.conn[b].sock /\ x.conn[a].sock # NoSock => a = b
      BY <1>1 DEF Sockets
    <3>2. x.conn[k].sock = fd /\ fd # NoSock /\ k \in DOMAIN x.conn
      BY <1>t, <1>2
    <3>3. x.conn[l].sock # fd
      BY <1>16, <2>1, <3>1, <3>2
    <3>4. x.conn[l].sock \in Fds(x)
      BY <2>1 DEF Fds
    <3>5. Fds(x) \subseteq DOMAIN x.ep.interest
      BY <1>1 DEF Polled
    <3> QED
      BY <3>3, <3>4, <3>5
  <2>4. Held(y, l)
    <3>1. Filed(x, l) /\ x.ep.interest[x.conn[l].sock] = Wants(x.conn[l])
      BY <2>2 DEF Held
    <3>2. Filed(y, l)
      BY <1>4, <2>1, <3>1 DEF Filed
    <3>3. e.interest[x.conn[l].sock] = x.ep.interest[x.conn[l].sock]
      <4>1. SameInterest(e, x.ep, fd)
        BY <1>t
      <4> QED
        BY <2>3, <4>1 DEF SameInterest
    <3> QED
      BY <1>4, <2>1, <3>1, <3>2, <3>3 DEF Held
  <2>5. \A d \in Client : y.cl[d].sock = y.conn[l].sock => d # c
    BY <1>d, <1>o, <2>1, <2>3
  <2>6. Follows(y, l)
    BY <1>7, <2>1, <2>2, <2>5 DEF Follows
  <2> QED
    BY <2>4, <2>6
<1>17. ASSUME Filed(x, k), InStream(r, c, u), e.interest[fd] = Wants(r)
       PROVE  Held(y, k) /\ Follows(y, k)
  <2>0. y.conn[k] = r /\ r.sock = fd /\ r.id = x.conn[k].id /\ fd = x.conn[k].sock
    BY <1>t, <1>6
  <2>1. Held(y, k)
    <3>1. Filed(y, k)
      BY <1>4, <1>17, <2>0 DEF Filed
    <3>2. y.ep.interest[y.conn[k].sock] = Wants(y.conn[k])
      BY <1>4, <1>17, <2>0
    <3> QED
      BY <3>1, <3>2 DEF Held
  <2>2. \A d \in Client : y.cl[d].sock = fd => d = c
    BY <1>d, <1>o
  <2>3. Follows(y, k)
    <3>1. InStream(y.conn[k], c, y.cl[c])
      BY <1>7, <1>17, <2>0
    <3> QED
      BY <2>0, <2>2, <3>1 DEF Follows
  <2> QED
    BY <2>1, <2>3
<1>18. Owner(y, fd) = c
  <2>1. \E d \in Client : y.cl[d].sock = fd
    BY <1>d, <1>o
  <2>2. Owner(y, fd) \in Client /\ y.cl[Owner(y, fd)].sock = fd
    BY <2>1 DEF Owner
  <2> QED
    BY <1>d, <1>o, <2>2
<1>19. Inv(y, p, {k})
  BY <1>9, <1>10, <1>11, <1>13, <1>14, <1>15, <1>16 DEF Inv
<1>20. Filed(x, k) /\ InStream(r, c, u) /\ e.interest[fd] = Wants(r) => Inv(y, p, {})
  BY <1>9, <1>10, <1>11, <1>13, <1>14, <1>15, <1>16, <1>17 DEF Inv
<1> QED
  BY <1>t, <1>4, <1>6, <1>7, <1>9, <1>18, <1>19, <1>20 DEF Touches

\* The event set of a polled descriptor changes, or nothing does.
LEMMA Repolled ==
  ASSUME NEW x, Shape(x), NEW fd, fd \in DOMAIN x.ep.interest, NEW ev \in {"read", "write"},
         NEW e, e = P!EpollChangeEventSet(x.ep, fd, ev)
  PROVE  SameInterest(e, x.ep, fd) /\ e.interest[fd] = ev /\ SameInterest(x.ep, x.ep, fd)
<1>1. /\ x.ep = [interest |-> x.ep.interest, pending |-> x.ep.pending]
      /\ x.ep.interest \in [DOMAIN x.ep.interest -> {"read", "write"}]
  BY DEF Shape
<1> DEFINE g == [x.ep.interest EXCEPT ![fd] = ev]
<1>2. e = [x.ep EXCEPT !.interest = g]
  BY DEF P!EpollChangeEventSet
<1>3. /\ g \in [DOMAIN g -> {"read", "write"}] /\ DOMAIN g = DOMAIN x.ep.interest
      /\ g[fd] = ev /\ \A f \in DOMAIN g : f # fd => g[f] = x.ep.interest[f]
  BY <1>1
<1> HIDE DEF g
<1>4. e = [interest |-> g, pending |-> x.ep.pending]
  BY <1>1, <1>2
<1>5. e.interest = g /\ e.pending = x.ep.pending
  BY <1>4
<1> QED
  BY <1>1, <1>3, <1>4, <1>5 DEF SameInterest

\* A client whose window takes n units of an answer.
Served(u, n) ==
  [u EXCEPT !.room = @ - n, !.got = @ + n, !.gone = IF @ = "fin" /\ n > 0 THEN "rst" ELSE @]

Advanced(r, n) == [r EXCEPT !.tx = @ + n]

\* The record that send leaves behind.
LEMMA WriteFields ==
  ASSUME NEW x, Shape(x), NEW k, NEW c \in Client, NEW n
  PROVE  SendUnits(x, k, c, n) = Touched(x, k, Advanced(x.conn[k], n), c, Served(x.cl[c], n), x.ep)
<1> DEFINE g  == IF x.cl[c].gone = "fin" /\ n > 0 THEN "rst" ELSE x.cl[c].gone
           co == [x.conn EXCEPT ![k].tx = @ + n]
           y1 == [x EXCEPT !.conn = co]
           y2 == [y1 EXCEPT !.cl = [y1.cl EXCEPT ![c] = [y1.cl[c] EXCEPT !.room = x.cl[c].room - n]]]
           y3 == [y2 EXCEPT !.cl = [y2.cl EXCEPT ![c] = [y2.cl[c] EXCEPT !.got = x.cl[c].got + n]]]
           y4 == [y3 EXCEPT !.cl = [y3.cl EXCEPT ![c] = [y3.cl[c] EXCEPT !.gone = g]]]
           t == x.table
           m == x.new
           f == x.free
           e == x.ep
           l == x.listenOn
           b == x.backlog
<1>1. SUFFICES y4 = Touched(x, k, [x.conn[k] EXCEPT !.tx = @ + n], c, Served(x.cl[c], n), x.ep)
  BY DEF SendUnits, Advanced
<1>2. x = Rec(t, m, x.conn, f, e, l, x.cl, b) /\ x.cl \in [Client -> ClientRec]
  BY DEF Shape
<1>3. co = [x.conn EXCEPT ![k] = [x.conn[k] EXCEPT !.tx = @ + n]]
  OBVIOUS
<1> HIDE DEF co, t, m, f, e, l, b
<1>4. y1 = Rec(t, m, co, f, e, l, x.cl, b)
  BY <1>2 DEF Rec
<1> HIDE DEF y1
<1> DEFINE u1 == [x.cl[c] EXCEPT !.room = x.cl[c].room - n]
           c1 == [x.cl EXCEPT ![c] = u1]
           u2 == [u1 EXCEPT !.got = x.cl[c].got + n]
           c2 == [c1 EXCEPT ![c] = u2]
           u3 == [u2 EXCEPT !.gone = g]
           c3 == [c2 EXCEPT ![c] = u3]
<1>5. y2 = [y1 EXCEPT !.cl = c1]
  BY <1>4, RecFields
<1> HIDE DEF y2, c1
<1>6. y2 = Rec(t, m, co, f, e, l, c1, b)
  BY <1>4, <1>5 DEF Rec
<1>7. y3 = [y2 EXCEPT !.cl = c2]
  <2>1. y2.cl = c1 /\ c1[c] = u1
    BY <1>2, <1>6, RecFields DEF c1
  <2> QED
    BY <2>1
<1> HIDE DEF y3, c2
<1>8. y3 = Rec(t, m, co, f, e, l, c2, b)
  BY <1>6, <1>7 DEF Rec
<1>9. y4 = [y3 EXCEPT !.cl = c3]
  <2>1. y3.cl = c2 /\ c2[c] = u2
    BY <1>2, <1>8, RecFields DEF c1, c2
  <2> QED
    BY <2>1
<1> HIDE DEF y4, c3
<1>10. y4 = Rec(t, m, co, f, e, l, c3, b)
  BY <1>8, <1>9 DEF Rec
<1>11. c3 = [x.cl EXCEPT ![c] = u3]
  <2> HIDE DEF u1, u2, u3
  <2> QED
    BY <1>2 DEF c1, c2, c3
<1>12. u3 = Served(x.cl[c], n)
  BY DEF Served
<1> HIDE DEF u3
<1> QED
  BY <1>3, <1>10, <1>11, <1>12 DEF Touched, t, m, f, e, l, b

Emptied(r) == [r EXCEPT !.reader = <<>>, !.state = "Receiving", !.tx = 0]

\* The record that a finished answer leaves behind.
LEMMA ResetFields ==
  ASSUME NEW x, Shape(x), NEW k \in DOMAIN x.conn, NEW c \in Client, NEW fd
  PROVE  AnswerOut(x, k, fd) = Touched(x, k, Emptied(x.conn[k]), c, x.cl[c],
                                      P!EpollChangeEventSet(x.ep, fd, "read"))
<1> DEFINE t == x.table
           m == x.new
           f == x.free
           l == x.listenOn
           b == x.backlog
           w == P!EpollChangeEventSet(x.ep, fd, "read")
           r1 == [x.conn[k] EXCEPT !.reader = <<>>]
           r2 == [r1 EXCEPT !.state = "Receiving"]
           r3 == [r2 EXCEPT !.tx = 0]
           c1 == [x.conn EXCEPT ![k] = r1]
           c2 == [c1 EXCEPT ![k] = r2]
           c3 == [c2 EXCEPT ![k] = r3]
           y1 == [x EXCEPT !.conn[k].reader = <<>>]
           y2 == [y1 EXCEPT !.conn[k].state = "Receiving"]
           y3 == [y2 EXCEPT !.conn[k].tx = 0]
           y4 == [y3 EXCEPT !.ep = P!EpollChangeEventSet(@, fd, "read")]
<1>1. SUFFICES y4 = Touched(x, k, r3, c, x.cl[c], w)
  BY DEF ResetConnection, AnswerOut, Emptied
<1>2. /\ x = Rec(t, m, x.conn, f, x.ep, l, x.cl, b) /\ x.cl \in [Client -> ClientRec]
      /\ x.conn \in Seq(ConnRec)
  BY DEF Shape
<1> HIDE DEF t, m, f, l, b, w
<1>3. y1 = [x EXCEPT !.conn = c1]
  OBVIOUS
<1> HIDE DEF y1, c1
<1>4. y1 = Rec(t, m, c1, f, x.ep, l, x.cl, b)
  BY <1>2, <1>3 DEF Rec
<1>5. y2 = [y1 EXCEPT !.conn = c2]
  <2>1. y1.conn = c1 /\ c1[k] = r1
    BY <1>2, <1>4, RecFields DEF c1
  <2> QED
    BY <2>1
<1> HIDE DEF y2, c2
<1>6. y2 = Rec(t, m, c2, f, x.ep, l, x.cl, b)
  BY <1>4, <1>5 DEF Rec
<1>7. y3 = [y2 EXCEPT !.conn = c3]
  <2>1. y2.conn = c2 /\ c2[k] = r2
    BY <1>2, <1>6, RecFields DEF c1, c2
  <2> QED
    BY <2>1
<1> HIDE DEF y3, c3
<1>8. y3 = Rec(t, m, c3, f, x.ep, l, x.cl, b)
  BY <1>6, <1>7 DEF Rec
<1>9. y4 = [y3 EXCEPT !.ep = w]
  <2>1. y3.ep = x.ep
    BY <1>8, RecFields
  <2> QED
    BY <2>1 DEF w
<1> HIDE DEF y4
<1>10. y4 = Rec(t, m, c3, f, w, l, x.cl, b)
  BY <1>8, <1>9 DEF Rec
<1>11. c3 = [x.conn EXCEPT ![k] = r3]
  <2> HIDE DEF r1, r2, r3
  <2> QED
    BY <1>2 DEF c1, c2, c3
<1>12. x.cl = [x.cl EXCEPT ![c] = x.cl[c]]
  BY <1>2
<1> HIDE DEF r3
<1> QED
  BY <1>10, <1>11, <1>12 DEF Touched, t, m, f, l, b

Filled(r, q) == [r EXCEPT !.reader = @ \o q]

Taken(u, n) == [u EXCEPT !.rcvd = @ + n]

Units(c, m, n) == [i \in 1 .. n |-> <<c, m + i>>]

\* The record that recv leaves behind.
LEMMA ReceiveFields ==
  ASSUME NEW x, Shape(x), NEW k, NEW c, NEW n, NEW q, q = Units(c, x.cl[c].rcvd, n)
  PROVE  RecvUnits(x, k, c, n) = Touched(x, k, Filled(x.conn[k], q), c, Taken(x.cl[c], n), x.ep)
<1> DEFINE t == x.table
           m == x.new
           f == x.free
           l == x.listenOn
           b == x.backlog
           e == x.ep
           co == [x.conn EXCEPT ![k].reader = @ \o q]
           cl == [x.cl EXCEPT ![c].rcvd = @ + n]
           y1 == [x EXCEPT !.cl = cl]
           y2 == [y1 EXCEPT !.conn = [y1.conn EXCEPT ![k] = [y1.conn[k] EXCEPT !.reader = x.conn[k].reader \o q]]]
<1>1. SUFFICES y2 = Touched(x, k, [x.conn[k] EXCEPT !.reader = @ \o q], c, [x.cl[c] EXCEPT !.rcvd = @ + n], x.ep)
  BY DEF RecvUnits, Filled, Taken, Units
<1>2. x = Rec(t, m, x.conn, f, e, l, x.cl, b)
  BY DEF Shape
<1>3. /\ co = [x.conn EXCEPT ![k] = [x.conn[k] EXCEPT !.reader = @ \o q]]
      /\ cl = [x.cl EXCEPT ![c] = [x.cl[c] EXCEPT !.rcvd = @ + n]]
  OBVIOUS
<1> HIDE DEF t, m, f, l, b, e, cl
<1>4. y1 = Rec(t, m, x.conn, f, e, l, cl, b)
  BY <1>2 DEF Rec
<1> HIDE DEF y1
<1>5. y2 = [y1 EXCEPT !.conn = co]
  <2>1. y1.conn = x.conn
    BY <1>4, RecFields
  <2> QED
    BY <2>1
<1> HIDE DEF y2, co
<1>6. y2 = Rec(t, m, co, f, e, l, cl, b)
  BY <1>4, <1>5 DEF Rec
<1> QED
  BY <1>3, <1>6 DEF Touched, t, m, f, l, b, e

Turned(r) == [r EXCEPT !.state = "Transmitting"]

\* The record that the change to sending leaves behind.
LEMMA TransmitFields ==
  ASSUME NEW x, Shape(x), NEW k, NEW c \in Client, NEW fd
  PROVE  StartAnswer(x, k, fd) = Touched(x, k, Turned(x.conn[k]), c, x.cl[c],
                                    P!EpollChangeEventSet(x.ep, fd, "write"))
<1> DEFINE t == x.table
           m == x.new
           f == x.free
           l == x.listenOn
           b == x.backlog
           w == P!EpollChangeEventSet(x.ep, fd, "write")
           r == [x.conn[k] EXCEPT !.state = "Transmitting"]
           co == [x.conn EXCEPT ![k] = r]
           y1 == [x EXCEPT !.conn = co]
           y2 == [y1 EXCEPT !.ep = w]
<1>1. SUFFICES y2 = Touched(x, k, r, c, x.cl[c], w)
  BY DEF StartAnswer, Turned
<1>2. x = Rec(t, m, x.conn, f, x.ep, l, x.cl, b) /\ x.cl \in [Client -> ClientRec]
  BY DEF Shape
<1> HIDE DEF t, m, f, l, b, w, co
<1>3. y1 = Rec(t, m, co, f, x.ep, l, x.cl, b)
  BY <1>2 DEF Rec
<1> HIDE DEF y1
<1>4. y2 = Rec(t, m, co, f, w, l, x.cl, b)
  BY <1>3 DEF Rec
<1>5. x.cl = [x.cl EXCEPT ![c] = x.cl[c]]
  BY <1>2
<1> QED
  BY <1>4, <1>5 DEF Touched, t, m, f, l, b, co

-----------------------------------------------------------------------------
(* Sending and receiving. *)

\* No key comes or goes, or that of the connection at fd goes.
Kept(x, y) == y.new = x.new /\ \A i \in 1 .. 2 : HP!Keys(y.table[i]) = HP!Keys(x.table[i])

Lost(x, y, fd) == y.new = x.new /\ \A i \in 1 .. 2 : HP!Keys(y.table[i]) = HP!Keys(x.table[i]) \ {fd}

Serves(u, tx, n, v) ==
  /\ n \in Nat /\ tx + n \in 0 .. RespUnits /\ v \in ClientRec
  /\ v.st = u.st /\ v.sock = u.sock /\ v.got = u.got + n /\ v.rcvd = u.rcvd /\ v.sent = u.sent

\* What a client may take of an answer.
LEMMA ServedRec ==
  ASSUME NEW u \in ClientRec, NEW tx \in 0 .. RespUnits, NEW n, n = Lower(u.room, RespUnits - tx)
  PROVE  Serves(u, tx, n, Served(u, n))
<1>1. u.room \in 0 .. Window /\ Window \in Nat /\ u.got \in Nat
  BY TcpAssumption DEF ClientRec
<1>2. n \in Nat /\ n <= u.room /\ tx + n \in 0 .. RespUnits
  BY <1>1 DEF Lower, RespUnits
<1>3. u.room - n \in 0 .. Window /\ u.got + n \in Nat
  BY <1>1, <1>2
<1> QED
  BY <1>2, <1>3 DEF Served, Serves, ClientRec

\* The answer of a connection is out: it is where its stream is, or has sent more.
LEMMA AnswerUnits ==
  ASSUME NEW rcvd \in Nat, rcvd % MsgUnits = 0, NEW tx \in 0 .. RespUnits, NEW n \in Nat,
         NEW got \in Nat, got = ((rcvd \div MsgUnits) - 1) * RespUnits + tx
  PROVE  /\ got + n = ((rcvd \div MsgUnits) - 1) * RespUnits + (tx + n)
         /\ tx + n = RespUnits => got + n = (rcvd \div MsgUnits) * RespUnits
<1> DEFINE m == rcvd \div MsgUnits
<1>1. m \in Int
  BY DEF MsgUnits
<1> HIDE DEF m
<1>2. got = (m - 1) * RespUnits + tx
  BY DEF m
<1>3. got + n = (m - 1) * RespUnits + (tx + n)
  BY <1>1, <1>2 DEF RespUnits
<1>4. tx + n = RespUnits => got + n = m * RespUnits
  BY <1>1, <1>2 DEF RespUnits
<1> QED
  BY <1>3, <1>4 DEF m

LEMMA EmptiedRec ==
  ASSUME NEW r \in ConnRec
  PROVE  /\ Emptied(r) \in ConnRec /\ Emptied(r).sock = r.sock /\ Emptied(r).id = r.id
         /\ Emptied(r).state = "Receiving" /\ Emptied(r).tx = 0 /\ Emptied(r).reader = <<>>
<1>1. <<>> \in Seq(Client \X Nat) /\ 0 \in 0 .. RespUnits
  BY DEF RespUnits
<1> QED
  BY <1>1 DEF Emptied, ConnRec

\* What WriteBytesForConnection does to a connection that is sending.
LEMMA WriteStep ==
  ASSUME NEW x, NEW p, p \cap ClientFd = {}, Inv(x, p, {}), NEW k \in Live(x),
         x.conn[k].state = "Transmitting", NEW fd, fd = x.conn[k].sock,
         NEW y, y = WriteBytesForConnection(x, k)
  PROVE  Inv(y, p, {}) /\ (Kept(x, y) \/ Lost(x, y, fd))
<1> DEFINE c == Owner(x, fd)
           n == Lower(x.cl[c].room, RespUnits - x.conn[k].tx)
           r == Advanced(x.conn[k], n)
           u == Served(x.cl[c], n)
           z == SendUnits(x, k, c, n)
<1>1. Inv(x, p, {k}) /\ Shape(x) /\ Sockets(x) /\ Polled(x, p) /\ Held(x, k) /\ Follows(x, k)
  BY SMTT(30) DEF Inv
<1>2. y = IF x.cl[c].gone = "rst" THEN CloseConnection(x, k)
          ELSE IF z.conn[k].tx < RespUnits THEN z ELSE AnswerOut(z, k, fd)
  BY DEF WriteBytesForConnection
<1>3. c = Owner(x, fd) /\ n = Lower(x.cl[c].room, RespUnits - x.conn[k].tx)
  OBVIOUS
<1> HIDE DEF c, n
<1>4. /\ k \in DOMAIN x.conn /\ x.conn[k] \in ConnRec /\ fd \in ClientFd
      /\ c \in Client /\ x.cl[c].sock = fd /\ x.cl[c] \in ClientRec
      /\ x.cl[c].rcvd <= x.cl[c].sent
  <2>1. /\ k \in DOMAIN x.conn /\ x.conn[k] \in ConnRec /\ fd \in ClientFd
        /\ c \in Client /\ x.cl[c].sock = fd
    BY <1>1, <1>3, OwnerOf
  <2> QED
    BY <2>1 DEF Inv, Shape, Queued
<1>5. InStream(x.conn[k], c, x.cl[c]) /\ Filed(x, k) /\ x.ep.interest[fd] = "write"
  BY <1>1, <1>4 DEF Follows, Held, Wants
<1>6. x.conn[k].tx \in 0 .. RespUnits /\ x.cl[c].got \in Nat /\ x.cl[c].rcvd \in Nat
  BY <1>4 DEF ConnRec, ClientRec
<1>7. /\ n \in Nat /\ x.conn[k].tx + n \in 0 .. RespUnits /\ u \in ClientRec
      /\ u.st = x.cl[c].st /\ u.sock = x.cl[c].sock /\ u.got = x.cl[c].got + n
      /\ u.rcvd = x.cl[c].rcvd /\ u.sent = x.cl[c].sent
  <2> DEFINE v == x.cl[c]
             tx == x.conn[k].tx
  <2>1. v \in ClientRec /\ tx \in 0 .. RespUnits /\ n = Lower(v.room, RespUnits - tx)
    BY <1>3, <1>4, <1>6
  <2> HIDE DEF v, tx
  <2>2. Serves(v, tx, n, Served(v, n))
    BY <2>1, ServedRec
  <2> QED
    BY <2>2 DEF v, tx, Serves
<1>8. z = Touched(x, k, r, c, u, x.ep)
  BY <1>1, <1>4, WriteFields
<1> HIDE DEF u, z
<1>9. /\ r \in ConnRec /\ r.sock = fd /\ r.id = x.conn[k].id /\ r.state = "Transmitting"
      /\ r.tx = x.conn[k].tx + n
  BY <1>4, <1>7 DEF ConnRec, Advanced
<1> HIDE DEF r
<1>10. fd \in DOMAIN x.ep.interest
  BY <1>1 DEF Polled, Fds
<1>11. SameInterest(x.ep, x.ep, fd)
  BY <1>1, <1>10, Repolled
<1>12. /\ Inv(z, p, {k}) /\ k \in Live(z) /\ z.new = x.new /\ z.table = x.table
       /\ z.conn[k] = r /\ z.cl[c] = u /\ z.ep = x.ep /\ Owner(z, fd) = c
       /\ InStream(r, c, u) /\ x.ep.interest[fd] = Wants(r) => Inv(z, p, {})
  <2>1. Touchable(x, p, k, fd, r, c, u, x.ep)
    BY <1>1, <1>3, <1>4, <1>7, <1>9, <1>11 DEF Touchable
  <2>2. Touches(x, p, k, fd, r, c, u, x.ep, z)
    BY <1>8, <2>1, TouchStep
  <2> QED
    BY <1>5, <2>2 DEF Touches
<1>13. /\ x.cl[c].rcvd % MsgUnits = 0
       /\ x.cl[c].got = ((x.cl[c].rcvd \div MsgUnits) - 1) * RespUnits + x.conn[k].tx
  BY <1>5 DEF InStream
<1>14. /\ u.got = ((u.rcvd \div MsgUnits) - 1) * RespUnits + r.tx
       /\ r.tx = RespUnits => u.got = (u.rcvd \div MsgUnits) * RespUnits
  BY <1>6, <1>7, <1>9, <1>13, AnswerUnits
<1>15. CASE x.cl[c].gone = "rst"
  <2>1. y = CloseConnection(x, k)
    BY <1>2, <1>15
  <2>2. Closable(x, p, k, fd, y)
    BY <1>1, <2>1 DEF Closable
  <2>3. IsClosed(x, p, k, fd, y)
    BY <2>2, CloseStep
  <2> QED
    BY <1>1, <2>3 DEF Lost, IsClosed
<1>16. CASE x.cl[c].gone # "rst" /\ r.tx < RespUnits
  <2>1. y = z
    BY <1>2, <1>12, <1>16
  <2>2. InStream(r, c, u)
    BY <1>7, <1>9, <1>13, <1>14, <1>16 DEF InStream
  <2>3. x.ep.interest[fd] = Wants(r)
    BY <1>5, <1>9 DEF Wants
  <2> QED
    BY <1>12, <2>1, <2>2, <2>3 DEF Kept
<1>17. CASE x.cl[c].gone # "rst" /\ ~(r.tx < RespUnits)
  <2> DEFINE q == Emptied(r)
             e == P!EpollChangeEventSet(z.ep, fd, "read")
  <2>1. Shape(z) /\ k \in DOMAIN z.conn
    BY <1>12 DEF Inv, Live
  <2>2. y = Touched(z, k, q, c, u, e)
    <3>1. y = AnswerOut(z, k, fd)
      BY <1>2, <1>12, <1>17
    <3> QED
      BY <1>4, <1>12, <2>1, <3>1, ResetFields
  <2>3. /\ q \in ConnRec /\ q.sock = fd /\ q.id = z.conn[k].id /\ q.state = "Receiving"
        /\ q.tx = 0 /\ q.reader = <<>>
    BY <1>9, <1>12, EmptiedRec
  <2> HIDE DEF q, e
  <2>4. SameInterest(e, z.ep, fd) /\ e.interest[fd] = "read"
    <3>1. fd \in DOMAIN z.ep.interest /\ e = P!EpollChangeEventSet(z.ep, fd, "read")
      BY <1>10, <1>12 DEF e
    <3> QED
      BY <2>1, <3>1, Repolled
  <2>5. InStream(q, c, u)
    <3>1. r.tx = RespUnits
      BY <1>7, <1>9, <1>17 DEF RespUnits
    <3>2. q.reader = [i \in 1 .. (u.rcvd % MsgUnits) |-> <<c, (u.rcvd \div MsgUnits) * MsgUnits + i>>]
      BY <1>7, <1>13, <2>3
    <3> QED
      BY <1>14, <2>3, <3>1, <3>2 DEF InStream
  <2>6. Filed(z, k) /\ Wants(q) = "read"
    <3>1. Filed(z, k)
      BY <1>5, <1>9, <1>12 DEF Filed
    <3> QED
      BY <2>3, <3>1 DEF Wants
  <2>7. Touchable(z, p, k, fd, q, c, u, e)
    BY <1>4, <1>7, <1>9, <1>12, <2>3, <2>4 DEF Touchable
  <2>8. Touches(z, p, k, fd, q, c, u, e, y)
    BY <2>2, <2>7, TouchStep
  <2>9. Inv(y, p, {}) /\ y.new = z.new /\ y.table = z.table
    BY <2>4, <2>5, <2>6, <2>8 DEF Touches
  <2> QED
    BY <1>12, <2>9 DEF Kept
<1> QED
  BY <1>15, <1>16, <1>17

\* Where in its stream a connection is after n more units.
LEMMA StreamUnits ==
  ASSUME NEW m \in Nat, NEW n \in Nat, (m % MsgUnits) + n <= MsgUnits
  PROVE  /\ m % MsgUnits \in 0 .. 1 /\ m \div MsgUnits \in Nat
         /\ m = (m \div MsgUnits) * MsgUnits + (m % MsgUnits)
         /\ (m % MsgUnits) + n = MsgUnits =>
              (m + n) % MsgUnits = 0 /\ (m + n) \div MsgUnits = (m \div MsgUnits) + 1
         /\ (m % MsgUnits) + n # MsgUnits =>
              (m + n) % MsgUnits = (m % MsgUnits) + n /\ (m + n) \div MsgUnits = m \div MsgUnits
<1> USE DEF MsgUnits
<1> DEFINE a == m % 2
           b == m \div 2
<1>1. a \in 0 .. 1 /\ b \in Nat /\ m = b * 2 + a
  OBVIOUS
<1>2. (m + n) % 2 \in 0 .. 1 /\ (m + n) \div 2 \in Nat /\ m + n = ((m + n) \div 2) * 2 + ((m + n) % 2)
  OBVIOUS
<1> DEFINE d == (m + n) % 2
           e == (m + n) \div 2
<1>3. d \in 0 .. 1 /\ e \in Nat /\ m + n = e * 2 + d /\ a + n <= 2
  BY <1>2
<1> HIDE DEF a, b, d, e
<1>4. a + n = 2 => d = 0 /\ e = b + 1
  BY <1>1, <1>3
<1>5. a + n # 2 => d = a + n /\ e = b
  BY <1>1, <1>3
<1> QED
  BY <1>1, <1>4, <1>5 DEF a, b, d, e

\* The units that recv returned are a list of units.
LEMMA UnitsSeq ==
  ASSUME NEW c \in Client, NEW m \in Nat, NEW n \in Nat
  PROVE  Units(c, m, n) \in Seq(Client \X Nat) /\ Len(Units(c, m, n)) = n
<1>1. \A i \in 1 .. n : <<c, m + i>> \in Client \X Nat
  OBVIOUS
<1>2. Units(c, m, n) \in [1 .. n -> Client \X Nat] /\ DOMAIN Units(c, m, n) = 1 .. n
  BY <1>1 DEF Units
<1> QED
  BY <1>2

\* Nothing, and a list after it.
LEMMA EmptyFirst ==
  ASSUME NEW A, NEW q \in Seq(A)
  PROVE  <<>> \o q = q
OBVIOUS

\* A message that is not whole is read on where it was left.
LEMMA ReadOn ==
  ASSUME NEW c \in Client, NEW m \in Nat, NEW n \in Nat, (m % MsgUnits) + n < MsgUnits
  PROVE  Units(c, (m \div MsgUnits) * MsgUnits, m % MsgUnits) \o Units(c, m, n)
           = Units(c, ((m + n) \div MsgUnits) * MsgUnits, (m + n) % MsgUnits)
<1> DEFINE a == m % MsgUnits
           b == m \div MsgUnits
           d == (m + n) % MsgUnits
           e == (m + n) \div MsgUnits
<1>1. a \in 0 .. 1 /\ b \in Nat /\ m = b * MsgUnits + a /\ d = a + n /\ e = b
  <2>1. (m % MsgUnits) + n <= MsgUnits /\ (m % MsgUnits) + n # MsgUnits
    BY DEF MsgUnits
  <2> QED
    BY <2>1, StreamUnits
<1>2. a + n < MsgUnits
  OBVIOUS
<1> HIDE DEF a, b, d, e
<1>3. SUFFICES Units(c, b * MsgUnits, a) \o Units(c, m, n) = Units(c, e * MsgUnits, d)
  BY DEF a, b, d, e
<1>4. /\ Units(c, b * MsgUnits, a) \in Seq(Client \X Nat) /\ Units(c, m, n) \in Seq(Client \X Nat)
      /\ Len(Units(c, m, n)) = n
  <2>1. b * MsgUnits \in Nat /\ a \in Nat
    BY <1>1 DEF MsgUnits
  <2> QED
    BY <2>1, UnitsSeq
<1>5. CASE n = 0
  <2>1. Units(c, m, n) = <<>>
    BY <1>4, <1>5
  <2>2. d = a
    BY <1>1, <1>5
  <2> QED
    BY <1>1, <1>4, <2>1, <2>2
<1>6. CASE n # 0
  <2>1. n = 1 /\ a = 0 /\ d = 1 /\ m = b * MsgUnits
    BY <1>1, <1>2, <1>6 DEF MsgUnits
  <2>2. Units(c, b * MsgUnits, a) = <<>>
    BY <2>1 DEF Units
  <2>3. Units(c, m, n) = Units(c, e * MsgUnits, d)
    BY <1>1, <2>1
  <2> QED
    BY <1>4, <2>2, <2>3, EmptyFirst
<1> QED
  BY <1>5, <1>6

\* What recv adds to an object and takes from a client.
LEMMA FilledRec ==
  ASSUME NEW r \in ConnRec, NEW q \in Seq(Client \X Nat)
  PROVE  /\ Filled(r, q) \in ConnRec /\ Filled(r, q).sock = r.sock /\ Filled(r, q).id = r.id
         /\ Filled(r, q).state = r.state /\ Filled(r, q).tx = r.tx
         /\ Filled(r, q).reader = r.reader \o q /\ Len(Filled(r, q).reader) = Len(r.reader) + Len(q)
<1>1. r.reader \in Seq(Client \X Nat)
  BY DEF ConnRec
<1>2. r.reader \o q \in Seq(Client \X Nat) /\ Len(r.reader \o q) = Len(r.reader) + Len(q)
  BY <1>1, Joined
<1>3. /\ Filled(r, q) \in ConnRec /\ Filled(r, q).sock = r.sock /\ Filled(r, q).id = r.id
      /\ Filled(r, q).state = r.state /\ Filled(r, q).tx = r.tx
      /\ Filled(r, q).reader = r.reader \o q
  BY <1>2 DEF Filled, ConnRec
<1> QED
  BY <1>2, <1>3

LEMMA TakenRec ==
  ASSUME NEW u \in ClientRec, NEW n \in Nat
  PROVE  /\ Taken(u, n) \in ClientRec /\ Taken(u, n).st = u.st /\ Taken(u, n).sock = u.sock
         /\ Taken(u, n).rcvd = u.rcvd + n /\ Taken(u, n).sent = u.sent /\ Taken(u, n).got = u.got
<1>1. u.rcvd \in Nat /\ u.rcvd + n \in Nat
  BY DEF ClientRec
<1> QED
  BY <1>1 DEF Taken, ClientRec

LEMMA TurnedRec ==
  ASSUME NEW r \in ConnRec
  PROVE  /\ Turned(r) \in ConnRec /\ Turned(r).sock = r.sock /\ Turned(r).id = r.id
         /\ Turned(r).state = "Transmitting" /\ Turned(r).tx = r.tx
<1>1. r = [sock |-> r.sock, state |-> r.state, reader |-> r.reader, tx |-> r.tx, id |-> r.id]
  BY DEF ConnRec
<1>2. Turned(r) = [sock |-> r.sock, state |-> "Transmitting", reader |-> r.reader, tx |-> r.tx, id |-> r.id]
  BY <1>1 DEF Turned
<1>3. /\ r.sock \in Sock /\ r.reader \in Seq(Client \X Nat) /\ r.tx \in 0 .. RespUnits /\ r.id \in 0 .. 2
  BY DEF ConnRec
<1> QED
  BY <1>2, <1>3 DEF ConnRec

\* What recv may return.
LEMMA ReadCount ==
  ASSUME NEW u \in ClientRec, u.rcvd <= u.sent, NEW l \in 0 .. 1,
         NEW n, n = Lower(IF u.gone = "rst" THEN 0 ELSE u.sent - u.rcvd, MsgUnits - l)
  PROVE  n \in Nat /\ u.rcvd + n <= u.sent /\ l + n <= MsgUnits
<1>1. u.rcvd \in Nat /\ u.sent \in Nat
  BY DEF ClientRec
<1> DEFINE a == IF u.gone = "rst" THEN 0 ELSE u.sent - u.rcvd
<1>2. a \in Nat /\ u.rcvd + a <= u.sent
  BY <1>1
<1> HIDE DEF a
<1>3. n = Lower(a, MsgUnits - l)
  BY DEF a
<1> QED
  BY <1>1, <1>2, <1>3 DEF Lower, MsgUnits

\* What ReceiveBytesForConnection does to a connection that is receiving.
LEMMA ReceiveStep ==
  ASSUME NEW x, NEW p, p \cap ClientFd = {}, Inv(x, p, {}), NEW k \in Live(x),
         x.conn[k].state = "Receiving", NEW fd, fd = x.conn[k].sock,
         NEW pass, NEW y, y = ReceiveBytesForConnection(x, k, pass)
  PROVE  Inv(y, p, {}) /\ (Kept(x, y) \/ Lost(x, y, fd))
<1> DEFINE c == Owner(x, fd)
           v == x.cl[c]
           o == x.conn[k]
           n == Lower(IF v.gone = "rst" THEN 0 ELSE v.sent - v.rcvd, MsgUnits - Len(o.reader))
           q == Units(c, v.rcvd, n)
           r == Filled(o, q)
           u == Taken(v, n)
           z == RecvUnits(x, k, c, n)
           w == StartAnswer(z, k, fd)
           whole == Len(z.conn[k].reader) = MsgUnits
           dead == \/ n > 0 /\ Kind(z.conn[k].reader) = "bad"
                   \/ whole /\ (~pass \/ Kind(z.conn[k].reader) # "req")
                   \/ ~whole /\ v.gone # "no"
<1>1. Inv(x, p, {k}) /\ Shape(x) /\ Sockets(x) /\ Polled(x, p) /\ Held(x, k) /\ Follows(x, k)
  BY SMTT(30) DEF Inv
<1>2. y = IF dead THEN CloseConnection(z, k) ELSE IF whole THEN WriteBytesForConnection(w, k) ELSE z
  BY DEF ReceiveBytesForConnection, HowManyUnitsNeeded
<1> HIDE DEF dead
<1>3. c = Owner(x, fd)
  OBVIOUS
<1> HIDE DEF c
<1>4. /\ k \in DOMAIN x.conn /\ o \in ConnRec /\ fd \in ClientFd
      /\ c \in Client /\ v.sock = fd /\ v \in ClientRec /\ v.rcvd <= v.sent
  <2>1. /\ k \in DOMAIN x.conn /\ x.conn[k] \in ConnRec /\ fd \in ClientFd
        /\ c \in Client /\ x.cl[c].sock = fd
    BY <1>1, <1>3, OwnerOf
  <2> QED
    BY <2>1 DEF Inv, Shape, Queued
<1>5. InStream(o, c, v) /\ Filed(x, k) /\ x.ep.interest[fd] = "read"
  BY <1>1, <1>4 DEF Follows, Held, Wants
<1>6. z = Touched(x, k, r, c, u, x.ep)
  BY <1>1, ReceiveFields
<1>7. o.sock = fd /\ o.state = "Receiving" /\ o = x.conn[k] /\ v = x.cl[c]
  OBVIOUS
<1> HIDE DEF z, o, v
<1>8. v.rcvd \in Nat /\ v.sent \in Nat /\ v.got \in Nat
  BY <1>4 DEF ClientRec
<1> DEFINE a == v.rcvd % MsgUnits
           b == v.rcvd \div MsgUnits
<1>9. o.reader = Units(c, b * MsgUnits, a) /\ v.got = b * RespUnits /\ o.tx = 0
  BY <1>5, <1>7 DEF InStream, Units
<1>10. a \in 0 .. 1 /\ b \in Nat
  BY <1>8 DEF MsgUnits
<1>11. Len(o.reader) = a
  <2>1. b * MsgUnits \in Nat /\ a \in Nat
    BY <1>10 DEF MsgUnits
  <2> HIDE DEF a, b
  <2> QED
    BY <1>4, <1>9, <2>1, UnitsSeq
<1>12. n \in Nat /\ v.rcvd + n <= v.sent /\ a + n <= MsgUnits
  <2>1. n = Lower(IF v.gone = "rst" THEN 0 ELSE v.sent - v.rcvd, MsgUnits - a)
    BY <1>11
  <2> HIDE DEF n, a
  <2> QED
    BY <1>4, <1>10, <2>1, ReadCount
<1> HIDE DEF n
<1>13. /\ r \in ConnRec /\ r.sock = fd /\ r.id = o.id /\ r.state = "Receiving" /\ r.tx = 0
       /\ r.reader = o.reader \o q /\ Len(r.reader) = a + n
       /\ u \in ClientRec /\ u.st = v.st /\ u.sock = v.sock
       /\ u.rcvd = v.rcvd + n /\ u.sent = v.sent /\ u.got = v.got
  <2>1. q \in Seq(Client \X Nat) /\ Len(q) = n
    BY <1>4, <1>8, <1>12, UnitsSeq
  <2> HIDE DEF q, a, b
  <2>2. /\ Filled(o, q) \in ConnRec /\ Filled(o, q).sock = o.sock /\ Filled(o, q).id = o.id
        /\ Filled(o, q).state = o.state /\ Filled(o, q).tx = o.tx
        /\ Filled(o, q).reader = o.reader \o q /\ Len(Filled(o, q).reader) = Len(o.reader) + n
        /\ Taken(v, n) \in ClientRec /\ Taken(v, n).st = v.st /\ Taken(v, n).sock = v.sock
        /\ Taken(v, n).rcvd = v.rcvd + n /\ Taken(v, n).sent = v.sent /\ Taken(v, n).got = v.got
    BY <1>4, <1>12, <2>1, FilledRec, TakenRec, ZenonT(60)
  <2> QED
    BY <1>7, <1>9, <1>11, <2>2
<1>14. /\ a + n = MsgUnits => u.rcvd % MsgUnits = 0 /\ u.rcvd \div MsgUnits = b + 1
       /\ a + n # MsgUnits => u.rcvd % MsgUnits = a + n /\ u.rcvd \div MsgUnits = b
  BY <1>8, <1>12, <1>13, StreamUnits
<1>15. a + n # MsgUnits => r.reader = Units(c, (u.rcvd \div MsgUnits) * MsgUnits, u.rcvd % MsgUnits)
  <2> SUFFICES ASSUME a + n # MsgUnits
               PROVE  r.reader = Units(c, (u.rcvd \div MsgUnits) * MsgUnits, u.rcvd % MsgUnits)
    OBVIOUS
  <2>1. (v.rcvd % MsgUnits) + n < MsgUnits
    BY <1>10, <1>12 DEF MsgUnits
  <2>2. Units(c, b * MsgUnits, a) \o q
          = Units(c, ((v.rcvd + n) \div MsgUnits) * MsgUnits, (v.rcvd + n) % MsgUnits)
    BY <1>4, <1>8, <1>12, <2>1, ReadOn, ZenonT(60)
  <2> QED
    BY <1>9, <1>13, <2>2
<1> HIDE DEF r, u, a, b, q
<1>16. fd \in DOMAIN x.ep.interest
  BY <1>1 DEF Polled, Fds
<1>17. SameInterest(x.ep, x.ep, fd)
  BY <1>1, <1>16, Repolled
<1>18. /\ Inv(z, p, {k}) /\ k \in Live(z) /\ z.new = x.new /\ z.table = x.table
       /\ z.conn[k] = r /\ z.cl[c] = u /\ z.ep = x.ep /\ Owner(z, fd) = c
       /\ InStream(r, c, u) /\ x.ep.interest[fd] = Wants(r) => Inv(z, p, {})
  <2>1. Touchable(x, p, k, fd, r, c, u, x.ep)
    BY <1>1, <1>3, <1>4, <1>7, <1>12, <1>13, <1>17 DEF Touchable
  <2>2. Touches(x, p, k, fd, r, c, u, x.ep, z)
    BY <1>6, <2>1, TouchStep
  <2> QED
    BY <1>5, <2>2, SMTT(30) DEF Touches
<1>19. whole <=> a + n = MsgUnits
  BY <1>13, <1>18
<1> HIDE DEF whole
<1>20. CASE dead
  <2>1. y = CloseConnection(z, k) /\ fd = z.conn[k].sock
    BY <1>2, <1>13, <1>18, <1>20
  <2>2. Inv(y, p, {}) /\ y.new = z.new /\ \A i \in 1 .. 2 : HP!Keys(y.table[i]) = HP!Keys(z.table[i]) \ {fd}
    <3>1. Closable(z, p, k, fd, y)
      BY <1>18, <2>1 DEF Closable
    <3> QED
      BY <3>1, CloseStep DEF IsClosed
  <2> QED
    BY <1>18, <2>2 DEF Lost
<1>21. CASE ~dead /\ ~whole
  <2>1. y = z
    BY <1>2, <1>21
  <2>2. InStream(r, c, u)
    BY <1>9, <1>13, <1>14, <1>15, <1>19, <1>21 DEF InStream, Units
  <2>3. x.ep.interest[fd] = Wants(r)
    BY <1>5, <1>13 DEF Wants
  <2> QED
    BY <1>18, <2>1, <2>2, <2>3 DEF Kept
<1>22. CASE ~dead /\ whole
  <2> DEFINE g == Turned(r)
             e == P!EpollChangeEventSet(z.ep, fd, "write")
  <2>1. Shape(z) /\ k \in DOMAIN z.conn
    BY <1>18 DEF Inv, Live
  <2>2. w = Touched(z, k, g, c, u, e)
    BY <1>4, <1>18, <2>1, TransmitFields, ZenonT(60)
  <2>3. y = WriteBytesForConnection(w, k)
    BY <1>2, <1>22
  <2>4. g \in ConnRec /\ g.sock = fd /\ g.id = z.conn[k].id /\ g.state = "Transmitting" /\ g.tx = 0
    BY <1>13, <1>18, TurnedRec
  <2> HIDE DEF g, e, w
  <2>5. SameInterest(e, z.ep, fd) /\ e.interest[fd] = "write"
    <3>1. fd \in DOMAIN z.ep.interest /\ e = P!EpollChangeEventSet(z.ep, fd, "write")
      BY <1>16, <1>18 DEF e
    <3> QED
      BY <2>1, <3>1, Repolled
  <2>6. InStream(g, c, u)
    <3>1. u.rcvd % MsgUnits = 0 /\ u.rcvd \div MsgUnits = b + 1
      BY <1>14, <1>19, <1>22
    <3>2. b \in Nat /\ u.got = b * RespUnits
      BY <1>9, <1>10, <1>13 DEF b
    <3>3. u.got = ((b + 1) - 1) * RespUnits + g.tx
      BY <2>4, <3>2 DEF RespUnits
    <3>4. g.tx < RespUnits /\ g.state # "Receiving"
      BY <2>4 DEF RespUnits
    <3> QED
      BY <3>1, <3>3, <3>4 DEF InStream
  <2>7. Filed(z, k) /\ Wants(g) = "write"
    <3>1. Filed(z, k)
      BY <1>5, <1>7, <1>13, <1>18 DEF Filed
    <3> QED
      BY <2>4, <3>1 DEF Wants
  <2>8. Touchable(z, p, k, fd, g, c, u, e)
    BY <1>4, <1>12, <1>13, <1>18, <2>4, <2>5 DEF Touchable
  <2>9. Touches(z, p, k, fd, g, c, u, e, w)
    BY <2>2, <2>8, TouchStep
  <2>10. Inv(w, p, {}) /\ k \in Live(w) /\ w.conn[k] = g /\ w.new = z.new /\ w.table = z.table
    BY <2>5, <2>6, <2>7, <2>9 DEF Touches
  <2>11. Inv(y, p, {}) /\ (Kept(w, y) \/ Lost(w, y, fd))
    BY <2>3, <2>4, <2>10, WriteStep
  <2> QED
    BY <1>18, <2>10, <2>11 DEF Kept, Lost
<1> QED
  BY <1>20, <1>21, <1>22

\* The object that a table names is the live object with that descriptor.
LEMMA FoundObject ==
  ASSUME NEW x, NEW p, Inv(x, p, {}), NEW i \in 1 .. 2, NEW fd \in Nat, fd \in HP!Keys(x.table[i])
  PROVE  \E k \in Live(x) : x.conn[k].sock = fd /\ x.conn[k].id = i /\ HP!Lookup(x.table[i], fd) = k
<1>1. PICK k \in DOMAIN x.conn : x.conn[k].sock = fd /\ x.conn[k].id = i
  BY DEF Inv, Tables
<1>2. k \in Live(x)
  BY <1>1 DEF Live, NoSock
<1>3. Held(x, k)
  BY <1>2 DEF Inv
<1> QED
  BY <1>1, <1>2, <1>3 DEF Held, Filed

\* The tables, by name.
LEMMA NewOld ==
  ASSUME NEW x, Shape(x)
  PROVE  /\ x.new \in 1 .. 2 /\ 3 - x.new \in 1 .. 2 /\ x.new # 3 - x.new
         /\ \A i \in 1 .. 2 : i = x.new \/ i = 3 - x.new
<1>1. x.new \in 1 .. 2
  BY DEF Shape
<1> QED
  BY <1>1

\* What ProcessConnectionEvent does, for any event.
LEMMA ProcessStep ==
  ASSUME NEW x, NEW p, p \cap ClientFd = {}, Inv(x, p, {}), NEW fd \in Nat, NEW pass,
         NEW y, y = ProcessConnectionEvent(x, fd, pass)
  PROVE  Inv(y, p, {}) /\ (Kept(x, y) \/ (fd \in ClientFd /\ Lost(x, y, fd)))
<1> DEFINE h == IF H!Exists(New(x), fd) THEN New(x) ELSE Old(x)
           k == H!Lookup(h, fd)
<1>1. y = IF ~H!Exists(h, fd) THEN x
          ELSE IF x.conn[k].state = "Receiving" THEN ReceiveBytesForConnection(x, k, pass)
          ELSE WriteBytesForConnection(x, k)
  BY DEF ProcessConnectionEvent
<1>2. Shape(x) /\ Sockets(x) /\ \A i \in 1 .. 2 : HP!Well(x.table[i], Nat)
  BY DEF Inv, Tables
<1>3. \E i \in 1 .. 2 : h = x.table[i]
  BY <1>2, NewOld DEF New, Old
<1> HIDE DEF h
<1>4. CASE ~H!Exists(h, fd)
  BY <1>1, <1>4 DEF Kept
<1>5. CASE H!Exists(h, fd)
  <2>1. PICK i \in 1 .. 2 : h = x.table[i]
    BY <1>3
  <2>2. HP!Exists(h, fd) /\ k = HP!Lookup(h, fd)
    BY <1>5, SameTable
  <2>3. fd \in HP!Keys(h)
    BY <1>2, <2>1, <2>2, HP!ExistsKey
  <2>4. k \in Live(x) /\ x.conn[k].sock = fd
    BY <2>1, <2>2, <2>3, FoundObject
  <2> HIDE DEF k
  <2>5. fd \in ClientFd /\ x.conn[k].state \in {"Receiving", "Transmitting"}
    <3>1. fd \in ClientFd /\ x.conn[k] \in ConnRec
      BY <1>2, <2>4, OwnerOf
    <3> QED
      BY <3>1 DEF ConnRec
  <2>6. CASE x.conn[k].state = "Receiving"
    <3>1. y = ReceiveBytesForConnection(x, k, pass)
      BY <1>1, <1>5, <2>6
    <3> QED
      BY <2>4, <2>5, <2>6, <3>1, ReceiveStep
  <2>7. CASE x.conn[k].state = "Transmitting"
    <3>1. y = WriteBytesForConnection(x, k)
      BY <1>1, <1>5, <2>7
    <3> QED
      BY <2>4, <2>5, <2>7, <3>1, WriteStep
  <2> QED
    BY <2>5, <2>6, <2>7
<1> QED
  BY <1>4, <1>5

-----------------------------------------------------------------------------
(* Accepting a connection. *)

LEMMA TailOf ==
  ASSUME NEW A, NEW q \in Seq(A), q # <<>>
  PROVE  /\ Tail(q) \in Seq(A) /\ Head(q) = q[1] /\ Head(q) \in A /\ 1 \in DOMAIN q
         /\ DOMAIN q = 1 .. Len(q) /\ Len(q) \in Nat /\ Len(q) >= 1
         /\ DOMAIN Tail(q) = 1 .. (Len(q) - 1)
         /\ \A i \in DOMAIN Tail(q) : i + 1 \in DOMAIN q /\ i + 1 # 1 /\ Tail(q)[i] = q[i + 1]
<1>1. Len(q) \in Nat /\ DOMAIN q = 1 .. Len(q) /\ Len(q) >= 1
  OBVIOUS
<1>2. Tail(q) \in Seq(A) /\ Len(Tail(q)) = Len(q) - 1
  OBVIOUS
<1>3. DOMAIN Tail(q) = 1 .. (Len(q) - 1)
  BY <1>1, <1>2
<1>4. \A i \in 1 .. (Len(q) - 1) : i + 1 \in 1 .. Len(q) /\ i + 1 # 1 /\ Tail(q)[i] = q[i + 1]
  BY <1>1
<1> QED
  BY <1>1, <1>2, <1>3, <1>4

\* x with object k open for the client at the head of a backlog.
Opened(x, role, c, u, k, r, t, e) ==
  Rec(t, x.new, [x.conn EXCEPT ![k] = r], Tail(x.free), e, x.listenOn, [x.cl EXCEPT ![c] = u],
      [x.backlog EXCEPT ![role] = Tail(@)])

\* The interest list e has fd, too.
MoreInterest(e, ep, fd) ==
  /\ e = [interest |-> e.interest, pending |-> e.pending]
  /\ e.interest \in [DOMAIN e.interest -> {"read", "write"}]
  /\ DOMAIN e.interest = DOMAIN ep.interest \cup {fd} /\ e.interest[fd] = "read"
  /\ \A f \in DOMAIN ep.interest : f # fd => e.interest[f] = ep.interest[f]

\* The tables t have what those of x have, and perhaps k at fd.
MoreTables(t, x, fd, k, full) ==
  /\ t = [i \in 1 .. 2 |-> t[i]]
  /\ \A i \in 1 .. 2 :
       /\ HP!Well(t[i], Nat)
       /\ HP!Keys(t[i]) = IF i = x.new /\ ~full THEN HP!Keys(x.table[i]) \cup {fd} ELSE HP!Keys(x.table[i])
       /\ \A b \in HP!Keys(x.table[i]) : HP!Lookup(t[i], b) = HP!Lookup(x.table[i], b)
  /\ ~full => HP!Lookup(t[x.new], fd) = k

Openable(x, p, role, c, u, k, r, t, e, fd, full) ==
  /\ Inv(x, p, {}) /\ role \in Roles /\ x.backlog[role] # <<>> /\ c = Head(x.backlog[role])
  /\ x.free # <<>> /\ k = Head(x.free)
  /\ fd \in ClientFd /\ \A d \in Client : x.cl[d].sock # fd
  /\ r \in ConnRec /\ r.sock = fd /\ r.id = x.new /\ r.state = "Receiving" /\ r.reader = <<>> /\ r.tx = 0
  /\ u \in ClientRec /\ u.st = "open" /\ u.sock = fd /\ u.rcvd = x.cl[c].rcvd /\ u.got = x.cl[c].got
  /\ u.sent = x.cl[c].sent
  /\ MoreInterest(e, x.ep, fd) /\ MoreTables(t, x, fd, k, full) /\ full \in BOOLEAN

Opens(x, p, k, r, t, fd, full, y) ==
  /\ Inv(y, p, {k}) /\ (~full => Inv(y, p, {})) /\ k \in Live(y) /\ y.conn[k] = r
  /\ y.new = x.new /\ y.table = t /\ \A i \in 1 .. 2 : fd \notin HP!Keys(x.table[i])


LEMMA KeyNat ==
  ASSUME NEW h, HP!Well(h, Nat), NEW b \in HP!Keys(h)
  PROVE  b \in Nat
<1>1. PICK n \in HP!Nodes(h) : h.node[n].key = b
  BY HP!KeyNode
<1> QED
  BY <1>1, HP!LookupNode

\* A client that leaves its backlog, served or not.
Leaves(x, y, role, c, u) ==
  /\ role \in Roles /\ x.backlog[role] # <<>> /\ c = Head(x.backlog[role])
  /\ u \in ClientRec /\ u.rcvd <= u.sent /\ u.st \notin {"idle", "queued"}
  /\ y.cl = [x.cl EXCEPT ![c] = u]
  /\ y.backlog = [x.backlog EXCEPT ![role] = Tail(x.backlog[role])]

LEMMA Dequeued ==
  ASSUME NEW x, Shape(x), Queued(x), NEW y, NEW role, NEW c, NEW u, Leaves(x, y, role, c, u)
  PROVE  c \in Client /\ x.cl[c].st = "queued" /\ y.backlog \in [Roles -> Seq(Client)] /\ Queued(y)
<1> USE DEF Leaves
<1>1. x.backlog \in [Roles -> Seq(Client)] /\ x.cl \in [Client -> ClientRec]
  BY DEF Shape
<1> DEFINE bl == Tail(x.backlog[role])
<1>2. x.backlog[role] \in Seq(Client)
  BY <1>1
<1>3. /\ bl \in Seq(Client) /\ c = x.backlog[role][1] /\ c \in Client /\ 1 \in DOMAIN x.backlog[role]
      /\ \A i \in DOMAIN bl : i + 1 \in DOMAIN x.backlog[role] /\ i + 1 # 1
                              /\ bl[i] = x.backlog[role][i + 1]
  BY <1>2, TailOf
<1>4. \A i \in DOMAIN bl : i \in Nat
  BY <1>3
<1>5. y.backlog = [x.backlog EXCEPT ![role] = bl]
  OBVIOUS
<1> HIDE DEF bl
<1>6. /\ y.backlog \in [Roles -> Seq(Client)] /\ y.backlog[role] = bl
      /\ \A q \in Roles : q # role => y.backlog[q] = x.backlog[q]
  BY <1>1, <1>3, <1>5
<1>7. y.cl[c] = u /\ \A d \in Client : d # c => y.cl[d] = x.cl[d]
  BY <1>1, <1>3
<1>8. Queued(y)
  <2>1. \A q \in Roles : \A i \in DOMAIN x.backlog[q] : x.backlog[q][i] \in Client
    <3> TAKE q \in Roles
    <3>1. x.backlog[q] \in Seq(Client)
      BY <1>1
    <3> QED
      BY <3>1
  <2> DEFINE At(q, i) == IF q = role THEN i + 1 ELSE i
  <2>2. ASSUME NEW q \in Roles, NEW i \in DOMAIN y.backlog[q]
        PROVE  /\ At(q, i) \in DOMAIN x.backlog[q] /\ y.backlog[q][i] = x.backlog[q][At(q, i)]
               /\ y.backlog[q][i] \in Client /\ y.backlog[q][i] # c /\ i \in Nat
    <3>1. CASE q = role
      <4>1. i + 1 \in DOMAIN x.backlog[q] /\ i + 1 # 1 /\ y.backlog[q][i] = x.backlog[q][i + 1] /\ i \in Nat
        BY <1>3, <1>4, <1>6, <3>1
      <4>2. x.backlog[q][i + 1] # c
        BY <1>3, <3>1, <4>1 DEF Queued
      <4> QED
        BY <2>1, <3>1, <4>1, <4>2
    <3>2. CASE q # role
      <4>1. y.backlog[q] = x.backlog[q] /\ x.backlog[q] \in Seq(Client)
        BY <1>1, <1>6, <3>2
      <4>2. i \in DOMAIN x.backlog[q] /\ i \in Nat
        BY <4>1
      <4>3. x.backlog[q][i] # c
        <5>1. x.backlog[role][1] = c /\ 1 \in DOMAIN x.backlog[role] /\ role \in Roles
          BY <1>3
        <5> QED
          BY <3>2, <4>2, <5>1 DEF Queued
      <4> QED
        BY <2>1, <3>2, <4>1, <4>2, <4>3
    <3> QED
      BY <3>1, <3>2
  <2>3. ASSUME NEW q \in Roles, NEW i \in DOMAIN y.backlog[q]
        PROVE  y.cl[y.backlog[q][i]].st = "queued"
    <3> DEFINE j == At(q, i)
    <3>1. /\ j \in DOMAIN x.backlog[q] /\ y.backlog[q][i] = x.backlog[q][j]
          /\ y.backlog[q][i] \in Client /\ y.backlog[q][i] # c
      BY <2>2
    <3> HIDE DEF j
    <3>2. x.cl[x.backlog[q][j]].st = "queued"
      BY <3>1 DEF Queued
    <3> QED
      BY <1>7, <3>1, <3>2
  <2>4. ASSUME NEW q \in Roles, NEW b \in Roles, NEW i \in DOMAIN y.backlog[q], NEW j \in DOMAIN y.backlog[b],
               y.backlog[q][i] = y.backlog[b][j]
        PROVE  q = b /\ i = j
    <3>1. /\ At(q, i) \in DOMAIN x.backlog[q] /\ At(b, j) \in DOMAIN x.backlog[b]
          /\ x.backlog[q][At(q, i)] = x.backlog[b][At(b, j)] /\ i \in Nat /\ j \in Nat
      BY <2>2, <2>4
    <3> HIDE DEF At
    <3>2. q = b /\ At(q, i) = At(b, j)
      BY <3>1 DEF Queued
    <3> QED
      BY <3>1, <3>2 DEF At
  <2>5. ASSUME NEW d \in Client
        PROVE  /\ y.cl[d].rcvd <= y.cl[d].sent
               /\ y.cl[d].st \in {"idle", "queued"} => y.cl[d].rcvd = 0 /\ y.cl[d].got = 0
    <3>1. CASE d = c
      BY <1>7, <3>1
    <3>2. CASE d # c
      BY <1>7, <3>2 DEF Queued
    <3> QED
      BY <3>1, <3>2
  <2> QED
    BY <2>3, <2>4, <2>5 DEF Queued
<1>9. x.cl[c].st = "queued"
  BY <1>3 DEF Queued
<1> QED
  BY <1>3, <1>6, <1>8, <1>9

\* An object from the free list is opened for the client at the head of a
\* backlog: if the table had no room all else is in order, and if it had
\* everything is.
LEMMA OpenStep ==
  ASSUME NEW x, NEW p, NEW role, NEW c, NEW u, NEW k, NEW r, NEW t, NEW e, NEW fd, NEW full,
         Openable(x, p, role, c, u, k, r, t, e, fd, full),
         NEW y, y = Opened(x, role, c, u, k, r, t, e)
  PROVE  Opens(x, p, k, r, t, fd, full, y)
<1>0. /\ Inv(x, p, {}) /\ role \in Roles /\ x.backlog[role] # <<>> /\ c = Head(x.backlog[role])
      /\ x.free # <<>> /\ k = Head(x.free)
      /\ fd \in ClientFd /\ \A d \in Client : x.cl[d].sock # fd
  BY DEF Openable
<1>a. /\ r \in ConnRec /\ r.sock = fd /\ r.id = x.new /\ r.state = "Receiving" /\ r.reader = <<>> /\ r.tx = 0
      /\ u \in ClientRec /\ u.st = "open" /\ u.sock = fd /\ u.rcvd = x.cl[c].rcvd /\ u.got = x.cl[c].got
      /\ u.sent = x.cl[c].sent
  BY DEF Openable
<1>b. MoreInterest(e, x.ep, fd) /\ MoreTables(t, x, fd, k, full) /\ full \in BOOLEAN
  BY DEF Openable
<1>1. /\ Shape(x) /\ Pool(x) /\ Sockets(x) /\ Queued(x) /\ Tables(x) /\ Polled(x, p)
      /\ \A l \in Live(x) : Held(x, l) /\ Follows(x, l)
  BY <1>0 DEF Inv
<1>2. /\ x.new \in 1 .. 2 /\ x.listenOn \in BOOLEAN /\ x.backlog \in [Roles -> Seq(Client)]
      /\ x.conn \in Seq(ConnRec) /\ x.free \in Seq(Nat) /\ x.cl \in [Client -> ClientRec]
  BY <1>1 DEF Shape
<1> DEFINE fr == Tail(x.free)
           bl == Tail(x.backlog[role])
<1>3. /\ fr \in Seq(Nat) /\ k = x.free[1] /\ 1 \in DOMAIN x.free
      /\ DOMAIN x.free = 1 .. Len(x.free) /\ Len(x.free) \in Nat
      /\ DOMAIN fr = 1 .. (Len(x.free) - 1)
      /\ \A i \in DOMAIN fr : i + 1 \in DOMAIN x.free /\ i + 1 # 1 /\ fr[i] = x.free[i + 1]
  BY <1>0, <1>2, TailOf
<1>4. /\ bl \in Seq(Client) /\ c = x.backlog[role][1] /\ c \in Client /\ 1 \in DOMAIN x.backlog[role]
      /\ \A i \in DOMAIN bl : i \in Nat /\ i + 1 \in DOMAIN x.backlog[role] /\ i + 1 # 1
                              /\ bl[i] = x.backlog[role][i + 1]
  <2>1. x.backlog[role] \in Seq(Client)
    BY <1>0, <1>2
  <2>2. /\ bl \in Seq(Client) /\ c = x.backlog[role][1] /\ c \in Client /\ 1 \in DOMAIN x.backlog[role]
        /\ \A i \in DOMAIN bl : i + 1 \in DOMAIN x.backlog[role] /\ i + 1 # 1
                                /\ bl[i] = x.backlog[role][i + 1]
    BY <1>0, <2>1, TailOf
  <2>3. \A i \in DOMAIN bl : i \in Nat
    BY <2>2
  <2> QED
    BY <2>2, <2>3
<1>5. /\ k \in DOMAIN x.conn /\ x.conn[k].sock = NoSock /\ k \in Nat
      /\ fd # NoSock /\ fd \in Nat
  <2>1. k \in DOMAIN x.conn /\ x.conn[k].sock = NoSock
    BY <1>1, <1>3 DEF Pool
  <2> QED
    BY <1>0, <1>2, <2>1, Descriptors, SMTT(60)
<1>6. x.cl[c].st = "queued" /\ x.cl[c].sock = NoSock /\ x.cl[c].rcvd = 0 /\ x.cl[c].got = 0
  <2>1. x.cl[c].st = "queued"
    BY <1>0, <1>1, <1>4 DEF Queued
  <2> QED
    BY <1>1, <1>4, <2>1 DEF Queued, Sockets
<1> DEFINE co == [x.conn EXCEPT ![k] = r]
           cl == [x.cl EXCEPT ![c] = u]
           ba == [x.backlog EXCEPT ![role] = bl]
<1>7. y = Rec(t, x.new, co, fr, e, x.listenOn, cl, ba)
  BY DEF Opened
<1> HIDE DEF co, cl, ba, fr, bl
<1>8. /\ y.table = t /\ y.new = x.new /\ y.conn = co /\ y.free = fr /\ y.ep = e
      /\ y.listenOn = x.listenOn /\ y.cl = cl /\ y.backlog = ba
  BY <1>7, RecFields
<1>9. y = Rec(y.table, y.new, y.conn, y.free, y.ep, y.listenOn, y.cl, y.backlog)
  BY <1>7, RecFields
<1>10. /\ y.conn \in Seq(ConnRec) /\ DOMAIN y.conn = DOMAIN x.conn
       /\ y.conn[k] = r /\ \A l \in DOMAIN x.conn : l # k => y.conn[l] = x.conn[l]
  <2>1. x.conn \in Seq(ConnRec) /\ r \in ConnRec /\ k \in DOMAIN x.conn
    BY <1>2, <1>5, <1>a
  <2>2. y.conn = [x.conn EXCEPT ![k] = r]
    BY <1>8 DEF co
  <2> QED
    BY <2>1, <2>2
<1>11. /\ y.cl \in [Client -> ClientRec] /\ y.cl[c] = u
       /\ \A d \in Client : d # c => y.cl[d] = x.cl[d]
  <2>1. x.cl \in [Client -> ClientRec] /\ u \in ClientRec /\ c \in Client
    BY <1>2, <1>4, <1>a
  <2>2. y.cl = [x.cl EXCEPT ![c] = u]
    BY <1>8 DEF cl
  <2> QED
    BY <2>1, <2>2
<1>12. /\ y.backlog \in [Roles -> Seq(Client)] /\ y.backlog[role] = bl
       /\ \A q \in Roles : q # role => y.backlog[q] = x.backlog[q]
  BY <1>0, <1>2, <1>4, <1>8, ZenonT(60) DEF ba
<1>13. \A l \in DOMAIN x.conn : x.conn[l].sock # fd
  BY <1>0, <1>1, <1>5 DEF Sockets
<1>14. \A i \in 1 .. 2 : fd \notin HP!Keys(x.table[i])
  BY <1>1, <1>13 DEF Tables
<1>15. Live(y) = Live(x) \cup {k} /\ k \notin Live(x)
  BY <1>5, <1>10, <1>a, SMTT(30) DEF Live
<1>16. Shape(y)
  <2>1. /\ y.ep = [interest |-> y.ep.interest, pending |-> y.ep.pending]
        /\ y.ep.interest \in [DOMAIN y.ep.interest -> {"read", "write"}]
    BY <1>8, <1>b DEF MoreInterest
  <2>2. y.table = [i \in 1 .. 2 |-> y.table[i]]
    BY <1>8, <1>b DEF MoreTables
  <2> QED
    BY <1>2, <1>3, <1>8, <1>9, <1>10, <1>11, <1>12, <2>1, <2>2 DEF Shape
<1>17. Pool(y)
  <2>0. /\ \A i, j \in DOMAIN x.free : x.free[i] = x.free[j] => i = j
        /\ \A i \in DOMAIN x.free : x.free[i] \in DOMAIN x.conn /\ x.conn[x.free[i]].sock = NoSock
        /\ \A l \in DOMAIN x.conn : x.conn[l].sock = NoSock => \E i \in DOMAIN x.free : x.free[i] = l
    BY <1>1 DEF Pool
  <2>f. \A i \in DOMAIN y.free : /\ i \in Nat /\ i + 1 \in DOMAIN x.free /\ i + 1 # 1
                                 /\ y.free[i] = x.free[i + 1]
    <3>1. y.free = fr
      BY <1>8
    <3>2. \A i \in DOMAIN fr : i + 1 \in DOMAIN x.free /\ i + 1 # 1 /\ fr[i] = x.free[i + 1]
      BY <1>3
    <3>3. DOMAIN fr = 1 .. (Len(x.free) - 1)
      BY <1>3
    <3>4. \A i \in DOMAIN fr : i \in Nat
      BY <3>3
    <3> QED
      BY <3>1, <3>2, <3>4
  <2>1. ASSUME NEW i \in DOMAIN y.free, NEW j \in DOMAIN y.free, y.free[i] = y.free[j]
        PROVE  i = j
    <3>1. i + 1 \in DOMAIN x.free /\ j + 1 \in DOMAIN x.free /\ x.free[i + 1] = x.free[j + 1]
      BY <2>1, <2>f
    <3>2. i + 1 = j + 1
      BY <2>0, <3>1
    <3>3. i \in Nat /\ j \in Nat
      BY <2>f
    <3> QED
      BY <3>2, <3>3
  <2>2. ASSUME NEW i \in DOMAIN y.free
        PROVE  y.free[i] \in DOMAIN y.conn /\ y.conn[y.free[i]].sock = NoSock
    <3>1. i + 1 \in DOMAIN x.free /\ i + 1 # 1 /\ y.free[i] = x.free[i + 1]
      BY <2>f
    <3>2. k = x.free[1] /\ 1 \in DOMAIN x.free
      BY <1>3
    <3>3. y.free[i] # k
      BY <2>0, <3>1, <3>2
    <3>4. y.free[i] \in DOMAIN x.conn /\ x.conn[y.free[i]].sock = NoSock
      BY <2>0, <3>1
    <3> QED
      BY <1>10, <3>3, <3>4
  <2>3. ASSUME NEW l \in DOMAIN y.conn, y.conn[l].sock = NoSock
        PROVE  \E i \in DOMAIN y.free : y.free[i] = l
    <3>1. l # k
      BY <1>5, <1>10, <1>a, <2>3
    <3>2. PICK i \in DOMAIN x.free : x.free[i] = l
      BY <1>10, <2>0, <2>3, <3>1
    <3>3. i # 1
      BY <1>3, <3>1, <3>2
    <3>4. i - 1 \in DOMAIN fr /\ (i - 1) + 1 = i
      BY <1>3, <3>3, SMTT(60)
    <3>5. y.free = fr
      BY <1>8
    <3> QED
      BY <2>f, <3>2, <3>4, <3>5
  <2> QED
    BY <2>1, <2>2, <2>3 DEF Pool
<1>18. Sockets(y)
  <2>1. y.cl[c].sock = fd /\ y.cl[c].st = "open" /\ y.conn[k].sock = fd
    BY <1>10, <1>11, <1>a
  <2>2. ASSUME NEW d \in Client
        PROVE  y.cl[d].st = "open" <=> y.cl[d].sock # NoSock
    BY <1>1, <1>5, <1>11, <2>1 DEF Sockets
  <2>3. ASSUME NEW d \in Client, NEW b \in Client, y.cl[d].sock = y.cl[b].sock, y.cl[d].sock # NoSock
        PROVE  d = b
    <3>1. CASE d = c
      BY <1>0, <1>11, <2>1, <2>3, <3>1
    <3>2. CASE b = c
      BY <1>0, <1>11, <2>1, <2>3, <3>2
    <3>3. CASE d # c /\ b # c
      BY <1>1, <1>11, <2>3, <3>3 DEF Sockets
    <3> QED
      BY <3>1, <3>2, <3>3, SMTT(30)
  <2>4. ASSUME NEW l \in DOMAIN y.conn, NEW m \in DOMAIN y.conn,
               y.conn[l].sock = y.conn[m].sock, y.conn[l].sock # NoSock
        PROVE  l = m
    <3>1. CASE l = k
      BY <1>10, <1>13, <2>1, <2>4, <3>1
    <3>2. CASE m = k
      BY <1>10, <1>13, <2>1, <2>4, <3>2
    <3>3. CASE l # k /\ m # k
      BY <1>1, <1>10, <2>4, <3>3 DEF Sockets
    <3> QED
      BY <3>1, <3>2, <3>3
  <2>5. ASSUME NEW l \in DOMAIN y.conn, y.conn[l].sock # NoSock
        PROVE  \E d \in Client : y.cl[d].sock = y.conn[l].sock
    <3>1. CASE l = k
      BY <1>4, <2>1, <3>1
    <3>2. CASE l # k
      <4>1. PICK d \in Client : x.cl[d].sock = x.conn[l].sock
        BY <1>1, <1>10, <2>5, <3>2 DEF Sockets
      <4>2. d # c
        BY <1>6, <1>10, <2>5, <3>2, <4>1
      <4> QED
        BY <1>10, <1>11, <3>2, <4>1, <4>2
    <3> QED
      BY <3>1, <3>2
  <2>6. ASSUME NEW d \in Client, y.cl[d].sock # NoSock
        PROVE  \E l \in DOMAIN y.conn : y.conn[l].sock = y.cl[d].sock
    <3>1. CASE d = c
      BY <1>5, <1>10, <2>1, <3>1
    <3>2. CASE d # c
      <4>1. PICK l \in DOMAIN x.conn : x.conn[l].sock = x.cl[d].sock
        BY <1>1, <1>11, <2>6, <3>2 DEF Sockets
      <4>2. l # k
        BY <1>5, <1>11, <2>6, <3>2, <4>1
      <4>3. y.conn[l].sock = x.conn[l].sock /\ y.cl[d].sock = x.cl[d].sock /\ l \in DOMAIN y.conn
        BY <1>10, <1>11, <3>2, <4>1, <4>2
      <4> QED
        BY <4>1, <4>3
    <3> QED
      BY <3>1, <3>2
  <2> QED
    BY <2>2, <2>3, <2>4, <2>5, <2>6 DEF Sockets
<1>19. Queued(y)
  <2>1. x.cl[c].rcvd <= x.cl[c].sent
    BY <1>1, <1>4 DEF Queued
  <2>2. u.rcvd <= u.sent /\ u.st \notin {"idle", "queued"}
    BY <1>a, <2>1
  <2>3. Leaves(x, y, role, c, u)
    BY <1>0, <1>8, <1>a, <2>2 DEF Leaves, cl, ba, bl
  <2> QED
    BY <1>1, <2>3, Dequeued
<1>20. Tables(y)
  <2>1. ASSUME NEW i \in 1 .. 2, NEW b \in HP!Keys(y.table[i])
        PROVE  \E l \in DOMAIN y.conn : y.conn[l].sock = b /\ y.conn[l].id = i
    <3>1. (b = fd /\ i = x.new) \/ b \in HP!Keys(x.table[i])
      BY <1>8, <1>b, <2>1 DEF MoreTables
    <3>2. CASE b = fd /\ i = x.new
      BY <1>5, <1>10, <1>a, <3>2
    <3>3. CASE b \in HP!Keys(x.table[i])
      <4>1. PICK l \in DOMAIN x.conn : x.conn[l].sock = b /\ x.conn[l].id = i
        BY <1>1, <3>3 DEF Tables
      <4>2. CASE l = k
        <5>1. HP!Well(x.table[i], Nat) /\ b = NoSock
          BY <1>1, <1>5, <4>1, <4>2 DEF Tables
        <5>2. b \in Nat
          BY <3>3, <5>1, KeyNat
        <5> QED
          BY <5>1, <5>2 DEF NoSock
      <4>3. CASE l # k
        BY <1>10, <4>1, <4>3
      <4> QED
        BY <4>2, <4>3
    <3> QED
      BY <3>1, <3>2, <3>3
  <2> QED
    BY <1>8, <1>b, <2>1 DEF Tables, MoreTables
<1>21. Polled(y, p)
  <2>1. Fds(y) = Fds(x) \cup {fd}
    <3>1. \A l \in Live(x) : y.conn[l] = x.conn[l] /\ l # k
      BY <1>10, <1>15 DEF Live
    <3> QED
      BY <1>10, <1>15, <1>a, <3>1 DEF Fds
  <2> QED
    BY <1>1, <1>8, <1>b, <2>1 DEF Polled, MoreInterest
<1>22. ASSUME NEW l \in Live(y), l # k
       PROVE  Held(y, l) /\ Follows(y, l)
  <2>1. l \in Live(x) /\ l \in DOMAIN x.conn /\ y.conn[l] = x.conn[l] /\ x.conn[l] \in ConnRec
    BY <1>2, <1>10, <1>15, <1>22 DEF Live
  <2>2. Held(x, l) /\ Follows(x, l)
    BY <1>1, <2>1
  <2>3. x.conn[l].sock # fd /\ x.conn[l].sock \in DOMAIN x.ep.interest /\ x.conn[l].sock # NoSock
    BY <1>1, <1>13, <2>1 DEF Polled, Fds, Live
  <2>4. x.conn[l].id \in 1 .. 2
    BY <2>1, <2>2 DEF Held, Filed, ConnRec
  <2>5. Held(y, l)
    <3>1. y.ep.interest[x.conn[l].sock] = x.ep.interest[x.conn[l].sock]
      BY <1>8, <1>b, <2>3 DEF MoreInterest
    <3>2. Filed(y, l)
      BY <1>8, <1>b, <2>1, <2>2, <2>4 DEF Held, Filed, MoreTables
    <3> QED
      BY <2>1, <2>2, <3>1, <3>2 DEF Held
  <2>6. \A d \in Client : y.cl[d].sock = y.conn[l].sock => d # c
    BY <1>11, <1>a, <2>1, <2>3
  <2>7. Follows(y, l)
    BY <1>11, <2>1, <2>2, <2>6 DEF Follows
  <2> QED
    BY <2>5, <2>7
<1>23. ASSUME ~full
       PROVE  Held(y, k) /\ Follows(y, k)
  <2>1. Held(y, k)
    <3>1. y.ep.interest[fd] = "read" /\ Wants(r) = "read"
      BY <1>8, <1>a, <1>b DEF MoreInterest, Wants
    <3>2. fd \in HP!Keys(t[x.new]) /\ HP!Lookup(t[x.new], fd) = k /\ x.new # 0
      BY <1>2, <1>b, <1>23 DEF MoreTables
    <3> QED
      BY <1>8, <1>10, <1>a, <3>1, <3>2 DEF Held, Filed
  <2>2. \A d \in Client : y.cl[d].sock = fd => d = c
    BY <1>0, <1>11
  <2>3. InStream(r, c, u)
    <3>1. 0 % MsgUnits = 0 /\ 0 \div MsgUnits = 0
      BY DEF MsgUnits
    <3>2. <<>> = [i \in 1 .. 0 |-> <<c, 0 * MsgUnits + i>>] /\ 0 = 0 * RespUnits
      BY DEF MsgUnits, RespUnits
    <3> QED
      BY <1>6, <1>a, <3>1, <3>2 DEF InStream
  <2>4. Follows(y, k)
    BY <1>10, <1>11, <1>a, <2>2, <2>3 DEF Follows
  <2> QED
    BY <2>1, <2>4
<1>24. Inv(y, p, {k})
  BY <1>16, <1>17, <1>18, <1>19, <1>20, <1>21, <1>22 DEF Inv
<1>25. ~full => Inv(y, p, {})
  BY <1>16, <1>17, <1>18, <1>19, <1>20, <1>21, <1>22, <1>23 DEF Inv
<1> QED
  BY <1>8, <1>10, <1>14, <1>15, <1>24, <1>25 DEF Opens

\* A finite set without one of its elements.
LEMMA LessOne ==
  ASSUME NEW S, IsFiniteSet(S), NEW d \in S
  PROVE  IsFiniteSet(S \ {d}) /\ Cardinality(S \ {d}) = Cardinality(S) - 1
<1>1. /\ IsFiniteSet(S \ {d})
      /\ Cardinality(S \ {d}) = IF d \in S THEN Cardinality(S) - 1 ELSE Cardinality(S)
  BY FS_RemoveElement, Zenon
<1> QED
  BY <1>1

\* While a client is without a socket there is a descriptor for it.
LEMMA LowestFd ==
  ASSUME NEW x, Shape(x), NEW d \in Client, x.cl[d].sock = NoSock
  PROVE  LowestFree(x) \in ClientFd /\ \A c \in Client : x.cl[c].sock # LowestFree(x)
<1> DEFINE U == {fd \in ClientFd : \A c \in Client : x.cl[c].sock # fd}
           T == Client \ {d}
<1>1. /\ IsFiniteSet(ClientFd) /\ Cardinality(ClientFd) = Cardinality(Client) /\ ClientFd \subseteq Nat
      /\ Cardinality(Client) \in Nat /\ NoSock \notin ClientFd
  BY Descriptors
<1>2. IsFiniteSet(T) /\ Cardinality(T) = Cardinality(Client) - 1
  <2>1. IsFiniteSet(Client)
    BY TcpAssumption
  <2> QED
    BY <2>1, LessOne
<1>3. U # {}
  <2> SUFFICES ASSUME U = {}
               PROVE  FALSE
    OBVIOUS
  <2>1. \A fd \in ClientFd : \E c \in T : x.cl[c].sock = fd
    <3> TAKE fd \in ClientFd
    <3>1. PICK c \in Client : x.cl[c].sock = fd
      OBVIOUS
    <3>2. c # d
      BY <1>1, <3>1
    <3> QED
      BY <3>1, <3>2
  <2> DEFINE f == [fd \in ClientFd |-> CHOOSE c \in T : x.cl[c].sock = fd]
  <2>2. \A fd \in ClientFd : f[fd] \in T /\ x.cl[f[fd]].sock = fd
    BY <2>1
  <2>3. f \in [ClientFd -> T]
    BY <2>2
  <2> HIDE DEF f, T, U
  <2>4. IsFiniteSet(ClientFd) /\ IsFiniteSet(T) /\ Cardinality(T) < Cardinality(ClientFd)
    BY <1>1, <1>2
  <2>5. \E a, b \in ClientFd : a # b /\ f[a] = f[b]
    BY <2>3, <2>4, FS_PigeonHole
  <2> QED
    BY <2>2, <2>5
<1>4. U \subseteq Nat
  BY <1>1
<1>5. LowestFree(x) = CHOOSE a \in U : \A b \in U : a <= b
  BY DEF LowestFree, Min
<1> HIDE DEF U
<1>6. \E a \in U : \A b \in U : a <= b
  BY <1>3, <1>4, LeastNat
<1>7. LowestFree(x) \in U
  BY <1>5, <1>6
<1> QED
  BY <1>7 DEF U

MoreConn(x) == x.conn \o [i \in 1 .. PoolGrow |-> NewConn]

MoreFree(x) == [i \in 1 .. PoolGrow |-> Len(x.conn) + PoolGrow + 1 - i] \o x.free

\* Grow, field by field.
LEMMA GrowFields ==
  ASSUME NEW x, x = Rec(x.table, x.new, x.conn, x.free, x.ep, x.listenOn, x.cl, x.backlog)
  PROVE  Grow(x) = Rec(x.table, x.new, MoreConn(x), MoreFree(x), x.ep, x.listenOn, x.cl, x.backlog)
<1> DEFINE co == MoreConn(x)
           fr == MoreFree(x)
<1>1. Grow(x) = [x EXCEPT !.conn = co, !.free = fr]
  BY DEF Grow, MoreConn, MoreFree
<1> HIDE DEF co, fr
<1>2. Grow(x) = Rec(x.table, x.new, co, fr, x.ep, x.listenOn, x.cl, x.backlog)
  BY <1>1 DEF Rec
<1> QED
  BY <1>2 DEF co, fr

LEMMA NewConnRec == NewConn \in ConnRec /\ NewConn.sock = NoSock
BY DEF NewConn, ConnRec, Sock, RespUnits

\* What the pool has after it grew: objects co and free list fr.
Grown(x, co, fr, n) ==
  /\ n \in Nat /\ DOMAIN x.conn = 1 .. n
  /\ co \in Seq(ConnRec) /\ DOMAIN co = 1 .. (n + PoolGrow)
  /\ \A i \in 1 .. n : co[i] = x.conn[i]
  /\ \A i \in (n + 1) .. (n + PoolGrow) : co[i] = NewConn
  /\ fr \in Seq(Nat) /\ DOMAIN fr = 1 .. PoolGrow
  /\ \A i \in 1 .. PoolGrow : fr[i] = n + PoolGrow + 1 - i

LEMMA GrownLists ==
  ASSUME NEW x, Shape(x), x.free = <<>>, NEW n, n = Len(x.conn)
  PROVE  Grown(x, MoreConn(x), MoreFree(x), n)
<1> DEFINE N == [i \in 1 .. PoolGrow |-> NewConn]
           F == [i \in 1 .. PoolGrow |-> n + PoolGrow + 1 - i]
<1>1. x.conn \in Seq(ConnRec) /\ n \in Nat /\ DOMAIN x.conn = 1 .. n
  BY DEF Shape
<1>2. PoolGrow \in Nat
  BY TcpAssumption
<1>3. N \in Seq(ConnRec) /\ Len(N) = PoolGrow /\ \A i \in 1 .. PoolGrow : N[i] = NewConn
  BY <1>2, NewConnRec
<1>4. F \in Seq(Nat) /\ Len(F) = PoolGrow /\ \A i \in 1 .. PoolGrow : F[i] = n + PoolGrow + 1 - i
  <2>1. \A i \in 1 .. PoolGrow : n + PoolGrow + 1 - i \in Nat
    BY <1>1, <1>2
  <2> QED
    BY <1>2, <2>1
<1>5. MoreConn(x) = x.conn \o N /\ MoreFree(x) = F \o <<>>
  BY DEF MoreConn, MoreFree
<1> HIDE DEF N, F
<1>6. MoreFree(x) = F
  BY <1>4, <1>5
<1>7. /\ MoreConn(x) \in Seq(ConnRec) /\ Len(MoreConn(x)) = n + PoolGrow
      /\ \A i \in 1 .. n : MoreConn(x)[i] = x.conn[i]
  <2>1. MoreConn(x) \in Seq(ConnRec) /\ Len(MoreConn(x)) = n + PoolGrow
    BY <1>1, <1>3, <1>5, Joined
  <2>2. \A i \in 1 .. n : (x.conn \o N)[i] = x.conn[i]
    BY <1>1, <1>2, <1>3
  <2> QED
    BY <1>5, <2>1, <2>2
<1>8. ASSUME NEW i \in (n + 1) .. (n + PoolGrow)
      PROVE  MoreConn(x)[i] = NewConn
  <2>1. i - n \in 1 .. PoolGrow /\ i \in 1 .. (n + PoolGrow) /\ ~(i <= n)
    BY <1>1, <1>2
  <2>2. (x.conn \o N)[i] = N[i - n]
    BY <1>1, <1>2, <1>3, <2>1, SMTT(60)
  <2> QED
    BY <1>3, <1>5, <2>1, <2>2
<1>9. DOMAIN MoreConn(x) = 1 .. (n + PoolGrow) /\ DOMAIN F = 1 .. PoolGrow
  BY <1>1, <1>2, <1>4, <1>7
<1> QED
  BY <1>1, <1>4, <1>6, <1>7, <1>8, <1>9 DEF Grown

GrownAs(x, p, y) ==
  /\ Inv(y, p, {}) /\ y.free # <<>> /\ y.free = MoreFree(x) /\ y.conn = MoreConn(x)
  /\ y = Rec(x.table, x.new, y.conn, y.free, x.ep, x.listenOn, x.cl, x.backlog)

\* The pool grows when it is used up, which disturbs nothing.
LEMMA GrowStep ==
  ASSUME NEW x, NEW p, Inv(x, p, {}), x.free = <<>>, NEW y, y = Grow(x)
  PROVE  GrownAs(x, p, y)
<1>1. /\ Shape(x) /\ Pool(x) /\ Sockets(x) /\ Queued(x) /\ Tables(x) /\ Polled(x, p)
      /\ \A l \in Live(x) : Held(x, l) /\ Follows(x, l)
  BY DEF Inv
<1>2. y = Rec(x.table, x.new, MoreConn(x), MoreFree(x), x.ep, x.listenOn, x.cl, x.backlog)
  <2>1. Shape(x)
    BY <1>1
  <2>2. x = Rec(x.table, x.new, x.conn, x.free, x.ep, x.listenOn, x.cl, x.backlog)
    BY <2>1 DEF Shape
  <2> QED
    BY <2>2, GrowFields
<1>3. /\ y.table = x.table /\ y.new = x.new /\ y.conn = MoreConn(x) /\ y.free = MoreFree(x) /\ y.ep = x.ep
      /\ y.listenOn = x.listenOn /\ y.cl = x.cl /\ y.backlog = x.backlog
  BY <1>2, RecFields
<1>4. y = Rec(y.table, y.new, y.conn, y.free, y.ep, y.listenOn, y.cl, y.backlog)
  BY <1>2, RecFields
<1> DEFINE n == Len(x.conn)
<1>n. n = Len(x.conn)
  OBVIOUS
<1> HIDE DEF n
<1>g. Grown(x, y.conn, y.free, n)
  BY <1>1, <1>3, <1>n, GrownLists
<1>5. /\ n \in Nat /\ DOMAIN x.conn = 1 .. n
      /\ y.conn \in Seq(ConnRec) /\ DOMAIN y.conn = 1 .. (n + PoolGrow)
      /\ \A i \in 1 .. n : y.conn[i] = x.conn[i]
      /\ \A i \in (n + 1) .. (n + PoolGrow) : y.conn[i] = NewConn
  BY <1>g DEF Grown
<1>6. /\ y.free \in Seq(Nat) /\ DOMAIN y.free = 1 .. PoolGrow
      /\ \A i \in 1 .. PoolGrow : y.free[i] = n + PoolGrow + 1 - i
  BY <1>g DEF Grown
<1>7. PoolGrow \in Nat /\ PoolGrow # 0
  BY TcpAssumption
<1>8. y.free # <<>>
  <2>1. 1 \in DOMAIN y.free
    BY <1>6, <1>7
  <2> QED
    BY <2>1
<1>9. \A k \in DOMAIN y.conn : k \in DOMAIN x.conn \/ (y.conn[k] = NewConn /\ k \in (n + 1) .. (n + PoolGrow))
  BY <1>5, <1>7
<1>10. \A k \in DOMAIN x.conn : k \in DOMAIN y.conn /\ y.conn[k] = x.conn[k] /\ x.conn[k].sock # NoSock
  <2>1. \A k \in DOMAIN x.conn : x.conn[k].sock # NoSock
    BY <1>1 DEF Pool
  <2>2. \A k \in DOMAIN x.conn : k \in DOMAIN y.conn
    BY <1>5, <1>7
  <2> QED
    BY <1>5, <2>1, <2>2
<1>11. Live(y) = Live(x) /\ \A k \in Live(x) : y.conn[k] = x.conn[k]
  BY <1>9, <1>10, NewConnRec DEF Live
<1>12. Shape(y)
  <2>1. /\ x.table = [i \in 1 .. 2 |-> x.table[i]] /\ x.new \in 1 .. 2
        /\ x.ep = [interest |-> x.ep.interest, pending |-> x.ep.pending]
        /\ x.ep.interest \in [DOMAIN x.ep.interest -> {"read", "write"}]
        /\ x.listenOn \in BOOLEAN
        /\ x.cl \in [Client -> ClientRec] /\ x.backlog \in [Roles -> Seq(Client)]
    BY <1>1 DEF Shape
  <2> QED
    BY <1>3, <1>4, <1>5, <1>6, <2>1 DEF Shape
<1>13. Pool(y)
  <2>1. ASSUME NEW i \in DOMAIN y.free, NEW j \in DOMAIN y.free, y.free[i] = y.free[j]
        PROVE  i = j
    <3>1. i \in 1 .. PoolGrow /\ j \in 1 .. PoolGrow
      BY <1>6
    <3>2. n + PoolGrow + 1 - i = n + PoolGrow + 1 - j
      BY <1>6, <2>1, <3>1
    <3>3. n \in Nat /\ PoolGrow \in Nat
      BY <1>5, <1>7
    <3> QED
      BY <3>1, <3>2, <3>3
  <2>2. ASSUME NEW i \in DOMAIN y.free
        PROVE  y.free[i] \in DOMAIN y.conn /\ y.conn[y.free[i]].sock = NoSock
    <3>1. y.free[i] \in (n + 1) .. (n + PoolGrow) /\ y.free[i] \in 1 .. (n + PoolGrow)
      BY <1>5, <1>6, <1>7, SMTT(60)
    <3> QED
      BY <1>5, <3>1, NewConnRec
  <2>3. ASSUME NEW l \in DOMAIN y.conn, y.conn[l].sock = NoSock
        PROVE  \E i \in DOMAIN y.free : y.free[i] = l
    <3>1. l \in (n + 1) .. (n + PoolGrow)
      BY <1>9, <1>10, <2>3
    <3>2. n + PoolGrow + 1 - l \in 1 .. PoolGrow /\ n + PoolGrow + 1 - (n + PoolGrow + 1 - l) = l
      BY <1>5, <1>7, <3>1
    <3> QED
      BY <1>6, <3>2
  <2> QED
    BY <2>1, <2>2, <2>3 DEF Pool
<1>14. Sockets(y)
  <2>1. \A k \in DOMAIN y.conn : y.conn[k].sock # NoSock => k \in DOMAIN x.conn
    BY <1>9, NewConnRec
  <2>2. ASSUME NEW l \in DOMAIN y.conn, NEW m \in DOMAIN y.conn,
               y.conn[l].sock = y.conn[m].sock, y.conn[l].sock # NoSock
        PROVE  l = m
    BY <1>1, <1>10, <2>1, <2>2 DEF Sockets
  <2>3. ASSUME NEW l \in DOMAIN y.conn, y.conn[l].sock # NoSock
        PROVE  \E d \in Client : y.cl[d].sock = y.conn[l].sock
    BY <1>1, <1>3, <1>10, <2>1, <2>3 DEF Sockets
  <2>4. ASSUME NEW d \in Client, y.cl[d].sock # NoSock
        PROVE  \E l \in DOMAIN y.conn : y.conn[l].sock = y.cl[d].sock
    BY <1>1, <1>3, <1>10, <2>4 DEF Sockets
  <2>5. /\ \A c \in Client : y.cl[c].st = "open" <=> y.cl[c].sock # NoSock
        /\ \A c, d \in Client : y.cl[c].sock = y.cl[d].sock /\ y.cl[c].sock # NoSock => c = d
    BY <1>1, <1>3 DEF Sockets
  <2> QED
    BY <2>2, <2>3, <2>4, <2>5 DEF Sockets
<1>15. Queued(y)
  BY <1>1, <1>3 DEF Queued
<1>16. Tables(y)
  <2>1. ASSUME NEW i \in 1 .. 2, NEW b \in HP!Keys(y.table[i])
        PROVE  \E l \in DOMAIN y.conn : y.conn[l].sock = b /\ y.conn[l].id = i
    BY <1>1, <1>3, <1>10, <2>1 DEF Tables
  <2> QED
    BY <1>1, <1>3, <2>1 DEF Tables
<1>17. Polled(y, p)
  <2>1. Fds(y) = Fds(x)
    BY <1>11 DEF Fds
  <2> QED
    BY <1>1, <1>3, <2>1 DEF Polled
<1>18. \A l \in Live(y) : Held(y, l) /\ Follows(y, l)
  BY <1>1, <1>3, <1>11 DEF Held, Filed, Follows
<1> QED
  BY <1>2, <1>3, <1>8, <1>12, <1>13, <1>14, <1>15, <1>16, <1>17, <1>18 DEF Inv, GrownAs

Welcomed(u, fd) == [u EXCEPT !.st = "open", !.sock = fd]

\* Two fields of one client's record, set one after the other.
LEMMA TwoFields ==
  ASSUME NEW v \in [Client -> ClientRec], NEW c \in Client, NEW fd
  PROVE  [[v EXCEPT ![c].st = "open"] EXCEPT ![c].sock = fd] = [v EXCEPT ![c] = Welcomed(v[c], fd)]
<1> DEFINE u == [v[c] EXCEPT !.st = "open"]
           w == [v EXCEPT ![c] = u]
           o == [u EXCEPT !.sock = fd]
<1>1. [v EXCEPT ![c].st = "open"] = w
  OBVIOUS
<1>2. Welcomed(v[c], fd) = o
  BY DEF Welcomed
<1> HIDE DEF u, o
<1>3. w[c] = u /\ w = [d \in Client |-> IF d = c THEN u ELSE v[d]]
  OBVIOUS
<1> HIDE DEF w
<1>4. [w EXCEPT ![c].sock = fd] = [w EXCEPT ![c] = o]
  BY <1>3 DEF o
<1>5. [w EXCEPT ![c] = o] = [d \in Client |-> IF d = c THEN o ELSE v[d]]
  BY <1>3
<1>6. [v EXCEPT ![c] = o] = [d \in Client |-> IF d = c THEN o ELSE v[d]]
  OBVIOUS
<1> QED
  BY <1>1, <1>2, <1>4, <1>5, <1>6

Admitted(y, c, fd) == [y EXCEPT !.cl[c].st = "open", !.cl[c].sock = fd]

\* A record with two fields of one client's record changed.
LEMMA NestedClient ==
  ASSUME NEW t, NEW n, NEW k, NEW f, NEW e, NEW l, NEW v \in [Client -> ClientRec], NEW b,
         NEW y, y = Rec(t, n, k, f, e, l, v, b), NEW c \in Client, NEW fd
  PROVE  Admitted(y, c, fd) = Rec(t, n, k, f, e, l, [v EXCEPT ![c] = Welcomed(v[c], fd)], b)
<1> DEFINE v1 == [v EXCEPT ![c].st = "open"]
           v2 == [v1 EXCEPT ![c].sock = fd]
           y1 == [y EXCEPT !.cl[c].st = "open"]
<1>1. y.cl = v
  BY RecFields
<1>2. y1 = [y EXCEPT !.cl = v1]
  BY <1>1
<1> HIDE DEF y1, v1
<1>3. y1 = Rec(t, n, k, f, e, l, v1, b)
  BY <1>2, WithClients
<1>4. y1.cl = v1
  BY <1>3, RecFields
<1>5. [y1 EXCEPT !.cl[c].sock = fd] = [y1 EXCEPT !.cl = v2]
  BY <1>4
<1> HIDE DEF v2
<1>6. [y1 EXCEPT !.cl = v2] = Rec(t, n, k, f, e, l, v2, b)
  BY <1>3, WithClients
<1>7. Admitted(y, c, fd) = [y1 EXCEPT !.cl[c].sock = fd]
  BY DEF y1, Admitted
<1>8. v2 = [v EXCEPT ![c] = Welcomed(v[c], fd)]
  BY TwoFields DEF v1, v2
<1> QED
  BY <1>5, <1>6, <1>7, <1>8

\* accept, field by field.
LEMMA AcceptedFields ==
  ASSUME NEW x, Shape(x), NEW role, NEW c \in Client, c = Head(x.backlog[role]), NEW fd
  PROVE  Accepted(x, role, fd) =
           Rec(x.table, x.new, x.conn, x.free, x.ep, x.listenOn, [x.cl EXCEPT ![c] = Welcomed(x.cl[c], fd)],
               [x.backlog EXCEPT ![role] = Tail(x.backlog[role])])
<1> DEFINE ba == [x.backlog EXCEPT ![role] = Tail(x.backlog[role])]
           y == [x EXCEPT !.backlog = ba]
<1>1. Accepted(x, role, fd) = Admitted(y, c, fd)
  BY DEF Accepted, Admitted
<1>2. x = Rec(x.table, x.new, x.conn, x.free, x.ep, x.listenOn, x.cl, x.backlog) /\ x.cl \in [Client -> ClientRec]
  BY DEF Shape
<1> HIDE DEF ba
<1>3. y = Rec(x.table, x.new, x.conn, x.free, x.ep, x.listenOn, x.cl, ba)
  BY <1>2, WithBacklog
<1> HIDE DEF y
<1>4. Admitted(y, c, fd)
        = Rec(x.table, x.new, x.conn, x.free, x.ep, x.listenOn, [x.cl EXCEPT ![c] = Welcomed(x.cl[c], fd)], ba)
  BY <1>2, <1>3, NestedClient
<1> QED
  BY <1>1, <1>4 DEF ba

Room(x) == IF x.free = <<>> THEN Grow(x) ELSE x

Fresh(fd) == [NewConn EXCEPT !.sock = fd]

\* GetConnection, field by field.
LEMMA GetFields ==
  ASSUME NEW x, x = Rec(x.table, x.new, x.conn, x.free, x.ep, x.listenOn, x.cl, x.backlog), NEW fd
  PROVE  LET z == Room(x) IN
         GetConnection(x, fd) =
           Rec(x.table, x.new, [z.conn EXCEPT ![Head(z.free)] = Fresh(fd)], Tail(z.free), x.ep, x.listenOn,
               x.cl, x.backlog)
<1> DEFINE z == Room(x)
           k == Head(z.free)
<1>1. GetConnection(x, fd) = [z EXCEPT !.free = Tail(@), !.conn[k] = Fresh(fd)]
  BY DEF GetConnection, Room, Fresh
<1>2. z = Rec(x.table, x.new, z.conn, z.free, x.ep, x.listenOn, x.cl, x.backlog)
  <2>1. CASE x.free = <<>>
    <3>1. z = Grow(x)
      BY <2>1 DEF Room
    <3> HIDE DEF z
    <3>2. z = Rec(x.table, x.new, MoreConn(x), MoreFree(x), x.ep, x.listenOn, x.cl, x.backlog)
      BY <3>1, GrowFields
    <3>3. z.conn = MoreConn(x) /\ z.free = MoreFree(x)
      BY <3>2, RecFields
    <3> QED
      BY <3>2, <3>3
  <2>2. CASE x.free # <<>>
    BY <2>2 DEF Room
  <2> QED
    BY <2>1, <2>2
<1> HIDE DEF z
<1> DEFINE co == [z.conn EXCEPT ![k] = Fresh(fd)]
           fr == Tail(z.free)
<1>3. GetConnection(x, fd) = [z EXCEPT !.free = fr, !.conn = co]
  BY <1>1, <1>2 DEF Rec
<1> HIDE DEF k, co, fr
<1>4. GetConnection(x, fd) = Rec(x.table, x.new, co, fr, x.ep, x.listenOn, x.cl, x.backlog)
  <2> DEFINE w == [z EXCEPT !.free = fr]
             t == x.table
             m == x.new
             a == z.conn
             b == z.free
             e == x.ep
             l == x.listenOn
             cl == x.cl
             ba == x.backlog
  <2>1. z = Rec(t, m, a, b, e, l, cl, ba) /\ GetConnection(x, fd) = [w EXCEPT !.conn = co]
    BY <1>2, <1>3
  <2> HIDE DEF t, m, a, b, e, l, cl, ba
  <2>2. w = Rec(t, m, a, fr, e, l, cl, ba)
    BY <2>1 DEF Rec
  <2> HIDE DEF w
  <2>3. [w EXCEPT !.conn = co] = Rec(t, m, co, fr, e, l, cl, ba)
    BY <2>2 DEF Rec
  <2> QED
    BY <2>1, <2>3 DEF t, m, e, l, cl, ba
<1> QED
  BY <1>4 DEF co, fr, k, z

Named(r, id) == [r EXCEPT !.id = id]

EnteredRec(x, k, fd) ==
  Rec([x.table EXCEPT ![x.new] = H!Insert(x.table[x.new], fd, k)], x.new,
      [x.conn EXCEPT ![k] = Named(x.conn[k], x.new)], x.free, P!EpollAdd(x.ep, fd, "read"),
      x.listenOn, x.cl, x.backlog)

\* The accepted socket is polled and filed, field by field.
LEMMA EnteredFields ==
  ASSUME NEW x, x = Rec(x.table, x.new, x.conn, x.free, x.ep, x.listenOn, x.cl, x.backlog), NEW k, NEW fd
  PROVE  Entered(x, k, fd) = EnteredRec(x, k, fd)
<1> DEFINE t == [x.table EXCEPT ![x.new] = H!Insert(x.table[x.new], fd, k)]
           co == [x.conn EXCEPT ![k] = Named(x.conn[k], x.new)]
           e == P!EpollAdd(x.ep, fd, "read")
<1>1. Entered(x, k, fd) = [x EXCEPT !.ep = e, !.conn = co, !.table = t]
  BY DEF Entered, Named
<1> HIDE DEF t, co, e
<1>2. Entered(x, k, fd) = Rec(t, x.new, co, x.free, e, x.listenOn, x.cl, x.backlog)
  BY <1>1 DEF Rec
<1> QED
  BY <1>2 DEF t, co, e, EnteredRec

Opening(x, p, role, c, fd, z, k, g) ==
  /\ Inv(x, p, {}) /\ c \in Client /\ c = Head(x.backlog[role])
  /\ z = Room(x) /\ k = Head(z.free) /\ k \in DOMAIN z.conn
  /\ g = GetConnection(Accepted(x, role, fd), fd)

OpensAs(x, p, role, c, fd, z, k, g) ==
  /\ g.conn = [z.conn EXCEPT ![k] = Fresh(fd)]
  /\ Entered(g, k, fd) =
       Opened(z, role, c, Welcomed(x.cl[c], fd), k, Named(Fresh(fd), x.new),
              [x.table EXCEPT ![x.new] = H!Insert(x.table[x.new], fd, k)],
              P!EpollAdd(x.ep, fd, "read"))
  /\ z = Rec(x.table, x.new, z.conn, z.free, x.ep, x.listenOn, x.cl, x.backlog)
  /\ Inv(z, p, {}) /\ z.free # <<>>

\* The object that is opened, and the state in which it is filed.
LEMMA OpenFields ==
  ASSUME NEW x, NEW p, NEW role, NEW c, NEW fd, NEW z, NEW k, NEW g, Opening(x, p, role, c, fd, z, k, g)
  PROVE  OpensAs(x, p, role, c, fd, z, k, g)
<1>0. /\ Inv(x, p, {}) /\ c \in Client /\ c = Head(x.backlog[role])
      /\ z = Room(x) /\ k = Head(z.free) /\ k \in DOMAIN z.conn
      /\ g = GetConnection(Accepted(x, role, fd), fd)
  BY DEF Opening
<1>1. Shape(x)
  <2>1. Inv(x, p, {})
    BY <1>0
  <2> QED
    BY <2>1 DEF Inv
<1> USE <1>0
<1> DEFINE cl == [x.cl EXCEPT ![c] = Welcomed(x.cl[c], fd)]
           ba == [x.backlog EXCEPT ![role] = Tail(x.backlog[role])]
           a == Accepted(x, role, fd)
           w == Room(a)
<1>2. a = Rec(x.table, x.new, x.conn, x.free, x.ep, x.listenOn, cl, ba)
  BY <1>1, AcceptedFields
<1> HIDE DEF a, cl, ba
<1>3. /\ a.table = x.table /\ a.new = x.new /\ a.conn = x.conn /\ a.free = x.free /\ a.ep = x.ep
      /\ a.listenOn = x.listenOn /\ a.cl = cl /\ a.backlog = ba
      /\ a = Rec(a.table, a.new, a.conn, a.free, a.ep, a.listenOn, a.cl, a.backlog)
  BY <1>2, RecFields
<1>4. /\ z = Rec(x.table, x.new, z.conn, z.free, x.ep, x.listenOn, x.cl, x.backlog)
      /\ Inv(z, p, {}) /\ z.free # <<>>
      /\ w.conn = z.conn /\ w.free = z.free
  <2>1. CASE x.free = <<>>
    <3>1. z = Grow(x) /\ w = Grow(a)
      BY <1>3, <2>1 DEF Room
    <3> HIDE DEF w
    <3>2. /\ Inv(z, p, {}) /\ z.free # <<>> /\ z.free = MoreFree(x) /\ z.conn = MoreConn(x)
          /\ z = Rec(x.table, x.new, z.conn, z.free, x.ep, x.listenOn, x.cl, x.backlog)
      <4>1. GrownAs(x, p, z)
        BY <2>1, <3>1, GrowStep
      <4> QED
        BY <4>1 DEF GrownAs
    <3>3. w = Rec(a.table, a.new, MoreConn(a), MoreFree(a), a.ep, a.listenOn, a.cl, a.backlog)
      BY <1>3, <3>1, GrowFields
    <3>4. w.conn = MoreConn(a) /\ w.free = MoreFree(a)
      BY <3>3, RecFields
    <3>5. MoreConn(a) = MoreConn(x) /\ MoreFree(a) = MoreFree(x)
      BY <1>3 DEF MoreConn, MoreFree
    <3> QED
      BY <3>2, <3>4, <3>5
  <2>2. CASE x.free # <<>>
    <3>1. z = x /\ w = a
      BY <1>3, <2>2 DEF Room
    <3> QED
      BY <1>1, <1>3, <2>2, <3>1 DEF Shape
  <2> QED
    BY <2>1, <2>2
<1>5. g = Rec(a.table, a.new, [w.conn EXCEPT ![Head(w.free)] = Fresh(fd)], Tail(w.free), a.ep, a.listenOn,
              a.cl, a.backlog)
  BY <1>3, GetFields DEF a
<1> HIDE DEF w
<1> DEFINE co == [z.conn EXCEPT ![k] = Fresh(fd)]
           fr == Tail(z.free)
<1>6. g = Rec(x.table, x.new, co, fr, x.ep, x.listenOn, cl, ba)
  BY <1>3, <1>4, <1>5
<1> HIDE DEF co, fr
<1>7. /\ g.table = x.table /\ g.new = x.new /\ g.conn = co /\ g.free = fr /\ g.ep = x.ep
      /\ g.listenOn = x.listenOn /\ g.cl = cl /\ g.backlog = ba
      /\ g = Rec(g.table, g.new, g.conn, g.free, g.ep, g.listenOn, g.cl, g.backlog)
  BY <1>6, RecFields
<1> DEFINE t == [x.table EXCEPT ![x.new] = H!Insert(x.table[x.new], fd, k)]
           e == P!EpollAdd(x.ep, fd, "read")
           r == Named(Fresh(fd), x.new)
           o == [z.conn EXCEPT ![k] = r]
<1>8. Entered(g, k, fd) = Rec(t, x.new, [co EXCEPT ![k] = Named(co[k], x.new)], fr, e, x.listenOn, cl, ba)
  <2>1. Entered(g, k, fd) = EnteredRec(g, k, fd)
    BY <1>7, EnteredFields
  <2> QED
    BY <1>7, <2>1 DEF EnteredRec
<1>9. [co EXCEPT ![k] = Named(co[k], x.new)] = o
  <2>1. z.conn \in Seq(ConnRec)
    BY <1>4 DEF Inv, Shape
  <2> DEFINE f == Fresh(fd)
             q == z.conn
  <2> HIDE DEF f, r
  <2>2. co = [q EXCEPT ![k] = f] /\ q = [i \in DOMAIN q |-> q[i]] /\ k \in DOMAIN q
    BY <2>1 DEF co, f
  <2> HIDE DEF q
  <2>3. co = [i \in DOMAIN q |-> IF i = k THEN f ELSE q[i]]
    BY <2>2
  <2>4. co[k] = f /\ DOMAIN co = DOMAIN q /\ \A i \in DOMAIN q : i # k => co[i] = q[i]
    BY <2>2, <2>3
  <2>5. r = Named(co[k], x.new)
    BY <2>4 DEF r, f
  <2>6. [co EXCEPT ![k] = r] = [i \in DOMAIN q |-> IF i = k THEN r ELSE q[i]]
    BY <2>3, <2>4
  <2>7. [q EXCEPT ![k] = r] = [i \in DOMAIN q |-> IF i = k THEN r ELSE q[i]]
    BY <2>2
  <2> QED
    BY <2>5, <2>6, <2>7 DEF q
<1> HIDE DEF t, e, o, r
<1>10. Entered(g, k, fd) = Rec(t, x.new, o, fr, e, x.listenOn, cl, ba)
  BY <1>8, <1>9
<1>11. z.new = x.new /\ z.listenOn = x.listenOn /\ z.cl = x.cl /\ z.backlog = x.backlog
  BY <1>4, RecFields
<1>12. Opened(z, role, c, Welcomed(x.cl[c], fd), k, r, t, e) = Rec(t, x.new, o, fr, e, x.listenOn, cl, ba)
  BY <1>11 DEF Opened, o, fr, cl, ba
<1> QED
  BY <1>4, <1>7, <1>10, <1>12 DEF t, e, r, co, OpensAs

\* What is polled and filed with the accepted socket.
LEMMA OpenParts ==
  ASSUME NEW x, NEW p, Inv(x, p, {}), NEW fd \in ClientFd, \A d \in Client : x.cl[d].sock # fd,
         NEW k \in Nat, NEW t, t = [x.table EXCEPT ![x.new] = H!Insert(x.table[x.new], fd, k)],
         NEW e, e = P!EpollAdd(x.ep, fd, "read"), NEW full, full = H!IsFull(New(x))
  PROVE  MoreInterest(e, x.ep, fd) /\ MoreTables(t, x, fd, k, full) /\ (full => t = x.table) /\ full \in BOOLEAN
<1>1. Shape(x) /\ Sockets(x) /\ Tables(x)
  BY DEF Inv
<1>2. MoreInterest(e, x.ep, fd)
  <2>1. /\ x.ep = [interest |-> x.ep.interest, pending |-> x.ep.pending]
        /\ x.ep.interest \in [DOMAIN x.ep.interest -> {"read", "write"}]
    BY <1>1 DEF Shape
  <2> DEFINE a == x.ep.interest
             b == [f \in DOMAIN a \cup {fd} |-> IF f = fd THEN "read" ELSE a[f]]
  <2>2. e = [x.ep EXCEPT !.interest = b]
    BY DEF P!EpollAdd
  <2>3. /\ b \in [DOMAIN b -> {"read", "write"}] /\ DOMAIN b = DOMAIN a \cup {fd} /\ b[fd] = "read"
        /\ \A f \in DOMAIN a : f # fd => b[f] = a[f]
    BY <2>1
  <2> HIDE DEF b
  <2>4. e.interest = b /\ e = [interest |-> e.interest, pending |-> e.pending]
    BY <2>1, <2>2
  <2> QED
    BY <2>3, <2>4 DEF MoreInterest
<1>3. fd \in Nat /\ fd # NoSock
  BY Descriptors
<1>4. \A i \in 1 .. 2 : fd \notin HP!Keys(x.table[i])
  BY <1>1, <1>3 DEF Tables, Sockets
<1>5. x.table = [i \in 1 .. 2 |-> x.table[i]] /\ x.new \in 1 .. 2
  BY <1>1 DEF Shape
<1>6. HP!Well(x.table[1], Nat) /\ HP!Well(x.table[2], Nat)
  BY <1>1 DEF Tables
<1> DEFINE h == x.table[x.new]
           i == H!Insert(h, fd, k)
<1>7. full = HP!IsFull(h) /\ i = HP!Insert(h, fd, k) /\ HP!Well(h, Nat) /\ fd \notin HP!Keys(h)
  BY <1>4, <1>5, <1>6, SameTable DEF New
<1>8. t = [j \in 1 .. 2 |-> IF j = x.new THEN i ELSE x.table[j]]
  BY <1>5
<1>9. full \in BOOLEAN
  BY <1>7 DEF HP!IsFull
<1> HIDE DEF i
<1>10. CASE full
  <2>1. i = h
    BY <1>7, <1>10 DEF HP!Insert
  <2>2. t = x.table
    BY <1>5, <1>8, <2>1
  <2> QED
    BY <1>2, <1>5, <1>6, <1>9, <1>10, <2>2 DEF MoreTables
<1>11. CASE ~full
  <2>1. /\ HP!Well(i, Nat) /\ HP!Keys(i) = HP!Keys(h) \cup {fd} /\ HP!Lookup(i, fd) = k
        /\ \A b \in HP!Keys(h) : HP!Lookup(i, b) = HP!Lookup(h, b)
    BY <1>3, <1>7, <1>11, HP!InsertMap
  <2>2. /\ t = [j \in 1 .. 2 |-> t[j]] /\ t[x.new] = i
        /\ \A j \in 1 .. 2 : j # x.new => t[j] = x.table[j]
    BY <1>5, <1>8
  <2>3. ASSUME NEW j \in 1 .. 2
        PROVE  /\ HP!Well(t[j], Nat)
               /\ HP!Keys(t[j]) = IF j = x.new /\ ~full THEN HP!Keys(x.table[j]) \cup {fd} ELSE HP!Keys(x.table[j])
               /\ \A b \in HP!Keys(x.table[j]) : HP!Lookup(t[j], b) = HP!Lookup(x.table[j], b)
    <3>1. CASE j = x.new
      BY <1>11, <2>1, <2>2, <3>1
    <3>2. CASE j # x.new
      BY <1>6, <1>11, <2>2, <3>2
    <3> QED
      BY <3>1, <3>2
  <2>4. HP!Lookup(t[x.new], fd) = k
    BY <2>1, <2>2
  <2>5. MoreTables(t, x, fd, k, full)
    BY <2>2, <2>3, <2>4 DEF MoreTables
  <2> QED
    BY <1>2, <1>9, <1>11, <2>5
<1> QED
  BY <1>9, <1>10, <1>11

\* x with the record of one client and the backlogs replaced.
Spoken(x, c, u, b) ==
  Rec(x.table, x.new, x.conn, x.free, x.ep, x.listenOn, [x.cl EXCEPT ![c] = u], b)

\* What a client and the kernel can do to the client's record.
Speakable(x, c, u, b) ==
  /\ c \in Client /\ u \in ClientRec /\ b \in [Roles -> Seq(Client)]
  /\ u.sock = x.cl[c].sock /\ (u.st = "open" <=> x.cl[c].st = "open")
  /\ u.sock # NoSock => u.rcvd = x.cl[c].rcvd /\ u.got = x.cl[c].got

\* A client does something: the server's side of it is as it was.
LEMMA ClientStep ==
  ASSUME NEW x, NEW p, Inv(x, p, {}), NEW c, NEW u, NEW b, Speakable(x, c, u, b),
         NEW y, y = Spoken(x, c, u, b), Queued(y)
  PROVE  Inv(y, p, {}) /\ Kept(x, y) /\ Live(y) = Live(x) /\ y.table = x.table
<1> USE DEF Speakable
<1>1. /\ Shape(x) /\ Pool(x) /\ Sockets(x) /\ Tables(x) /\ Polled(x, p)
      /\ \A l \in Live(x) : Held(x, l) /\ Follows(x, l)
  BY DEF Inv
<1> DEFINE cl == [x.cl EXCEPT ![c] = u]
<1>2. y = Rec(x.table, x.new, x.conn, x.free, x.ep, x.listenOn, cl, b)
  BY DEF Spoken
<1> HIDE DEF cl
<1>3. /\ y.table = x.table /\ y.new = x.new /\ y.conn = x.conn /\ y.free = x.free /\ y.ep = x.ep
      /\ y.listenOn = x.listenOn /\ y.cl = cl /\ y.backlog = b
      /\ y = Rec(y.table, y.new, y.conn, y.free, y.ep, y.listenOn, y.cl, y.backlog)
  BY <1>2, RecFields
<1>4. y.cl \in [Client -> ClientRec] /\ y.cl[c] = u /\ \A d \in Client : d # c => y.cl[d] = x.cl[d]
  <2>1. x.cl \in [Client -> ClientRec] /\ y.cl = [x.cl EXCEPT ![c] = u]
    BY <1>1, <1>3 DEF Shape, cl
  <2> QED
    BY <2>1
<1>5. Shape(y)
  <2>1. /\ x.table = [i \in 1 .. 2 |-> x.table[i]] /\ x.new \in 1 .. 2
        /\ x.conn \in Seq(ConnRec) /\ x.free \in Seq(Nat)
        /\ x.ep = [interest |-> x.ep.interest, pending |-> x.ep.pending]
        /\ x.ep.interest \in [DOMAIN x.ep.interest -> {"read", "write"}]
        /\ x.listenOn \in BOOLEAN
    BY <1>1 DEF Shape
  <2> QED
    BY <1>3, <1>4, <2>1 DEF Shape
<1>6. KeepSockets(x, y)
  BY <1>3, <1>4 DEF KeepSockets
<1>7. Sockets(y) /\ Live(y) = Live(x) /\ Fds(y) = Fds(x)
  BY <1>1, <1>6, SameSockets
<1>8. Pool(y) /\ Tables(y)
  BY <1>1, <1>3 DEF Pool, Tables
<1>9. Polled(y, p)
  BY <1>1, <1>3, <1>7 DEF Polled
<1>10. ASSUME NEW l \in Live(y)
       PROVE  Held(y, l) /\ Follows(y, l)
  <2>1. Held(y, l)
    BY <1>1, <1>3, <1>7 DEF Held, Filed
  <2>2. l \in Live(x) /\ Follows(x, l) /\ x.conn[l].sock # NoSock
    BY <1>1, <1>7 DEF Live
  <2>3. ASSUME NEW d \in Client, y.cl[d].sock = y.conn[l].sock
        PROVE  InStream(y.conn[l], d, y.cl[d])
    <3>1. x.cl[d].sock = x.conn[l].sock /\ y.conn[l] = x.conn[l]
      BY <1>3, <1>4, <2>3
    <3>2. InStream(x.conn[l], d, x.cl[d])
      BY <2>2, <3>1 DEF Follows
    <3>3. y.cl[d].rcvd = x.cl[d].rcvd /\ y.cl[d].got = x.cl[d].got
      BY <1>4, <2>2, <3>1
    <3> QED
      BY <3>1, <3>2, <3>3 DEF InStream
  <2> QED
    BY <2>1, <2>3 DEF Follows
<1>11. Kept(x, y)
  BY <1>3 DEF Kept
<1> QED
  BY <1>3, <1>5, <1>7, <1>8, <1>9, <1>10, <1>11 DEF Inv

\* A client that the rate limiter refuses is out of the backlog.
LEMMA RefuseStep ==
  ASSUME NEW x, NEW p, Inv(x, p, {}), NEW role \in Roles, x.backlog[role] # <<>>,
         NEW y, y = Refused(x, role)
  PROVE  Inv(y, p, {}) /\ Kept(x, y)
<1> DEFINE c == Head(x.backlog[role])
           ba == [x.backlog EXCEPT ![role] = Tail(x.backlog[role])]
           cl == [x.cl EXCEPT ![c] = Dropped]
<1>1. Shape(x) /\ Queued(x) /\ Sockets(x)
  BY DEF Inv
<1>2. y = [x EXCEPT !.backlog = ba, !.cl = cl]
  BY DEF Refused
<1>3. x = Rec(x.table, x.new, x.conn, x.free, x.ep, x.listenOn, x.cl, x.backlog)
  BY <1>1 DEF Shape
<1> HIDE DEF ba, cl, c
<1>4. y = Rec(x.table, x.new, x.conn, x.free, x.ep, x.listenOn, cl, ba)
  BY <1>2, <1>3 DEF Rec
<1>5. y.cl = cl /\ y.backlog = ba
  BY <1>4, RecFields
<1>6. Dropped \in ClientRec /\ Dropped.rcvd <= Dropped.sent /\ Dropped.st \notin {"idle", "queued"}
  BY DroppedRec
<1>7. Leaves(x, y, role, c, Dropped)
  BY <1>5, <1>6 DEF Leaves, cl, ba, c
<1>8. c \in Client /\ x.cl[c].st = "queued" /\ y.backlog \in [Roles -> Seq(Client)] /\ Queued(y)
  BY <1>1, <1>7, Dequeued
<1>9. x.cl[c].sock = NoSock
  BY <1>1, <1>8 DEF Sockets
<1>10. Speakable(x, c, Dropped, ba)
  BY <1>5, <1>8, <1>9, DroppedRec DEF Speakable
<1>11. y = Spoken(x, c, Dropped, ba)
  BY <1>4 DEF Spoken, cl
<1> QED
  BY <1>8, <1>10, <1>11, ClientStep

Gained(x, y, fd) ==
  /\ y.new = x.new /\ \A i \in 1 .. 2 : fd \notin HP!Keys(x.table[i])
  /\ HP!Keys(y.table[x.new]) = HP!Keys(x.table[x.new]) \cup {fd}
  /\ HP!Keys(y.table[3 - x.new]) = HP!Keys(x.table[3 - x.new])

LEMMA FreshRec ==
  ASSUME NEW fd \in ClientFd, NEW id \in 1 .. 2, NEW r, r = Named(Fresh(fd), id)
  PROVE  /\ r \in ConnRec /\ r.sock = fd /\ r.id = id /\ r.state = "Receiving" /\ r.reader = <<>> /\ r.tx = 0
         /\ Fresh(fd).sock = fd
<1>1. r = [sock |-> fd, state |-> "Receiving", reader |-> <<>>, tx |-> 0, id |-> id]
  BY DEF Named, Fresh, NewConn
<1>2. Fresh(fd).sock = fd
  BY DEF Fresh, NewConn
<1>3. fd \in Sock /\ <<>> \in Seq(Client \X Nat) /\ 0 \in 0 .. RespUnits /\ id \in 0 .. 2
  BY DEF Sock, RespUnits
<1> QED
  BY <1>1, <1>2, <1>3 DEF ConnRec

LEMMA WelcomedRec ==
  ASSUME NEW u \in ClientRec, NEW fd \in ClientFd, NEW v, v = Welcomed(u, fd)
  PROVE  /\ v \in ClientRec /\ v.st = "open" /\ v.sock = fd /\ v.rcvd = u.rcvd /\ v.got = u.got
         /\ v.sent = u.sent
<1>1. fd \in Sock
  BY DEF Sock
<1> QED
  BY <1>1 DEF Welcomed, ClientRec

\* What AcceptConnection does, whoever is at the head of the backlog and
\* however full pool and table are.
LEMMA AcceptStep ==
  ASSUME NEW x, NEW p, p \cap ClientFd = {}, Inv(x, p, {}), NEW role \in Roles,
         NEW accept, NEW pass, NEW y, y = AcceptConnection(x, role, accept, pass)
  PROVE  Inv(y, p, {}) /\ (Kept(x, y) \/ \E fd \in ClientFd : Gained(x, y, fd))
<1> DEFINE fd == LowestFree(x)
           g == GetConnection(Accepted(x, role, fd), fd)
           k == CHOOSE i \in Live(g) : g.conn[i].sock = fd
           w == Entered(g, k, fd)
           full == H!IsFull(New(x))
<1>1. y = IF x.backlog[role] = <<>> THEN x
          ELSE IF ~accept THEN Refused(x, role)
          ELSE IF full THEN CloseConnection(w, k)
          ELSE ReceiveBytesForConnection(w, k, pass)
  BY DEF AcceptConnection
<1>2. CASE x.backlog[role] = <<>>
  BY <1>1, <1>2 DEF Kept
<1>3. CASE x.backlog[role] # <<>> /\ ~accept
  BY <1>1, <1>3, RefuseStep
<1>4. CASE x.backlog[role] # <<>> /\ accept
  <2> DEFINE c == Head(x.backlog[role])
             z == Room(x)
             m == Head(z.free)
             u == Welcomed(x.cl[c], fd)
             r == Named(Fresh(fd), x.new)
             t == [x.table EXCEPT ![x.new] = H!Insert(x.table[x.new], fd, m)]
             e == P!EpollAdd(x.ep, fd, "read")
  <2>1. Shape(x) /\ Queued(x) /\ Sockets(x)
    BY DEF Inv
  <2>2. c \in Client /\ x.cl[c].sock = NoSock /\ x.cl[c] \in ClientRec
    <3>1. x.backlog[role] \in Seq(Client) /\ x.cl \in [Client -> ClientRec]
      BY <2>1 DEF Shape
    <3>2. c \in Client /\ c = x.backlog[role][1] /\ 1 \in DOMAIN x.backlog[role]
      BY <1>4, <3>1, TailOf
    <3> HIDE DEF c
    <3>3. x.cl[c].st = "queued"
      BY <2>1, <3>2 DEF Queued
    <3> QED
      BY <2>1, <3>1, <3>2, <3>3 DEF Sockets
  <2> HIDE DEF c, fd, k, full, z, g
  <2>3. fd \in ClientFd /\ \A d \in Client : x.cl[d].sock # fd
    BY <2>1, <2>2, LowestFd DEF fd
  <2>4. m \in DOMAIN z.conn /\ z.free # <<>>
    <3>1. Inv(z, p, {}) /\ z.free # <<>>
      <4>1. CASE x.free = <<>>
        <5>1. z = Grow(x)
          BY <4>1 DEF z, Room
        <5> QED
          BY <4>1, <5>1, GrowStep DEF GrownAs
      <4>2. CASE x.free # <<>>
        BY <4>2 DEF z, Room
      <4> QED
        BY <4>1, <4>2
    <3>2. z.free \in Seq(Nat) /\ Pool(z)
      BY <3>1 DEF Inv, Shape
    <3>3. m = z.free[1] /\ 1 \in DOMAIN z.free
      BY <3>1, <3>2, TailOf
    <3> QED
      BY <3>1, <3>2, <3>3 DEF Pool
  <2>5. /\ g.conn = [z.conn EXCEPT ![m] = Fresh(fd)]
        /\ Entered(g, m, fd) = Opened(z, role, c, u, m, r, t, e)
        /\ z = Rec(x.table, x.new, z.conn, z.free, x.ep, x.listenOn, x.cl, x.backlog)
        /\ Inv(z, p, {})
    <3>1. c = Head(x.backlog[role]) /\ z = Room(x) /\ g = GetConnection(Accepted(x, role, fd), fd)
      BY DEF c, z, g
    <3>2. Opening(x, p, role, c, fd, z, m, g)
      BY <2>2, <2>4, <3>1 DEF Opening
    <3>3. OpensAs(x, p, role, c, fd, z, m, g)
      BY <3>2, OpenFields
    <3> QED
      BY <3>3 DEF OpensAs
  <2>6. /\ z.table = x.table /\ z.new = x.new /\ z.ep = x.ep /\ z.cl = x.cl /\ z.backlog = x.backlog
    BY <2>5, RecFields
  <2>7. x.new \in 1 .. 2
    BY <2>1 DEF Shape
  <2>8. z.conn \in Seq(ConnRec) /\ Sockets(z) /\ m \in Nat
    <3>1. Shape(z) /\ Sockets(z)
      BY <2>5 DEF Inv
    <3>2. z.conn \in Seq(ConnRec)
      BY <3>1 DEF Shape
    <3> QED
      BY <2>4, <3>1, <3>2
  <2>9. /\ r \in ConnRec /\ r.sock = fd /\ r.id = x.new /\ r.state = "Receiving" /\ r.reader = <<>> /\ r.tx = 0
        /\ Fresh(fd).sock = fd
    BY <2>3, <2>7, FreshRec
  <2>10. u \in ClientRec /\ u.st = "open" /\ u.sock = fd /\ u.rcvd = x.cl[c].rcvd /\ u.got = x.cl[c].got
         /\ u.sent = x.cl[c].sent
    BY <2>2, <2>3, WelcomedRec
  <2>11. fd # NoSock
    BY <2>3, Descriptors
  <2>12. k = m
    <3>1. \A l \in DOMAIN z.conn : z.conn[l].sock # fd
      BY <2>3, <2>6, <2>8, <2>11 DEF Sockets
    <3>2. DOMAIN g.conn = DOMAIN z.conn /\ g.conn[m] = Fresh(fd) /\ \A l \in DOMAIN z.conn : l # m => g.conn[l] = z.conn[l]
      BY <2>4, <2>5, <2>8
    <3>3. m \in Live(g) /\ \A l \in Live(g) : g.conn[l].sock = fd => l = m
      BY <2>4, <2>9, <2>11, <3>1, <3>2 DEF Live
    <3>4. g.conn[m].sock = fd
      BY <2>9, <3>2
    <3> QED
      BY <3>3, <3>4 DEF k
  <2> HIDE DEF m, u, r, t, e
  <2>13. MoreInterest(e, x.ep, fd) /\ MoreTables(t, x, fd, m, full) /\ (full => t = x.table) /\ full \in BOOLEAN
    <3>1. /\ t = [x.table EXCEPT ![x.new] = H!Insert(x.table[x.new], fd, m)]
          /\ e = P!EpollAdd(x.ep, fd, "read") /\ full = H!IsFull(New(x))
      BY DEF t, e, full
    <3> QED
      BY <2>3, <2>8, <3>1, OpenParts
  <2>14. Openable(z, p, role, c, u, m, r, t, e, fd, full)
    <3>1. MoreTables(t, z, fd, m, full)
      BY <2>6, <2>13 DEF MoreTables
    <3>2. z.backlog[role] # <<>> /\ c = Head(z.backlog[role]) /\ m = Head(z.free)
      BY <1>4, <2>6 DEF c, m
    <3> QED
      BY <2>3, <2>4, <2>5, <2>6, <2>9, <2>10, <2>13, <3>1, <3>2 DEF Openable
  <2>15. w = Opened(z, role, c, u, m, r, t, e)
    BY <2>5, <2>12
  <2> HIDE DEF w
  <2>16. /\ Inv(w, p, {m}) /\ (~full => Inv(w, p, {})) /\ m \in Live(w) /\ w.conn[m] = r
         /\ w.new = x.new /\ w.table = t /\ \A i \in 1 .. 2 : fd \notin HP!Keys(x.table[i])
    <3>1. Opens(z, p, m, r, t, fd, full, w)
      BY <2>14, <2>15, OpenStep
    <3> QED
      BY <2>6, <3>1 DEF Opens
  <2>17. CASE full
    <3>1. y = CloseConnection(w, m) /\ fd = w.conn[m].sock
      BY <1>1, <1>4, <2>9, <2>12, <2>16, <2>17
    <3>2. Inv(y, p, {}) /\ y.new = w.new /\ \A i \in 1 .. 2 : HP!Keys(y.table[i]) = HP!Keys(w.table[i]) \ {fd}
      <4>1. Closable(w, p, m, fd, y)
        BY <2>16, <3>1 DEF Closable
      <4> QED
        BY <4>1, CloseStep DEF IsClosed
    <3>3. Kept(x, y)
      BY <2>13, <2>16, <2>17, <3>2 DEF Kept
    <3> QED
      BY <3>2, <3>3
  <2>18. CASE ~full
    <3>1. y = ReceiveBytesForConnection(w, m, pass) /\ fd = w.conn[m].sock /\ w.conn[m].state = "Receiving"
      BY <1>1, <1>4, <2>9, <2>12, <2>16, <2>18
    <3>2. Inv(y, p, {}) /\ (Kept(w, y) \/ Lost(w, y, fd))
      BY <2>16, <2>18, <3>1, ReceiveStep
    <3>3. /\ HP!Keys(t[x.new]) = HP!Keys(x.table[x.new]) \cup {fd}
          /\ HP!Keys(t[3 - x.new]) = HP!Keys(x.table[3 - x.new])
          /\ 3 - x.new \in 1 .. 2
      BY <2>1, <2>7, <2>13, <2>18, NewOld DEF MoreTables
    <3>4. CASE Kept(w, y)
      <4>1. Gained(x, y, fd)
        BY <2>7, <2>16, <3>3, <3>4 DEF Gained, Kept
      <4> QED
        BY <2>3, <3>2, <4>1
    <3>5. CASE Lost(w, y, fd)
      <4>1. ASSUME NEW i \in 1 .. 2
            PROVE  HP!Keys(y.table[i]) = HP!Keys(x.table[i])
        <5>1. HP!Keys(y.table[i]) = HP!Keys(t[i]) \ {fd} /\ fd \notin HP!Keys(x.table[i])
          BY <2>16, <3>5 DEF Lost
        <5>2. HP!Keys(t[i]) = HP!Keys(x.table[i]) \/ HP!Keys(t[i]) = HP!Keys(x.table[i]) \cup {fd}
          BY <2>13 DEF MoreTables
        <5> QED
          BY <5>1, <5>2
      <4> QED
        BY <2>16, <3>2, <3>5, <4>1 DEF Kept, Lost
    <3> QED
      BY <3>2, <3>4, <3>5
  <2> QED
    BY <2>13, <2>17, <2>18
<1> QED
  BY <1>2, <1>3, <1>4

-----------------------------------------------------------------------------
(* Closing all the connections of a table. *)

\* Sets have one size.
LEMMA SameCount ==
  ASSUME NEW X
  PROVE  HP!IsFiniteSet(X) = IsFiniteSet(X) /\ HP!Cardinality(X) = Cardinality(X)
BY DEF HP!IsFiniteSet, IsFiniteSet, HP!Cardinality, Cardinality

\* A table has as many keys as it says.
LEMMA TableSize ==
  ASSUME NEW h, HP!Well(h, Nat)
  PROVE  IsFiniteSet(HP!Keys(h)) /\ Cardinality(HP!Keys(h)) = h.size /\ h.size \in Nat
<1>1. HP!IsFiniteSet(HP!Keys(h)) /\ HP!Cardinality(HP!Keys(h)) = h.size
  BY HP!FullMeansSize
<1>2. IsFiniteSet(HP!Keys(h)) /\ Cardinality(HP!Keys(h)) = h.size
  BY <1>1, SameCount
<1> QED
  BY <1>2, FS_CardinalityType

\* x with one table replaced.
Refiled(x, id, g) ==
  Rec([x.table EXCEPT ![id] = g], x.new, x.conn, x.free, x.ep, x.listenOn, x.cl, x.backlog)

SameItems(g, h) ==
  /\ HP!Well(g, Nat) /\ HP!Keys(g) = HP!Keys(h) /\ g.size = h.size
  /\ \A b : HP!Lookup(g, b) = HP!Lookup(h, b)

\* A table that is put in order has the items it had.
LEMMA IndexItems ==
  ASSUME NEW h, HP!Well(h, Nat), NEW g, g = H!Indexed(h)
  PROVE  SameItems(g, h) /\ (h.size > 0 => g.valid)
<1>1. g = HP!Indexed(h)
  BY SameTable
<1>2. /\ HP!Well(g, Nat) /\ HP!Keys(g) = HP!Keys(h) /\ g.size = h.size /\ g.tsize = h.tsize
      /\ g.node = h.node /\ g.chain = h.chain /\ (h.size > 0 => g.valid)
  BY <1>1, HP!IndexedWell
<1>3. \A b : HP!Lookup(g, b) = HP!Lookup(h, b)
  BY <1>2 DEF HP!Lookup, HP!Find, HP!Chain, HP!Places, HP!Hash
<1> QED
  BY <1>2, <1>3 DEF SameItems

\* The item at position 0 of a table that is in order.
LEMMA FirstItem ==
  ASSUME NEW g, HP!Well(g, Nat), g.size > 0, g.valid
  PROVE  \E b \in HP!Keys(g) : b \in Nat /\ H!LookupByIndex(g, 0).value = HP!Lookup(g, b)
<1> DEFINE n == HP!At(g, 0)
<1>1. g.size \in Nat /\ 0 \in 0 .. (g.size - 1)
  BY TableSize
<1>2. n \in HP!Nodes(g)
  BY <1>1 DEF HP!Well, HP!Listed
<1>3. HP!LookupByIndex(g, 0) = g.node[n]
  BY DEF HP!LookupByIndex, HP!Indexed, HP!At
<1>4. H!LookupByIndex(g, 0) = g.node[n]
  BY <1>3, SameTable
<1> HIDE DEF n
<1>5. g.node[n].key \in HP!Keys(g) /\ g.node[n].key \in Nat /\ HP!Lookup(g, g.node[n].key) = g.node[n].value
  BY <1>2, HP!LookupNode
<1> QED
  BY <1>4, <1>5

\* A table is replaced by one with the same items.
LEMMA RefileStep ==
  ASSUME NEW x, NEW p, Inv(x, p, {}), NEW id \in 1 .. 2, NEW g, SameItems(g, x.table[id]),
         NEW y, y = Refiled(x, id, g)
  PROVE  /\ Inv(y, p, {}) /\ y.new = x.new /\ y.conn = x.conn /\ Live(y) = Live(x) /\ y.table[id] = g
         /\ \A i \in 1 .. 2 : i # id => y.table[i] = x.table[i]
<1>1. /\ Shape(x) /\ Pool(x) /\ Sockets(x) /\ Queued(x) /\ Tables(x) /\ Polled(x, p)
      /\ \A l \in Live(x) : Held(x, l) /\ Follows(x, l)
  BY DEF Inv
<1> DEFINE t == [x.table EXCEPT ![id] = g]
<1>2. y = Rec(t, x.new, x.conn, x.free, x.ep, x.listenOn, x.cl, x.backlog)
  BY DEF Refiled
<1> HIDE DEF t
<1>3. /\ y.table = t /\ y.new = x.new /\ y.conn = x.conn /\ y.free = x.free /\ y.ep = x.ep
      /\ y.listenOn = x.listenOn /\ y.cl = x.cl /\ y.backlog = x.backlog
      /\ y = Rec(y.table, y.new, y.conn, y.free, y.ep, y.listenOn, y.cl, y.backlog)
  BY <1>2, RecFields
<1>4. y.table = [i \in 1 .. 2 |-> y.table[i]] /\ y.table[id] = g /\ \A i \in 1 .. 2 : i # id => y.table[i] = x.table[i]
  <2>1. x.table = [i \in 1 .. 2 |-> x.table[i]]
    BY <1>1 DEF Shape
  <2>2. t = [i \in 1 .. 2 |-> IF i = id THEN g ELSE x.table[i]]
    BY <2>1 DEF t
  <2> QED
    BY <1>3, <2>2
<1>5. \A i \in 1 .. 2 : /\ HP!Well(y.table[i], Nat) /\ HP!Keys(y.table[i]) = HP!Keys(x.table[i])
                        /\ \A b : HP!Lookup(y.table[i], b) = HP!Lookup(x.table[i], b)
  BY <1>1, <1>4 DEF SameItems, Tables
<1>6. Live(y) = Live(x)
  BY <1>3 DEF Live
<1>7. Shape(y)
  <2>1. /\ x.new \in 1 .. 2
        /\ x.conn \in Seq(ConnRec) /\ x.free \in Seq(Nat)
        /\ x.ep = [interest |-> x.ep.interest, pending |-> x.ep.pending]
        /\ x.ep.interest \in [DOMAIN x.ep.interest -> {"read", "write"}]
        /\ x.listenOn \in BOOLEAN /\ x.cl \in [Client -> ClientRec] /\ x.backlog \in [Roles -> Seq(Client)]
    BY <1>1 DEF Shape
  <2> QED
    BY <1>3, <1>4, <2>1 DEF Shape
<1>8. Pool(y) /\ Sockets(y) /\ Queued(y)
  BY <1>1, <1>3 DEF Pool, Sockets, Queued
<1>9. Tables(y)
  BY <1>1, <1>3, <1>5 DEF Tables
<1>10. Polled(y, p)
  <2>1. Fds(y) = Fds(x)
    BY <1>3, <1>6 DEF Fds
  <2> QED
    BY <1>1, <1>3, <2>1 DEF Polled
<1>11. ASSUME NEW l \in Live(y)
       PROVE  Held(y, l) /\ Follows(y, l)
  <2>1. l \in Live(x) /\ l \in DOMAIN x.conn /\ Held(x, l) /\ Follows(x, l)
    BY <1>1, <1>6 DEF Live
  <2>2. x.conn[l] \in ConnRec
    BY <1>1, <2>1 DEF Shape
  <2>3. x.conn[l].id \in 1 .. 2
    BY <2>1, <2>2 DEF Held, Filed, ConnRec
  <2>4. Filed(y, l)
    BY <1>3, <1>5, <2>1, <2>3 DEF Held, Filed
  <2> QED
    BY <1>3, <2>1, <2>4 DEF Held, Follows
<1> QED
  BY <1>3, <1>4, <1>6, <1>7, <1>8, <1>9, <1>10, <1>11 DEF Inv

\* Table id of y is table id of x without n items, and all else is in order.
Closing(x, y, p, id, n) ==
  /\ Inv(y, p, {}) /\ y.new = x.new /\ y.table[id].size + n = x.table[id].size
  /\ HP!Keys(y.table[3 - id]) = HP!Keys(x.table[3 - id])

\* One pass of the loop in CloseAllConnections.
LEMMA CloseFirstStep ==
  ASSUME NEW x, NEW p, p \cap ClientFd = {}, Inv(x, p, {}), NEW id \in 1 .. 2, x.table[id].size > 0,
         NEW y, y = CloseFirst(x, id)
  PROVE  Closing(x, y, p, id, 1)
<1> DEFINE h == x.table[id]
           g == H!Indexed(h)
           z == [x EXCEPT !.table[id] = H!Indexed(@)]
           k == H!LookupByIndex(z.table[id], 0).value
<1>1. y = CloseConnection(z, k)
  BY DEF CloseFirst
<1>2. Shape(x) /\ HP!Well(h, Nat)
  BY DEF Inv, Tables
<1>3. z = Refiled(x, id, g)
  <2> DEFINE t == [x.table EXCEPT ![id] = g]
  <2>1. x = Rec(x.table, x.new, x.conn, x.free, x.ep, x.listenOn, x.cl, x.backlog)
    BY <1>2 DEF Shape
  <2>2. z = [x EXCEPT !.table = t]
    OBVIOUS
  <2> HIDE DEF t, z
  <2>3. z = Rec(t, x.new, x.conn, x.free, x.ep, x.listenOn, x.cl, x.backlog)
    BY <2>1, <2>2 DEF Rec
  <2> QED
    BY <2>3 DEF Refiled, t
<1>4. SameItems(g, h) /\ g.valid
  BY <1>2, IndexItems
<1> HIDE DEF g, z, k
<1>5. /\ Inv(z, p, {}) /\ z.new = x.new /\ z.table[id] = g
      /\ \A i \in 1 .. 2 : i # id => z.table[i] = x.table[i]
  BY <1>3, <1>4, RefileStep
<1>6. PICK fd \in HP!Keys(g) : fd \in Nat /\ k = HP!Lookup(g, fd)
  <2>1. HP!Well(g, Nat) /\ g.size > 0
    BY <1>4 DEF SameItems
  <2> QED
    BY <1>4, <1>5, <2>1, FirstItem DEF k
<1>7. k \in Live(z) /\ z.conn[k].sock = fd /\ z.conn[k].id = id
  BY <1>5, <1>6, FoundObject
<1>8. Inv(z, p, {k})
  BY <1>5 DEF Inv
<1>9. Inv(y, p, {}) /\ y.new = z.new /\ \A i \in 1 .. 2 : HP!Keys(y.table[i]) = HP!Keys(z.table[i]) \ {fd}
  <2>1. Closable(z, p, k, fd, y)
    BY <1>1, <1>7, <1>8 DEF Closable
  <2> QED
    BY <2>1, CloseStep DEF IsClosed
<1>10. 3 - id \in 1 .. 2 /\ 3 - id # id
  OBVIOUS
<1>11. fd \notin HP!Keys(z.table[3 - id])
  <2> SUFFICES ASSUME fd \in HP!Keys(z.table[3 - id])
               PROVE  FALSE
    OBVIOUS
  <2>1. PICK l \in Live(z) : z.conn[l].sock = fd /\ z.conn[l].id = 3 - id
    BY <1>5, <1>6, <1>10, FoundObject
  <2>2. l = k
    BY <1>5, <1>7, <2>1 DEF Inv, Sockets, Live
  <2> QED
    BY <1>7, <1>10, <2>1, <2>2
<1>12. HP!Keys(y.table[3 - id]) = HP!Keys(x.table[3 - id])
  <2>1. HP!Keys(y.table[3 - id]) = HP!Keys(z.table[3 - id]) \ {fd}
    BY <1>9, <1>10
  <2>2. z.table[3 - id] = x.table[3 - id]
    BY <1>5, <1>10
  <2> QED
    BY <1>11, <2>1, <2>2
<1>13. y.table[id].size + 1 = h.size
  <2>1. HP!Well(y.table[id], Nat) /\ HP!Keys(y.table[id]) = HP!Keys(h) \ {fd} /\ fd \in HP!Keys(h)
    <3>1. HP!Keys(g) = HP!Keys(h)
      BY <1>4 DEF SameItems
    <3> QED
      BY <1>5, <1>6, <1>9, <3>1 DEF Inv, Tables
  <2>2. IsFiniteSet(HP!Keys(h)) /\ Cardinality(HP!Keys(h)) = h.size /\ h.size \in Nat
    BY <1>2, TableSize
  <2>3. Cardinality(HP!Keys(y.table[id])) = y.table[id].size
    BY <2>1, TableSize
  <2> DEFINE K == HP!Keys(h)
  <2> HIDE DEF K
  <2>4. Cardinality(K \ {fd}) = Cardinality(K) - 1
    BY <2>1, <2>2, FS_RemoveElement DEF K
  <2> QED
    BY <2>1, <2>2, <2>3, <2>4 DEF K
<1> QED
  BY <1>5, <1>9, <1>12, <1>13 DEF Closing

\* The passes of the loop in CloseAllConnections, one after the other.
Passes(f, x, id, size) ==
  /\ f[0] = x /\ \A n \in 1 .. size : f[n] = CloseFirst(f[n - 1], id)
  /\ CloseAllConnections(x, id) = f[size]

LEMMA PassesDefined ==
  ASSUME NEW x, NEW id, NEW size \in Nat, size = x.table[id].size
  PROVE  \E f : Passes(f, x, id, size)
<1> DEFINE Val(f, n) == IF n = 0 THEN x ELSE CloseFirst(f[n - 1], id)
           Upto(k) == \E f : f = [n \in 0 .. k |-> Val(f, n)]
           Bad == {k \in 0 .. size : ~Upto(k)}
<1>1. Upto(0)
  <2> DEFINE f == [n \in 0 .. 0 |-> x]
  <2>1. f = [n \in 0 .. 0 |-> Val(f, n)]
    OBVIOUS
  <2> QED
    BY <2>1
<1>2. ASSUME NEW k \in Nat, Upto(k)
      PROVE  Upto(k + 1)
  <2>1. PICK f : f = [n \in 0 .. k |-> Val(f, n)]
    BY <1>2
  <2> DEFINE new == CloseFirst(f[k], id)
             g == [n \in 0 .. k + 1 |-> IF n = k + 1 THEN new ELSE f[n]]
  <2> HIDE DEF Val
  <2>2. ASSUME NEW n \in 0 .. k + 1
        PROVE  g[n] = Val(g, n)
    <3>1. CASE n = k + 1
      <4>1. g[n] = new /\ g[k] = f[k] /\ n - 1 = k /\ n # 0
        <5> HIDE DEF new
        <5> QED
          BY <3>1
      <4> HIDE DEF g
      <4> QED
        BY <4>1 DEF Val
    <3>2. CASE n # k + 1
      <4>1. n \in 0 .. k /\ g[n] = f[n] /\ (n # 0 => g[n - 1] = f[n - 1])
        <5> HIDE DEF new
        <5> QED
          BY <3>2
      <4>2. f[n] = Val(f, n)
        BY <2>1, <4>1
      <4> HIDE DEF g
      <4>3. Val(f, n) = Val(g, n)
        BY <4>1 DEF Val
      <4> QED
        BY <4>1, <4>2, <4>3
    <3> QED
      BY <3>1, <3>2
  <2>3. g = [n \in 0 .. k + 1 |-> Val(g, n)]
    BY <2>2
  <2> QED
    BY <2>3
<1>3. Bad = {}
  <2> HIDE DEF Upto
  <2> SUFFICES ASSUME Bad # {}
               PROVE  FALSE
    OBVIOUS
  <2>1. PICK k \in Bad : \A j \in Bad : k <= j
    <3> Bad \subseteq Nat
      OBVIOUS
    <3> HIDE DEF Bad
    <3> QED
      BY LeastNat
  <2>2. k # 0
    BY <1>1
  <2>3. k - 1 \in Nat /\ k - 1 \notin Bad /\ k - 1 \in 0 .. size
    BY <2>1, <2>2
  <2>4. Upto(k - 1)
    BY <2>3
  <2>5. Upto((k - 1) + 1)
    BY <1>2, <2>3, <2>4
  <2> QED
    BY <2>1, <2>5
<1>4. Upto(size)
  <2> HIDE DEF Upto
  <2> QED
    BY <1>3
<1>5. PICK f : f = [n \in 0 .. size |-> Val(f, n)] /\ CloseAllConnections(x, id) = f[size]
  BY <1>4 DEF CloseAllConnections
<1> HIDE DEF Val
<1>6. \A n \in 0 .. size : f[n] = Val(f, n)
  BY <1>5
<1>7. f[0] = x
  <2>1. f[0] = Val(f, 0)
    BY <1>6
  <2> QED
    BY <2>1 DEF Val
<1>8. \A n \in 1 .. size : f[n] = CloseFirst(f[n - 1], id)
  <2> TAKE n \in 1 .. size
  <2>1. f[n] = Val(f, n) /\ n # 0
    BY <1>6
  <2> QED
    BY <2>1 DEF Val
<1> QED
  BY <1>5, <1>7, <1>8 DEF Passes

Cleared(x, y, p, id) ==
  /\ Inv(y, p, {}) /\ y.new = x.new /\ HP!Keys(y.table[id]) = {}
  /\ HP!Keys(y.table[3 - id]) = HP!Keys(x.table[3 - id])

\* CloseAllConnections empties its table and leaves the other alone.
LEMMA CloseAllStep ==
  ASSUME NEW x, NEW p, p \cap ClientFd = {}, Inv(x, p, {}), NEW id \in 1 .. 2,
         NEW y, y = CloseAllConnections(x, id)
  PROVE  Cleared(x, y, p, id)
<1> DEFINE size == x.table[id].size
<1>1. size \in Nat
  <2>1. HP!Well(x.table[id], Nat)
    BY DEF Inv, Tables
  <2> QED
    BY <2>1, TableSize
<1>n. size = x.table[id].size
  OBVIOUS
<1> HIDE DEF size
<1>2. PICK f : Passes(f, x, id, size)
  BY <1>1, <1>n, PassesDefined
<1>3. /\ f[0] = x /\ \A n \in 1 .. size : f[n] = CloseFirst(f[n - 1], id)
      /\ y = f[size]
  BY <1>2 DEF Passes
<1> DEFINE Bad == {n \in 0 .. size : ~Closing(x, f[n], p, id, n)}
<1>4. Closing(x, f[0], p, id, 0)
  BY <1>1, <1>3, <1>n DEF Closing
<1>5. ASSUME NEW n \in 1 .. size, Closing(x, f[n - 1], p, id, n - 1)
      PROVE  Closing(x, f[n], p, id, n)
  <2> DEFINE z == f[n - 1]
             w == f[n]
  <2>1. /\ Inv(z, p, {}) /\ z.new = x.new /\ z.table[id].size + (n - 1) = size
        /\ HP!Keys(z.table[3 - id]) = HP!Keys(x.table[3 - id])
    BY <1>5, <1>n DEF Closing
  <2>2. w = CloseFirst(z, id)
    BY <1>3
  <2> HIDE DEF z, w
  <2>3. HP!Well(z.table[id], Nat)
    BY <2>1 DEF Inv, Tables
  <2>4. z.table[id].size \in Nat
    BY <2>3, TableSize
  <2>5. z.table[id].size > 0
    BY <1>1, <2>1, <2>4
  <2>6. Closing(z, w, p, id, 1)
    BY <2>1, <2>2, <2>5, CloseFirstStep
  <2>7. HP!Well(w.table[id], Nat)
    BY <2>6 DEF Closing, Inv, Tables
  <2>8. w.table[id].size \in Nat /\ w.table[id].size + 1 = z.table[id].size
    BY <2>6, <2>7, TableSize DEF Closing
  <2>9. w.table[id].size + n = size
    BY <1>1, <2>1, <2>4, <2>8
  <2>10. Closing(x, w, p, id, n)
    BY <1>n, <2>1, <2>6, <2>9 DEF Closing
  <2> QED
    BY <2>10 DEF w
<1>6. Bad = {}
  <2> SUFFICES ASSUME Bad # {}
               PROVE  FALSE
    OBVIOUS
  <2>1. PICK n \in Bad : \A j \in Bad : n <= j
    <3> Bad \subseteq Nat
      OBVIOUS
    <3> HIDE DEF Bad
    <3> QED
      BY LeastNat
  <2>2. n # 0
    BY <1>4
  <2>3. n \in 1 .. size /\ n - 1 \notin Bad /\ n - 1 \in 0 .. size
    BY <1>1, <2>1, <2>2
  <2> QED
    BY <1>5, <2>3
<1>7. Closing(x, y, p, id, size)
  BY <1>1, <1>3, <1>6
<1>8. HP!Well(y.table[id], Nat)
  BY <1>7 DEF Closing, Inv, Tables
<1>9. y.table[id].size \in Nat /\ IsFiniteSet(HP!Keys(y.table[id])) /\ Cardinality(HP!Keys(y.table[id])) = y.table[id].size
  BY <1>8, TableSize
<1>10. y.table[id].size = 0
  BY <1>1, <1>7, <1>9, <1>n DEF Closing
<1>11. HP!Keys(y.table[id]) = {}
  BY <1>9, <1>10, FS_EmptySet
<1> QED
  BY <1>7, <1>11 DEF Closing, Cleared

\* Nothing is live when both tables are empty.
LEMMA NothingLive ==
  ASSUME NEW x, NEW p, Inv(x, p, {}), NEW i \in 1 .. 2, HP!Keys(x.table[i]) = {}, HP!Keys(x.table[3 - i]) = {}
  PROVE  Live(x) = {}
<1> SUFFICES ASSUME NEW k \in Live(x)
             PROVE  FALSE
  OBVIOUS
<1>1. Held(x, k) /\ k \in DOMAIN x.conn /\ x.conn[k] \in ConnRec
  BY DEF Inv, Shape, Live
<1>2. x.conn[k].id \in 1 .. 2
  BY <1>1 DEF Held, Filed, ConnRec
<1>3. x.conn[k].id = i \/ x.conn[k].id = 3 - i
  BY <1>2
<1> QED
  BY <1>1, <1>3 DEF Held, Filed

\* ThreadCleanup closes everything.
LEMMA CleanupStep ==
  ASSUME NEW x, NEW p, p \cap ClientFd = {}, Inv(x, p, {}), NEW y, y = ThreadCleanup(x)
  PROVE  /\ Inv(y, p, {}) /\ Live(y) = {} /\ y.new = x.new
         /\ HP!Keys(y.table[1]) = {} /\ HP!Keys(y.table[2]) = {}
<1> DEFINE a == x.new
           o == 3 - x.new
           z == CloseAllConnections(x, o)
<1>1. Shape(x)
  BY DEF Inv
<1>2. a \in 1 .. 2 /\ o \in 1 .. 2 /\ 3 - o = a /\ 3 - a = o /\ \A i \in 1 .. 2 : i = a \/ i = o
  BY <1>1, NewOld
<1>3. y = CloseAllConnections(z, a)
  BY DEF ThreadCleanup
<1> HIDE DEF z, o, a
<1>4. Inv(z, p, {}) /\ z.new = x.new /\ HP!Keys(z.table[o]) = {}
  <2>1. z = CloseAllConnections(x, o)
    BY DEF z
  <2>2. Cleared(x, z, p, o)
    BY <1>2, <2>1, CloseAllStep
  <2> QED
    BY <2>2 DEF Cleared
<1>5. Inv(y, p, {}) /\ y.new = z.new /\ HP!Keys(y.table[a]) = {} /\ HP!Keys(y.table[3 - a]) = HP!Keys(z.table[3 - a])
  <2>1. Cleared(z, y, p, a)
    BY <1>2, <1>3, <1>4, CloseAllStep
  <2> QED
    BY <2>1 DEF Cleared
<1>6. HP!Keys(y.table[a]) = {} /\ HP!Keys(y.table[o]) = {} /\ HP!Keys(y.table[3 - a]) = {}
  BY <1>2, <1>4, <1>5
<1>7. Live(y) = {}
  BY <1>2, <1>5, <1>6, NothingLive
<1>8. 1 \in 1 .. 2 /\ 2 \in 1 .. 2
  OBVIOUS
<1>9. HP!Keys(y.table[1]) = {} /\ HP!Keys(y.table[2]) = {}
  BY <1>2, <1>6, <1>8
<1> QED
  BY <1>4, <1>5, <1>7, <1>9

Swept(x, y) ==
  /\ y.new = 3 - x.new /\ HP!Keys(y.table[y.new]) = {}
  /\ HP!Keys(y.table[3 - y.new]) = HP!Keys(x.table[x.new])

Swapped(x) == [x EXCEPT !.new = 3 - @]

\* The tables change places.
LEMMA SwapStep ==
  ASSUME NEW x, NEW p, Inv(x, p, {}), NEW y, y = Swapped(x)
  PROVE  Inv(y, p, {}) /\ y.new = 3 - x.new /\ y.table = x.table
<1>1. /\ Shape(x) /\ Pool(x) /\ Sockets(x) /\ Queued(x) /\ Tables(x) /\ Polled(x, p)
      /\ \A l \in Live(x) : Held(x, l) /\ Follows(x, l)
  BY DEF Inv
<1> DEFINE o == 3 - x.new
<1>2. y = [x EXCEPT !.new = o]
  BY DEF Swapped
<1>3. o \in 1 .. 2
  BY <1>1, NewOld
<1> HIDE DEF o
<1>4. x = Rec(x.table, x.new, x.conn, x.free, x.ep, x.listenOn, x.cl, x.backlog)
  BY <1>1 DEF Shape
<1>5. y = Rec(x.table, o, x.conn, x.free, x.ep, x.listenOn, x.cl, x.backlog)
  BY <1>2, <1>4 DEF Rec
<1>6. /\ y.table = x.table /\ y.new = o /\ y.conn = x.conn /\ y.free = x.free /\ y.ep = x.ep
      /\ y.listenOn = x.listenOn /\ y.cl = x.cl /\ y.backlog = x.backlog
      /\ y = Rec(y.table, y.new, y.conn, y.free, y.ep, y.listenOn, y.cl, y.backlog)
  BY <1>5, RecFields
<1>7. Shape(y)
  BY <1>1, <1>3, <1>6 DEF Shape
<1>8. Live(y) = Live(x)
  BY <1>6 DEF Live
<1>9. Fds(y) = Fds(x)
  BY <1>6, <1>8 DEF Fds
<1>10. Pool(y) /\ Sockets(y) /\ Queued(y) /\ Tables(y)
  BY <1>1, <1>6 DEF Pool, Sockets, Queued, Tables
<1>11. Polled(y, p)
  BY <1>1, <1>6, <1>9 DEF Polled
<1>12. \A l \in Live(y) : Held(y, l) /\ Follows(y, l)
  BY <1>1, <1>6, <1>8 DEF Held, Filed, Follows
<1> QED
  BY <1>6, <1>7, <1>10, <1>11, <1>12 DEF Inv, o

\* A sweep closes the stale connections and makes the others stale.
LEMMA SweepStep ==
  ASSUME NEW x, NEW p, p \cap ClientFd = {}, Inv(x, p, {}), NEW y, y = Sweep(x)
  PROVE  Inv(y, p, {}) /\ Swept(x, y)
<1> DEFINE o == 3 - x.new
           z == CloseAllConnections(x, o)
<1>1. Shape(x)
  BY DEF Inv
<1>2. o \in 1 .. 2 /\ 3 - o = x.new
  BY <1>1, NewOld
<1>3. y = Swapped(z)
  BY DEF Sweep, Swapped
<1> HIDE DEF z, o
<1>4. Inv(z, p, {}) /\ z.new = x.new /\ HP!Keys(z.table[o]) = {} /\ HP!Keys(z.table[3 - o]) = HP!Keys(x.table[3 - o])
  <2>1. z = CloseAllConnections(x, o)
    BY DEF z
  <2>2. Cleared(x, z, p, o)
    BY <1>2, <2>1, CloseAllStep
  <2> QED
    BY <2>2 DEF Cleared
<1>5. Inv(y, p, {}) /\ y.new = 3 - z.new /\ y.table = z.table
  BY <1>3, <1>4, SwapStep
<1>6. y.new = o /\ 3 - x.new = o
  BY <1>4, <1>5 DEF o
<1> QED
  BY <1>2, <1>4, <1>5, <1>6 DEF Swept

-----------------------------------------------------------------------------
(* The polling object. *)

\* A polling object of the epoll kind.
Epoll(e) ==
  /\ e = [interest |-> e.interest, pending |-> e.pending]
  /\ e.interest \in [DOMAIN e.interest -> {"read", "write"}]

\* Of what ep polls, e polls all that is not in R as ep does; in R it polls
\* everything if enabled and nothing if not.
Listens(e, ep, R, enable) ==
  /\ Epoll(e)
  /\ DOMAIN e.interest = IF enable THEN DOMAIN ep.interest \cup R ELSE DOMAIN ep.interest \ R
  /\ \A f \in DOMAIN ep.interest \ R : e.interest[f] = ep.interest[f]

\* A descriptor is added to the kernel's interest list.
LEMMA PollMore ==
  ASSUME NEW ep, Epoll(ep), NEW fd, NEW e, e = P!EpollAdd(ep, fd, "read")
  PROVE  Listens(e, ep, {fd}, TRUE)
<1> DEFINE a == ep.interest
           b == [f \in DOMAIN a \cup {fd} |-> IF f = fd THEN "read" ELSE a[f]]
<1>1. e = [ep EXCEPT !.interest = b]
  BY DEF P!EpollAdd
<1>2. /\ b \in [DOMAIN b -> {"read", "write"}] /\ DOMAIN b = DOMAIN a \cup {fd}
      /\ \A f \in DOMAIN a \ {fd} : b[f] = a[f]
  BY DEF Epoll
<1> HIDE DEF b
<1>3. e.interest = b /\ e = [interest |-> e.interest, pending |-> e.pending]
  BY <1>1 DEF Epoll
<1> QED
  BY <1>2, <1>3 DEF Epoll, Listens

\* A descriptor is taken out of it.
LEMMA PollLess ==
  ASSUME NEW ep, Epoll(ep), NEW fd, NEW e, e = P!EpollRemove(ep, fd)
  PROVE  Listens(e, ep, {fd}, FALSE)
<1>1. /\ e = [interest |-> e.interest, pending |-> e.pending]
      /\ e.interest \in [DOMAIN e.interest -> {"read", "write"}]
      /\ DOMAIN e.interest = DOMAIN ep.interest \ {fd}
      /\ \A f \in DOMAIN e.interest : e.interest[f] = ep.interest[f]
  BY Unpolled DEF Epoll
<1> QED
  BY <1>1 DEF Epoll, Listens

OneListen(e, r, enable) ==
  IF r \notin Roles THEN e
  ELSE IF enable THEN P!EpollAdd(e, r, "read") ELSE P!EpollRemove(e, r)

\* One listen socket more.
LEMMA OneListenStep ==
  ASSUME NEW ep, NEW e, NEW R, NEW r, NEW enable \in BOOLEAN, Listens(e, ep, R, enable),
         NEW g, g = OneListen(e, r, enable), NEW Q, Q = R \cup (Roles \cap {r})
  PROVE  Listens(g, ep, Q, enable)
<1>1. Epoll(e)
  BY DEF Listens
<1>2. CASE r \notin Roles
  <2>1. g = e /\ Q = R
    BY <1>2 DEF OneListen
  <2> QED
    BY <2>1
<1>3. CASE r \in Roles
  <2>1. Listens(g, e, {r}, enable)
    <3>1. CASE enable
      <4>1. g = P!EpollAdd(e, r, "read")
        BY <1>3, <3>1 DEF OneListen
      <4>2. Listens(g, e, {r}, TRUE)
        BY <1>1, <4>1, PollMore
      <4> QED
        BY <3>1, <4>2
    <3>2. CASE ~enable
      <4>1. g = P!EpollRemove(e, r)
        BY <1>3, <3>2 DEF OneListen
      <4>2. Listens(g, e, {r}, FALSE)
        BY <1>1, <4>1, PollLess
      <4>3. enable = FALSE
        BY <3>2
      <4> QED
        BY <4>2, <4>3
    <3> QED
      BY <3>1, <3>2
  <2>2. Q = R \cup {r}
    BY <1>3
  <2>3. DOMAIN g.interest = IF enable THEN DOMAIN ep.interest \cup Q ELSE DOMAIN ep.interest \ Q
    BY <2>1, <2>2 DEF Listens
  <2>4. ASSUME NEW f \in DOMAIN ep.interest \ Q
        PROVE  g.interest[f] = ep.interest[f]
    <3>1. f \in DOMAIN ep.interest \ R /\ f \in DOMAIN e.interest \ {r}
      BY <2>2 DEF Listens
    <3> QED
      BY <2>1, <3>1 DEF Listens
  <2> QED
    BY <2>1, <2>3, <2>4 DEF Listens
<1> QED
  BY <1>2, <1>3

\* All listen sockets are added or removed.
LEMMA ListenAll ==
  ASSUME NEW ep, Epoll(ep), NEW enable \in BOOLEAN, NEW e, e = SetEachListenSocket(ep, enable)
  PROVE  Listens(e, ep, Roles, enable)
<1> DEFINE a == OneListen(ep, 0, enable)
           b == OneListen(a, 1, enable)
           c == OneListen(b, 2, enable)
           d == OneListen(c, 3, enable)
           R0 == {}
           R1 == R0 \cup (Roles \cap {0})
           R2 == R1 \cup (Roles \cap {1})
           R3 == R2 \cup (Roles \cap {2})
           R4 == R3 \cup (Roles \cap {3})
<1>1. e = d
  BY DEF SetEachListenSocket, OneListen
<1>2. R4 = Roles
  <2>1. \A r \in Roles : r = 0 \/ r = 1 \/ r = 2 \/ r = 3
    <3>1. \A r \in 0 .. 3 : r = 0 \/ r = 1 \/ r = 2 \/ r = 3
      OBVIOUS
    <3> QED
      BY <3>1, TcpAssumption, Zenon
  <2> QED
    BY <2>1
<1>3. Listens(ep, ep, R0, enable)
  BY DEF Listens
<1>4. a = OneListen(ep, 0, enable) /\ R1 = R0 \cup (Roles \cap {0})
  OBVIOUS
<1>5. b = OneListen(a, 1, enable) /\ R2 = R1 \cup (Roles \cap {1})
  OBVIOUS
<1>6. c = OneListen(b, 2, enable) /\ R3 = R2 \cup (Roles \cap {2})
  OBVIOUS
<1>7. d = OneListen(c, 3, enable) /\ R4 = R3 \cup (Roles \cap {3})
  OBVIOUS
<1> HIDE DEF a, b, c, d, R0, R1, R2, R3, R4
<1>8. Listens(a, ep, R1, enable)
  BY <1>3, <1>4, OneListenStep
<1>9. Listens(b, ep, R2, enable)
  BY <1>5, <1>8, OneListenStep
<1>10. Listens(c, ep, R3, enable)
  BY <1>6, <1>9, OneListenStep
<1>11. Listens(d, ep, R4, enable)
  BY <1>7, <1>10, OneListenStep
<1> QED
  BY <1>1, <1>2, <1>11

\* x with another polling object.
Repoll(x, e, l) == Rec(x.table, x.new, x.conn, x.free, e, l, x.cl, x.backlog)

Repollable(x, e, l, q) ==
  /\ Epoll(e) /\ l \in BOOLEAN
  /\ DOMAIN e.interest = Fds(x) \cup (IF l THEN Roles ELSE {}) \cup q
  /\ \A f \in Fds(x) : e.interest[f] = x.ep.interest[f]

\* Polling for other things than connections leaves those alone.
LEMMA RepollStep ==
  ASSUME NEW x, NEW p, Inv(x, p, {}), NEW e, NEW l, NEW q, Repollable(x, e, l, q), NEW y, y = Repoll(x, e, l)
  PROVE  /\ Inv(y, q, {}) /\ Live(y) = Live(x) /\ y.table = x.table /\ y.new = x.new /\ y.cl = x.cl
         /\ Kept(x, y)
<1>1. /\ Shape(x) /\ Pool(x) /\ Sockets(x) /\ Queued(x) /\ Tables(x)
      /\ \A k \in Live(x) : Held(x, k) /\ Follows(x, k)
  BY DEF Inv
<1>2. y = Rec(x.table, x.new, x.conn, x.free, e, l, x.cl, x.backlog)
  BY DEF Repoll
<1>3. /\ y.table = x.table /\ y.new = x.new /\ y.conn = x.conn /\ y.free = x.free /\ y.ep = e
      /\ y.listenOn = l /\ y.cl = x.cl /\ y.backlog = x.backlog
      /\ y = Rec(y.table, y.new, y.conn, y.free, y.ep, y.listenOn, y.cl, y.backlog)
  BY <1>2, RecFields
<1>4. Shape(y)
  <2>1. /\ x.new \in 1 .. 2 /\ x.table = [i \in 1 .. 2 |-> x.table[i]]
        /\ x.conn \in Seq(ConnRec) /\ x.free \in Seq(Nat)
        /\ x.cl \in [Client -> ClientRec] /\ x.backlog \in [Roles -> Seq(Client)]
    BY <1>1 DEF Shape
  <2>2. /\ y.ep = [interest |-> y.ep.interest, pending |-> y.ep.pending]
        /\ y.ep.interest \in [DOMAIN y.ep.interest -> {"read", "write"}]
        /\ y.listenOn \in BOOLEAN
    BY <1>3 DEF Repollable, Epoll
  <2> QED
    BY <1>3, <2>1, <2>2 DEF Shape
<1>5. Live(y) = Live(x)
  BY <1>3 DEF Live
<1>6. Fds(y) = Fds(x)
  BY <1>3, <1>5 DEF Fds
<1>7. Pool(y) /\ Sockets(y) /\ Queued(y) /\ Tables(y)
  BY <1>1, <1>3 DEF Pool, Sockets, Queued, Tables
<1>8. Polled(y, q)
  BY <1>3, <1>6 DEF Polled, Repollable
<1>9. ASSUME NEW k \in Live(y)
      PROVE  Held(y, k) /\ Follows(y, k)
  <2>1. Held(x, k) /\ Follows(x, k) /\ x.conn[k].sock \in Fds(x)
    BY <1>1, <1>5 DEF Fds
  <2>2. e.interest[x.conn[k].sock] = x.ep.interest[x.conn[k].sock]
    BY <2>1 DEF Repollable
  <2> QED
    BY <1>3, <2>1, <2>2 DEF Held, Filed, Follows
<1> QED
  BY <1>3, <1>4, <1>5, <1>7, <1>8, <1>9 DEF Inv, Kept

\* Descriptors that are polled for are numbers apart.
LEMMA FdsApart ==
  ASSUME NEW x, NEW p, Inv(x, p, {})
  PROVE  Fds(x) \subseteq ClientFd /\ Fds(x) \cap Roles = {} /\ Pipe \notin Fds(x)
<1>1. Shape(x) /\ Sockets(x)
  BY DEF Inv
<1>2. \A k \in Live(x) : x.conn[k].sock \in ClientFd
  BY <1>1, OwnerOf
<1>3. Fds(x) \subseteq ClientFd
  BY <1>2 DEF Fds
<1> QED
  BY <1>3, Descriptors

\* SetListenSocketsOnEpoll, whatever is polled.
LEMMA ListenStep ==
  ASSUME NEW x, NEW p, p \cap Roles = {}, Inv(x, p, {}), NEW enable \in BOOLEAN,
         NEW y, y = SetListenSocketsOnEpoll(x, enable)
  PROVE  Inv(y, p, {}) /\ Live(y) = Live(x) /\ y.table = x.table /\ y.new = x.new /\ y.cl = x.cl /\ Kept(x, y)
         /\ y.listenOn = enable
<1>1. Shape(x) /\ Polled(x, p)
  BY DEF Inv
<1>2. CASE enable = x.listenOn
  BY <1>2 DEF SetListenSocketsOnEpoll, Kept
<1>3. CASE enable # x.listenOn
  <2> DEFINE e == SetEachListenSocket(x.ep, enable)
  <2>1. y = [x EXCEPT !.ep = e, !.listenOn = enable]
    BY <1>3 DEF SetListenSocketsOnEpoll
  <2>2. Epoll(x.ep) /\ x.listenOn \in BOOLEAN
        /\ x = Rec(x.table, x.new, x.conn, x.free, x.ep, x.listenOn, x.cl, x.backlog)
    BY <1>1 DEF Shape, Epoll
  <2>3. Listens(e, x.ep, Roles, enable)
    BY <2>2, ListenAll
  <2> HIDE DEF e
  <2>4. y = Repoll(x, e, enable)
    BY <2>1, <2>2 DEF Repoll, Rec
  <2>5. Repollable(x, e, enable, p)
    <3>1. Fds(x) \cap Roles = {}
      BY FdsApart
    <3>2. DOMAIN x.ep.interest = Fds(x) \cup (IF x.listenOn THEN Roles ELSE {}) \cup p
      BY <1>1 DEF Polled
    <3>3. DOMAIN e.interest = Fds(x) \cup (IF enable THEN Roles ELSE {}) \cup p
      <4>1. CASE enable
        BY <1>3, <2>2, <2>3, <3>2, <4>1 DEF Listens
      <4>2. CASE ~enable
        <5>1. DOMAIN e.interest = DOMAIN x.ep.interest \ Roles /\ x.listenOn
          BY <1>3, <2>2, <2>3, <4>2 DEF Listens
        <5> QED
          BY <3>1, <3>2, <4>2, <5>1
      <4> QED
        BY <4>1, <4>2
    <3>4. \A f \in Fds(x) : e.interest[f] = x.ep.interest[f]
      BY <2>3, <3>1, <3>2 DEF Listens
    <3> QED
      BY <2>3, <3>3, <3>4 DEF Repollable, Listens
  <2>6. y.listenOn = enable
    BY <2>4, RecFields DEF Repoll
  <2> QED
    BY <2>4, <2>5, <2>6, RepollStep
<1> QED
  BY <1>2, <1>3

\* An event is taken from the batch.
LEMMA TakeStep ==
  ASSUME NEW x, NEW p, Inv(x, p, {}), NEW R, NEW fd, NEW y, y = [x EXCEPT !.ep = P!EpollTake(@, R, fd)]
  PROVE  Inv(y, p, {}) /\ Live(y) = Live(x) /\ y.table = x.table /\ y.new = x.new /\ y.cl = x.cl /\ Kept(x, y)
<1> DEFINE e == P!EpollTake(x.ep, R, fd)
           b == P!EpollBatch(x.ep, R) \ {fd}
<1>1. Shape(x) /\ Polled(x, p)
  BY DEF Inv
<1>2. Epoll(x.ep) /\ x.listenOn \in BOOLEAN
      /\ x = Rec(x.table, x.new, x.conn, x.free, x.ep, x.listenOn, x.cl, x.backlog)
  BY <1>1 DEF Shape, Epoll
<1>3. y = [x EXCEPT !.ep = e]
  OBVIOUS
<1>4. e = [x.ep EXCEPT !.pending = b]
  BY DEF P!EpollTake
<1> HIDE DEF e, b
<1>5. e.interest = x.ep.interest /\ Epoll(e)
  BY <1>2, <1>4 DEF Epoll
<1>6. y = Repoll(x, e, x.listenOn)
  BY <1>2, <1>3 DEF Repoll, Rec
<1>7. Repollable(x, e, x.listenOn, p)
  BY <1>1, <1>2, <1>5 DEF Repollable, Polled
<1> QED
  BY <1>6, <1>7, RepollStep

-----------------------------------------------------------------------------
(* The object before it is started and after it is stopped. *)

\* No client has a connection or waits for one.
Apart(cl) ==
  /\ cl \in [Client -> ClientRec]
  /\ \A c \in Client : /\ cl[c].sock = NoSock /\ cl[c].st \in {"idle", "closed"} /\ cl[c].rcvd <= cl[c].sent
                       /\ cl[c].st = "idle" => cl[c].rcvd = 0 /\ cl[c].got = 0

NoKeys(x) == \A i \in 1 .. 2 : HP!Keys(x.table[i]) = {}

\* What Reset leaves behind is in order.
LEMMA ResetStep ==
  ASSUME NEW cl, Apart(cl), NEW y, y = Reset(cl)
  PROVE  Inv(y, {}, {}) /\ Live(y) = {} /\ NoKeys(y) /\ y.cl = cl /\ y.new = 1
<1> DEFINE h == H!InitTable(MaxConnections, 0)
           t == [i \in 1 .. 2 |-> h]
           e == P!EpollInitialize
           b == [r \in Roles |-> <<>>]
<1>1. y = Rec(t, 1, <<>>, <<>>, e, FALSE, cl, b)
  BY DEF Reset, Rec
<1>2. HP!Well(h, Nat) /\ HP!Keys(h) = {}
  <2>1. \E q \in MaxConnections .. (2 * MaxConnections + 2) : HP!IsPrime(q)
    BY PrimeAssumption DEF H!IsPrime, HP!IsPrime
  <2>2. MaxConnections \in Nat \ {0} /\ 0 \in Nat
    BY TcpAssumption
  <2>3. h = HP!InitTable(MaxConnections, 0)
    BY SameTable
  <2> HIDE DEF h
  <2> QED
    BY <2>1, <2>2, <2>3, HP!InitMap
<1> HIDE DEF h
<1>3. e = [interest |-> <<>>, pending |-> {}]
  BY DEF P!EpollInitialize
<1>4. t = [i \in 1 .. 2 |-> t[i]] /\ t[1] = h /\ t[2] = h /\ \A i \in 1 .. 2 : t[i] = h
  OBVIOUS
<1>5. b \in [Roles -> Seq(Client)] /\ \A r \in Roles : b[r] = <<>>
  OBVIOUS
<1> HIDE DEF t, e, b
<1>6. /\ y.table = t /\ y.new = 1 /\ y.conn = <<>> /\ y.free = <<>> /\ y.ep = e
      /\ y.listenOn = FALSE /\ y.cl = cl /\ y.backlog = b
      /\ y = Rec(y.table, y.new, y.conn, y.free, y.ep, y.listenOn, y.cl, y.backlog)
  <2> DEFINE one == 1
             none == <<>>
             off == FALSE
  <2>1. y = Rec(t, one, none, none, e, off, cl, b)
    BY <1>1
  <2> HIDE DEF one, none, off
  <2>2. /\ y.table = t /\ y.new = one /\ y.conn = none /\ y.free = none /\ y.ep = e
        /\ y.listenOn = off /\ y.cl = cl /\ y.backlog = b
        /\ y = Rec(y.table, y.new, y.conn, y.free, y.ep, y.listenOn, y.cl, y.backlog)
    BY <2>1, RecFields
  <2> QED
    BY <2>2 DEF one, none, off
<1>7. Live(y) = {}
  BY <1>6 DEF Live
<1>8. /\ y.ep = [interest |-> y.ep.interest, pending |-> y.ep.pending]
      /\ y.ep.interest = <<>> /\ DOMAIN y.ep.interest = {}
      /\ y.ep.interest \in [DOMAIN y.ep.interest -> {"read", "write"}]
  <2>1. y.ep.interest = <<>> /\ y.ep.pending = {}
    BY <1>3, <1>6
  <2>2. DOMAIN <<>> = {} /\ <<>> \in [DOMAIN <<>> -> {"read", "write"}]
    OBVIOUS
  <2> QED
    BY <1>3, <1>6, <2>1, <2>2
<1>9. Shape(y)
  <2>1. y.conn \in Seq(ConnRec) /\ y.free \in Seq(Nat) /\ y.new \in 1 .. 2
    BY <1>6
  <2> QED
    BY <1>4, <1>5, <1>6, <1>8, <2>1 DEF Shape, Apart
<1>10. Pool(y)
  BY <1>6 DEF Pool
<1>11. Sockets(y)
  BY <1>6 DEF Sockets, Apart
<1>12. Queued(y)
  <2>1. \A r \in Roles : DOMAIN y.backlog[r] = {}
    BY <1>5, <1>6
  <2>2. \A c \in Client : /\ y.cl[c].rcvd <= y.cl[c].sent
                          /\ y.cl[c].st \in {"idle", "queued"} => y.cl[c].rcvd = 0 /\ y.cl[c].got = 0
    BY <1>6 DEF Apart
  <2> QED
    BY <2>1, <2>2 DEF Queued
<1>13. NoKeys(y) /\ Tables(y)
  BY <1>2, <1>4, <1>6 DEF NoKeys, Tables
<1>14. Polled(y, {})
  BY <1>6, <1>7, <1>8 DEF Polled, Fds
<1> QED
  BY <1>6, <1>7, <1>9, <1>10, <1>11, <1>12, <1>13, <1>14 DEF Inv

\* When nothing is live the tables are empty and no client is open.
LEMMA NoneLive ==
  ASSUME NEW x, NEW p, Inv(x, p, {}), Live(x) = {}
  PROVE  NoKeys(x) /\ \A c \in Client : x.cl[c].sock = NoSock /\ x.cl[c].st # "open"
<1>1. Tables(x) /\ Sockets(x)
  BY DEF Inv
<1>2. \A k \in DOMAIN x.conn : x.conn[k].sock = NoSock
  BY DEF Live
<1>3. ASSUME NEW i \in 1 .. 2, NEW b \in HP!Keys(x.table[i])
      PROVE  FALSE
  <2>1. HP!Well(x.table[i], Nat) /\ \E k \in DOMAIN x.conn : x.conn[k].sock = b
    BY <1>1, <1>3 DEF Tables
  <2>2. b \in Nat
    BY <1>3, <2>1, KeyNat
  <2> QED
    BY <1>2, <2>1, <2>2 DEF NoSock
<1>4. \A c \in Client : x.cl[c].sock = NoSock /\ x.cl[c].st # "open"
  BY <1>1, <1>2 DEF Sockets
<1> QED
  BY <1>3, <1>4 DEF NoKeys

\* Reset after the thread has ended, or without one.
LEMMA ClosedStep ==
  ASSUME NEW x, NEW p, Inv(x, p, {}), Live(x) = {}, NEW y, y = Closed(x)
  PROVE  /\ Inv(y, {}, {}) /\ Live(y) = {} /\ NoKeys(y) /\ NoKeys(x)
         /\ \A c \in Client : y.cl[c].st \in {"idle", "closed"}
<1> DEFINE cl == [c \in Client |-> IF x.cl[c].st = "queued" THEN Dropped ELSE x.cl[c]]
<1>1. y = Reset(cl)
  BY DEF Closed
<1>2. Shape(x) /\ Queued(x)
  BY DEF Inv
<1>3. NoKeys(x) /\ \A c \in Client : x.cl[c].sock = NoSock /\ x.cl[c].st # "open"
  BY NoneLive
<1>4. \A c \in Client : cl[c] = IF x.cl[c].st = "queued" THEN Dropped ELSE x.cl[c]
  OBVIOUS
<1>5. ASSUME NEW c \in Client
      PROVE  /\ cl[c] \in ClientRec /\ cl[c].sock = NoSock /\ cl[c].st \in {"idle", "closed"}
             /\ cl[c].rcvd <= cl[c].sent /\ (cl[c].st = "idle" => cl[c].rcvd = 0 /\ cl[c].got = 0)
  <2>1. x.cl[c] \in ClientRec /\ x.cl[c].st \in {"idle", "queued", "open", "closed"}
    <3>1. x.cl[c] \in ClientRec
      BY <1>2 DEF Shape
    <3> QED
      BY <3>1 DEF ClientRec
  <2>2. CASE x.cl[c].st = "queued"
    <3>1. cl[c] = Dropped
      BY <2>2
    <3> HIDE DEF cl
    <3> QED
      BY <3>1, DroppedRec
  <2>3. CASE x.cl[c].st # "queued"
    <3>1. cl[c] = x.cl[c]
      BY <2>3
    <3> HIDE DEF cl
    <3> QED
      BY <1>2, <1>3, <2>1, <2>3, <3>1 DEF Queued
  <2> QED
    BY <2>2, <2>3
<1>6. DOMAIN cl = Client /\ cl = [c \in Client |-> cl[c]]
  OBVIOUS
<1> HIDE DEF cl
<1>7. Apart(cl)
  BY <1>5, <1>6 DEF Apart
<1> QED
  BY <1>1, <1>3, <1>5, <1>7, ResetStep

-----------------------------------------------------------------------------
(* Steps of the specification. *)

Young(x) == HP!Keys(New(x))

Aged(x) == HP!Keys(Old(x))

Stays(x, y) == Young(y) = Young(x) /\ Aged(y) = Aged(x)

Loses(x, y) ==
  \E fd \in ClientFd : Young(y) = Young(x) \ {fd} /\ Aged(y) = Aged(x) \ {fd}

Gains(x, y) ==
  \E fd \in ClientFd : /\ fd \notin Young(x) \cup Aged(x)
                       /\ Young(y) = Young(x) \cup {fd} /\ Aged(y) = Aged(x)

Ages(x, y) == Young(y) = {} /\ Aged(y) = Young(x)

\* What a step may do to the two tables.
Moves ==
  \/ (pc' = "done" <=> pc = "done") /\ (Stays(s, s') \/ Loses(s, s'))
  \/ pc # "done" /\ pc' # "done" /\ (Gains(s, s') \/ Ages(s, s'))
  \/ pc' = "done" /\ Young(s') = {} /\ Aged(s') = {}

\* The parts of the invariant that hold of the next state.
LEMMA NextParts ==
  ASSUME Control', NEW p, p = Extra', Inv(s', p, {})
  PROVE  IInv'
BY DEF IInv

\* How the tables' keys move, in terms of the new and the old table.
LEMMA KeptStays ==
  ASSUME NEW x, NEW p, Inv(x, p, {}), NEW y, Kept(x, y)
  PROVE  Stays(x, y)
<1>1. Shape(x)
  BY DEF Inv
<1>2. x.new \in 1 .. 2 /\ 3 - x.new \in 1 .. 2
  BY <1>1, NewOld
<1> QED
  BY <1>2 DEF Stays, Young, Aged, New, Old, Kept

LEMMA LostLoses ==
  ASSUME NEW x, NEW p, Inv(x, p, {}), NEW y, NEW fd \in ClientFd, Lost(x, y, fd)
  PROVE  Loses(x, y)
<1>1. Shape(x)
  BY DEF Inv
<1>2. x.new \in 1 .. 2 /\ 3 - x.new \in 1 .. 2
  BY <1>1, NewOld
<1>3. Young(y) = Young(x) \ {fd} /\ Aged(y) = Aged(x) \ {fd}
  BY <1>2 DEF Young, Aged, New, Old, Lost
<1> QED
  BY <1>3 DEF Loses

LEMMA GainedGains ==
  ASSUME NEW x, NEW p, Inv(x, p, {}), NEW y, NEW fd \in ClientFd, Gained(x, y, fd)
  PROVE  Gains(x, y)
<1>1. Shape(x)
  BY DEF Inv
<1>2. x.new \in 1 .. 2 /\ 3 - x.new \in 1 .. 2
  BY <1>1, NewOld
<1>3. fd \notin Young(x) \cup Aged(x) /\ Young(y) = Young(x) \cup {fd} /\ Aged(y) = Aged(x)
  BY <1>2 DEF Young, Aged, New, Old, Gained
<1> QED
  BY <1>3 DEF Gains

LEMMA SweptAges ==
  ASSUME NEW x, NEW y, Swept(x, y)
  PROVE  Ages(x, y)
BY DEF Ages, Young, Aged, New, Old, Swept

LEMMA NoKeysEmpty ==
  ASSUME NEW x, NEW p, Inv(x, p, {}), NoKeys(x)
  PROVE  Young(x) = {} /\ Aged(x) = {}
<1>1. Shape(x)
  BY DEF Inv
<1>2. x.new \in 1 .. 2 /\ 3 - x.new \in 1 .. 2
  BY <1>1, NewOld
<1> QED
  BY <1>2 DEF Young, Aged, New, Old, NoKeys

\* Descriptors that are polled besides the connections'.
LEMMA ExtraApart ==
  Extra \cap ClientFd = {} /\ Extra \cap Roles = {}
BY Descriptors DEF Extra

LEMMA StartStep ==
  ASSUME IInv, Start
  PROVE  IInv' /\ Moves
<1>1. Control /\ Inv(s, Extra, {})
  BY DEF IInv
<1>2. phase = "ready" /\ phase' = "running" /\ pc' = "poll" /\ needToExit' = FALSE /\ due' = FALSE
      /\ s' = s /\ pipe' = pipe
  BY DEF Start
<1>3. Extra' = Extra
  BY <1>2 DEF Extra
<1>4. Inv(s', Extra, {})
  BY <1>1, <1>2
<1>5. Control'
  BY <1>1, <1>2 DEF Control
<1>6. Moves
  BY <1>1, <1>2 DEF Moves, Stays, Control
<1> QED
  BY <1>3, <1>4, <1>5, <1>6, NextParts

\* A step of the thread after which it goes on.
LEMMA GoesOn ==
  ASSUME Control, pc \in {"poll", "sweep"}, pc' \in {"poll", "sweep"}, Inv(s', Extra, {}),
         phase' = phase, needToExit' = needToExit, pipe' = pipe, due' \in BOOLEAN
  PROVE  IInv'
<1>1. Extra' = Extra
  BY DEF Extra
<1>2. Control'
  BY DEF Control
<1> QED
  BY <1>1, <1>2, NextParts

\* A step of the thread after which it has ended.
LEMMA ExitStep ==
  ASSUME Control, pc \in {"poll", "sweep"}, NEW x, Inv(x, Extra, {}), Exit(x),
         phase' = phase, needToExit' = needToExit, pipe' = pipe, due' \in BOOLEAN
  PROVE  IInv' /\ Moves
<1>1. s' = ThreadCleanup(x) /\ pc' = "done"
  BY DEF Exit
<1>2. Extra \cap ClientFd = {}
  BY ExtraApart
<1>3. Inv(s', Extra, {}) /\ Live(s') = {} /\ HP!Keys(s'.table[1]) = {} /\ HP!Keys(s'.table[2]) = {}
  BY <1>1, <1>2, CleanupStep
<1>4. NoKeys(s')
  <2>1. \A i \in 1 .. 2 : i = 1 \/ i = 2
    OBVIOUS
  <2> QED
    BY <1>3, <2>1, Zenon DEF NoKeys
<1>5. Young(s') = {} /\ Aged(s') = {}
  BY <1>3, <1>4, NoKeysEmpty
<1>6. Extra' = Extra
  BY DEF Extra
<1>7. Control'
  <2>1. phase \notin {"new", "ready", "gone"}
    BY DEF Control
  <2> QED
    BY <1>1, <1>3, <2>1 DEF Control
<1> QED
  BY <1>1, <1>3, <1>5, <1>6, <1>7, NextParts DEF Moves

\* A step of a client or the kernel.
LEMMA KernelStep ==
  ASSUME Control, NEW p, p = Extra, Inv(s, p, {}), Inv(s', p, {}), Kept(s, s'), Live(s') = Live(s),
         phase \in {"new", "gone"} => \A c \in Client : s'.cl[c].st \in {"idle", "closed"},
         UNCHANGED <<phase, pc, needToExit, pipe, due>>
  PROVE  IInv' /\ Moves
<1>1. phase' = phase /\ pc' = pc /\ needToExit' = needToExit /\ pipe' = pipe /\ due' = due
  OBVIOUS
<1>2. Extra' = p
  BY <1>1 DEF Extra
<1>3. Control'
  BY <1>1 DEF Control
<1>4. Stays(s, s')
  BY KeptStays
<1> QED
  BY <1>1, <1>2, <1>3, <1>4, NextParts DEF Moves

LEMMA ThreadInitStep ==
  ASSUME IInv, ThreadInit
  PROVE  IInv' /\ Moves
<1>1. /\ Control /\ Inv(s, Extra, {}) /\ phase = "new" /\ pc = "off" /\ Live(s) = {}
      /\ \A c \in Client : s.cl[c].st \in {"idle", "closed"}
  BY DEF IInv, ThreadInit, Control
<1>2. pc' = pc /\ needToExit' = needToExit /\ pipe' = pipe /\ due' = due
  BY DEF ThreadInit
<1>3. Extra = {}
  BY <1>1 DEF Extra
<1>4. Inv(s, {}, {})
  BY <1>1, <1>3
<1>5. NoKeys(s) /\ \A c \in Client : s.cl[c].sock = NoSock
  BY <1>1, <1>4, NoneLive
<1>6. CASE s' = Reset(s.cl) /\ phase' = "gone"
  <2>1. Apart(s.cl)
    BY <1>1, <1>4, <1>5 DEF Apart, Inv, Shape, Queued
  <2>2. Inv(s', {}, {}) /\ Live(s') = {} /\ NoKeys(s') /\ s'.cl = s.cl
    BY <1>6, <2>1, ResetStep
  <2>3. Extra' = {}
    BY <1>6 DEF Extra
  <2>4. Control'
    BY <1>1, <1>2, <1>6, <2>2 DEF Control
  <2>5. Stays(s, s')
    <3>1. Young(s) = {} /\ Aged(s) = {}
      BY <1>4, <1>5, NoKeysEmpty
    <3>2. Young(s') = {} /\ Aged(s') = {}
      BY <2>2, NoKeysEmpty
    <3> QED
      BY <3>1, <3>2 DEF Stays
  <2> QED
    BY <1>2, <2>2, <2>3, <2>4, <2>5, NextParts DEF Moves
<1>7. CASE /\ phase' = "ready"
           /\ s' = LET l == SetListenSocketsOnEpoll(s, TRUE)
                   IN  [l EXCEPT !.ep = P!EpollAdd(@, Pipe, "read")]
  <2> DEFINE l == SetListenSocketsOnEpoll(s, TRUE)
             e == P!EpollAdd(l.ep, Pipe, "read")
             on == l.listenOn
  <2>1. s' = [l EXCEPT !.ep = e]
    BY <1>7
  <2>2. Inv(l, {}, {}) /\ Live(l) = Live(s) /\ Kept(s, l) /\ l.cl = s.cl
    <3>1. {} \cap Roles = {} /\ TRUE \in BOOLEAN /\ l = SetListenSocketsOnEpoll(s, TRUE)
      OBVIOUS
    <3> HIDE DEF l
    <3> QED
      BY <1>4, <3>1, ListenStep
  <2> HIDE DEF l
  <2>3. Shape(l) /\ Polled(l, {})
    BY <2>2 DEF Inv
  <2>4. Epoll(l.ep) /\ on \in BOOLEAN
        /\ l = Rec(l.table, l.new, l.conn, l.free, l.ep, l.listenOn, l.cl, l.backlog)
    BY <2>3 DEF Shape, Epoll
  <2>5. Listens(e, l.ep, {Pipe}, TRUE)
    BY <2>4, PollMore
  <2> HIDE DEF e
  <2>6. s' = Repoll(l, e, on)
    BY <2>1, <2>4 DEF Repoll, Rec
  <2>7. Repollable(l, e, on, {Pipe})
    <3>1. Pipe \notin Fds(l)
      BY <2>2, FdsApart
    <3>2. DOMAIN l.ep.interest = Fds(l) \cup (IF on THEN Roles ELSE {})
      BY <2>3 DEF Polled
    <3>3. DOMAIN e.interest = DOMAIN l.ep.interest \cup {Pipe}
      BY <2>5 DEF Listens
    <3>4. \A f \in Fds(l) : e.interest[f] = l.ep.interest[f]
      BY <2>5, <3>1, <3>2 DEF Listens
    <3> QED
      BY <2>4, <2>5, <3>2, <3>3, <3>4 DEF Repollable, Listens
  <2> HIDE DEF on
  <2>8. Inv(s', {Pipe}, {}) /\ Live(s') = Live(l) /\ Kept(l, s')
    BY <2>2, <2>6, <2>7, RepollStep
  <2>9. Kept(s, s')
    BY <2>2, <2>8 DEF Kept
  <2>10. Extra' = {Pipe}
    BY <1>7 DEF Extra
  <2>11. Control'
    BY <1>1, <1>2, <1>7, <2>2, <2>8 DEF Control
  <2>12. Stays(s, s')
    BY <1>4, <2>9, KeptStays
  <2> QED
    BY <1>2, <2>8, <2>10, <2>11, <2>12, NextParts DEF Moves
<1> QED
  BY <1>6, <1>7 DEF ThreadInit

\* The object is reset when no thread runs.
LEMMA GoneStep ==
  ASSUME IInv, pc \in {"off", "done"}, s' = Closed(s), phase' = "gone", pc' = pc,
         needToExit' \in BOOLEAN, pipe' \in BOOLEAN, due' = due
  PROVE  IInv' /\ Moves
<1>1. Control /\ Inv(s, Extra, {}) /\ Live(s) = {}
  BY DEF IInv, Control
<1>2. /\ Inv(s', {}, {}) /\ Live(s') = {} /\ NoKeys(s') /\ NoKeys(s)
      /\ \A c \in Client : s'.cl[c].st \in {"idle", "closed"}
  BY <1>1, ClosedStep
<1>3. Extra' = {}
  BY DEF Extra
<1>4. Control'
  BY <1>1, <1>2 DEF Control
<1>5. Stays(s, s')
  <2>1. Young(s) = {} /\ Aged(s) = {}
    BY <1>1, <1>2, NoKeysEmpty
  <2>2. Young(s') = {} /\ Aged(s') = {}
    BY <1>2, NoKeysEmpty
  <2> QED
    BY <2>1, <2>2 DEF Stays
<1> QED
  BY <1>2, <1>3, <1>4, <1>5, NextParts DEF Moves

LEMMA StopStepStep ==
  ASSUME IInv, StopStep
  PROVE  IInv' /\ Moves
<1>1. Control /\ Inv(s, Extra, {})
  BY DEF IInv
<1>2. pc' = pc /\ pipe' = pipe /\ due' = due
  BY DEF StopStep
<1>3. CASE phase = "running" /\ needToExit' = TRUE /\ phase' = "signal" /\ s' = s
  <2>1. Extra' = Extra
    BY <1>3 DEF Extra
  <2>2. Control'
    BY <1>1, <1>2, <1>3 DEF Control
  <2>3. Inv(s', Extra, {}) /\ Stays(s, s')
    BY <1>1, <1>3 DEF Stays
  <2> QED
    BY <1>2, <2>1, <2>2, <2>3, NextParts DEF Moves
<1>4. CASE phase = "ready" /\ phase' = "gone" /\ s' = Closed(s) /\ needToExit' = needToExit
  <2>1. pc = "off" /\ needToExit' \in BOOLEAN /\ pipe' \in BOOLEAN
    BY <1>1, <1>2, <1>4 DEF Control
  <2> QED
    BY <1>2, <1>4, <2>1, GoneStep
<1> QED
  BY <1>3, <1>4 DEF StopStep, Stop

LEMMA NotifyStep ==
  ASSUME IInv, NotifyThreadViaPipe
  PROVE  IInv' /\ Moves
<1>1. Control /\ Inv(s, Extra, {})
  BY DEF IInv
<1>2. phase = "signal" /\ phase' = "joining" /\ pipe' = TRUE /\ s' = s /\ pc' = pc
      /\ needToExit' = needToExit /\ due' = due
  BY DEF NotifyThreadViaPipe
<1>3. Extra' = Extra
  BY <1>2 DEF Extra
<1>4. Control'
  BY <1>1, <1>2 DEF Control
<1>5. Inv(s', Extra, {}) /\ Stays(s, s')
  BY <1>1, <1>2 DEF Stays
<1> QED
  BY <1>2, <1>3, <1>4, <1>5, NextParts DEF Moves

LEMMA JoinStep ==
  ASSUME IInv, Join
  PROVE  IInv' /\ Moves
<1>1. pc = "done" /\ phase' = "gone" /\ s' = Closed(s) /\ pipe' = FALSE /\ needToExit' = FALSE
      /\ pc' = pc /\ due' = due
  BY DEF Join
<1>2. pc \in {"off", "done"} /\ pipe' \in BOOLEAN /\ needToExit' \in BOOLEAN
  BY <1>1
<1> QED
  BY <1>1, <1>2, GoneStep

\* An event is handled: a connection is accepted, goes on or ends.
LEMMA HandleStep ==
  ASSUME NEW x, NEW p, p \cap ClientFd = {}, Inv(x, p, {}), NEW fd \in Nat,
         NEW accept, NEW pass, NEW y, y = HandleEvent(x, fd, accept, pass)
  PROVE  Inv(y, p, {}) /\ (Stays(x, y) \/ Loses(x, y) \/ Gains(x, y))
<1>1. CASE fd \in Roles
  <2>1. y = AcceptConnection(x, fd, accept, pass)
    BY <1>1 DEF HandleEvent
  <2>2. Inv(y, p, {}) /\ (Kept(x, y) \/ \E f \in ClientFd : Gained(x, y, f))
    BY <1>1, <2>1, AcceptStep
  <2> QED
    BY <2>2, KeptStays, GainedGains
<1>2. CASE fd \notin Roles
  <2>1. y = ProcessConnectionEvent(x, fd, pass)
    BY <1>2 DEF HandleEvent
  <2>2. Inv(y, p, {}) /\ (Kept(x, y) \/ (fd \in ClientFd /\ Lost(x, y, fd)))
    BY <2>1, ProcessStep
  <2> QED
    BY <2>2, KeptStays, LostLoses
<1> QED
  BY <1>1, <1>2

\* Tables that are the same have the same keys.
LEMMA SameAges ==
  ASSUME NEW x, NEW y, y.table = x.table, y.new = x.new
  PROVE  Young(y) = Young(x) /\ Aged(y) = Aged(x)
BY DEF Young, Aged, New, Old

LEMMA RunStep ==
  ASSUME IInv, NEW fd \in 0 .. (Pipe + Cardinality(Client)), Run(fd)
  PROVE  IInv' /\ Moves
<1>1. Control /\ Inv(s, Extra, {}) /\ pc = "poll" /\ due \in BOOLEAN
  BY DEF IInv, Run, Control
<1>2. phase' = phase /\ needToExit' = needToExit /\ pipe' = pipe /\ due' = due
  BY DEF Run
<1> DEFINE R == Ready(s)
           x == [s EXCEPT !.ep = P!EpollTake(@, R, fd)]
<1>3. IF needToExit \/ fd = Pipe THEN Exit(x)
      ELSE \E accept, pass \in BOOLEAN :
             /\ RateLimited \/ (accept /\ pass)
             /\ s' = HandleEvent(x, fd, accept, pass) /\ pc' = "sweep"
  BY DEF Run
<1> HIDE DEF R
<1>4. x = [s EXCEPT !.ep = P!EpollTake(@, R, fd)]
  OBVIOUS
<1> HIDE DEF x
<1>5. Inv(x, Extra, {}) /\ x.table = s.table /\ x.new = s.new
  BY <1>1, <1>4, TakeStep
<1>6. CASE needToExit \/ fd = Pipe
  <2>1. Exit(x)
    BY <1>3, <1>6
  <2>2. pc \in {"poll", "sweep"} /\ due' \in BOOLEAN
    BY <1>1, <1>2
  <2> QED
    BY <1>1, <1>2, <1>5, <2>1, <2>2, ExitStep
<1>7. CASE ~(needToExit \/ fd = Pipe)
  <2>1. PICK accept \in BOOLEAN, pass \in BOOLEAN : s' = HandleEvent(x, fd, accept, pass) /\ pc' = "sweep"
    BY <1>3, <1>7
  <2>2. fd \in Nat
    BY Descriptors DEF Pipe
  <2>3. Inv(s', Extra, {}) /\ (Stays(x, s') \/ Loses(x, s') \/ Gains(x, s'))
    BY <1>5, <2>1, <2>2, ExtraApart, HandleStep
  <2>4. Young(x) = Young(s) /\ Aged(x) = Aged(s)
    BY <1>5, SameAges
  <2>5. Stays(s, s') \/ Loses(s, s') \/ Gains(s, s')
    BY <2>3, <2>4 DEF Stays, Loses, Gains
  <2>6. IInv'
    <3>1. pc \in {"poll", "sweep"} /\ pc' \in {"poll", "sweep"} /\ due' \in BOOLEAN
      BY <1>1, <1>2, <2>1
    <3> QED
      BY <1>1, <1>2, <2>3, <3>1, GoesOn
  <2> QED
    BY <1>1, <2>1, <2>5, <2>6 DEF Moves
<1> QED
  BY <1>6, <1>7

LEMMA TimeoutStep ==
  ASSUME IInv, RunTimeout
  PROVE  IInv' /\ Moves
<1>1. Control /\ Inv(s, Extra, {}) /\ pc = "poll" /\ due \in BOOLEAN
  BY DEF IInv, RunTimeout, Control
<1>2. phase' = phase /\ needToExit' = needToExit /\ pipe' = pipe /\ due' = due
  BY DEF RunTimeout
<1>3. pc \in {"poll", "sweep"} /\ due' \in BOOLEAN
  BY <1>1, <1>2
<1>4. CASE needToExit
  <2>1. Exit(s)
    BY <1>4 DEF RunTimeout
  <2> QED
    BY <1>1, <1>2, <1>3, <2>1, ExitStep
<1>5. CASE ~needToExit
  <2>1. pc' = "sweep" /\ s' = s
    BY <1>5 DEF RunTimeout
  <2>2. Inv(s', Extra, {}) /\ pc' \in {"poll", "sweep"}
    BY <1>1, <2>1
  <2>3. IInv'
    BY <1>1, <1>2, <1>3, <2>2, GoesOn
  <2> QED
    BY <1>1, <2>1, <2>3 DEF Moves, Stays
<1> QED
  BY <1>4, <1>5

LEMMA SweepDeadStep ==
  ASSUME IInv, SweepDeadConnections
  PROVE  IInv' /\ Moves
<1>1. Control /\ Inv(s, Extra, {}) /\ pc = "sweep" /\ due \in BOOLEAN
  BY DEF IInv, SweepDeadConnections, Control
<1>2. phase' = phase /\ needToExit' = needToExit /\ pipe' = pipe /\ due' = FALSE
  BY DEF SweepDeadConnections
<1> DEFINE x == IF due THEN Sweep(s) ELSE s
           on == ~IsConnectionCountAtMax(x)
<1>3. IF needToExit THEN Exit(x)
      ELSE s' = SetListenSocketsOnEpoll(x, on) /\ pc' = "poll"
  BY DEF SweepDeadConnections
<1>4. x = IF due THEN Sweep(s) ELSE s
  OBVIOUS
<1>5. on \in BOOLEAN
  BY DEF IsConnectionCountAtMax
<1> HIDE DEF x, on
<1>6. Inv(x, Extra, {}) /\ (Stays(s, x) \/ Ages(s, x))
  <2>1. CASE due
    <3>1. x = Sweep(s)
      BY <1>4, <2>1
    <3>2. Inv(x, Extra, {}) /\ Swept(s, x)
      BY <1>1, <3>1, ExtraApart, SweepStep
    <3> QED
      BY <3>2, SweptAges
  <2>2. CASE ~due
    BY <1>1, <1>4, <2>2 DEF Stays
  <2> QED
    BY <2>1, <2>2
<1>7. pc \in {"poll", "sweep"} /\ due' \in BOOLEAN
  BY <1>1, <1>2
<1>8. CASE needToExit
  <2>1. Exit(x)
    BY <1>3, <1>8
  <2> QED
    BY <1>1, <1>2, <1>6, <1>7, <2>1, ExitStep
<1>9. CASE ~needToExit
  <2>1. s' = SetListenSocketsOnEpoll(x, on) /\ pc' = "poll"
    BY <1>3, <1>9
  <2>2. Inv(s', Extra, {}) /\ s'.table = x.table /\ s'.new = x.new
    BY <1>5, <1>6, <2>1, ExtraApart, ListenStep
  <2>3. Young(s') = Young(x) /\ Aged(s') = Aged(x)
    BY <2>2, SameAges
  <2>4. Stays(s, s') \/ Ages(s, s')
    BY <1>6, <2>3 DEF Stays, Ages
  <2>5. pc' \in {"poll", "sweep"}
    BY <2>1
  <2>6. IInv'
    BY <1>1, <1>2, <1>7, <2>2, <2>5, GoesOn
  <2> QED
    BY <1>1, <2>1, <2>4, <2>6 DEF Moves
<1> QED
  BY <1>8, <1>9

LEMMA TickStep ==
  ASSUME IInv, Tick
  PROVE  IInv' /\ Moves
<1>1. Control /\ Inv(s, Extra, {}) /\ pc \in {"poll", "sweep"}
  BY DEF IInv, Tick
<1>2. phase' = phase /\ pc' = pc /\ needToExit' = needToExit /\ pipe' = pipe /\ due' = TRUE /\ s' = s
  BY DEF Tick
<1>3. Inv(s', Extra, {}) /\ pc' \in {"poll", "sweep"} /\ due' \in BOOLEAN
  BY <1>1, <1>2
<1>4. IInv'
  BY <1>1, <1>2, <1>3, GoesOn
<1> QED
  BY <1>2, <1>4 DEF Moves, Stays

\* The client sends, reads or leaves.
LEMMA SpeakStep ==
  ASSUME IInv, NEW c \in Client, NEW u \in ClientRec,
         u.sock = s.cl[c].sock, u.st = s.cl[c].st, u.rcvd = s.cl[c].rcvd, u.got = s.cl[c].got,
         u.rcvd <= u.sent, s' = Spoken(s, c, u, s.backlog), UNCHANGED <<phase, pc, needToExit, pipe, due>>
  PROVE  IInv' /\ Moves
<1>1. Control /\ Inv(s, Extra, {})
  BY DEF IInv
<1>2. Shape(s) /\ Queued(s)
  BY <1>1 DEF Inv
<1>3. s.cl \in [Client -> ClientRec] /\ s.backlog \in [Roles -> Seq(Client)]
  BY <1>2 DEF Shape
<1> DEFINE cl == [s.cl EXCEPT ![c] = u]
<1>4. s' = Rec(s.table, s.new, s.conn, s.free, s.ep, s.listenOn, cl, s.backlog)
  BY DEF Spoken
<1>5. \A d \in Client : cl[d] = IF d = c THEN u ELSE s.cl[d]
  BY <1>3
<1> HIDE DEF cl
<1>6. s'.cl = cl /\ s'.backlog = s.backlog
  BY <1>4, RecFields
<1>7. \A d \in Client : /\ s'.cl[d].st = s.cl[d].st /\ s'.cl[d].rcvd = s.cl[d].rcvd
                        /\ s'.cl[d].got = s.cl[d].got
  BY <1>5, <1>6
<1>8. Queued(s')
  <2>1. \A r \in Roles : \A i \in DOMAIN s.backlog[r] : s.backlog[r][i] \in Client
    BY <1>3
  <2>2. \A r \in Roles : \A i \in DOMAIN s'.backlog[r] : s'.cl[s'.backlog[r][i]].st = "queued"
    BY <1>2, <1>6, <1>7, <2>1 DEF Queued
  <2>3. \A r, q \in Roles : \A i \in DOMAIN s'.backlog[r], j \in DOMAIN s'.backlog[q] :
          s'.backlog[r][i] = s'.backlog[q][j] => r = q /\ i = j
    BY <1>2, <1>6 DEF Queued
  <2>4. \A d \in Client : /\ s'.cl[d].rcvd <= s'.cl[d].sent
                          /\ s'.cl[d].st \in {"idle", "queued"} => s'.cl[d].rcvd = 0 /\ s'.cl[d].got = 0
    BY <1>2, <1>5, <1>6, <1>7 DEF Queued
  <2> QED
    BY <2>2, <2>3, <2>4 DEF Queued
<1>9. Speakable(s, c, u, s.backlog)
  BY <1>3 DEF Speakable
<1>10. Inv(s', Extra, {}) /\ Kept(s, s') /\ Live(s') = Live(s)
  BY <1>1, <1>8, <1>9, ClientStep
<1>11. phase \in {"new", "gone"} => \A d \in Client : s'.cl[d].st \in {"idle", "closed"}
  BY <1>1, <1>7 DEF Control
<1> QED
  BY <1>1, <1>10, <1>11, KernelStep

\* A client's record with one field changed.
LEMMA SpokenIs ==
  ASSUME NEW x, Shape(x), NEW c \in Client, NEW u
  PROVE  [x EXCEPT !.cl = [x.cl EXCEPT ![c] = u]] = Spoken(x, c, u, x.backlog)
<1>1. x = Rec(x.table, x.new, x.conn, x.free, x.ep, x.listenOn, x.cl, x.backlog)
  BY DEF Shape
<1> DEFINE cl == [x.cl EXCEPT ![c] = u]
<1>2. Spoken(x, c, u, x.backlog) = Rec(x.table, x.new, x.conn, x.free, x.ep, x.listenOn, cl, x.backlog)
  BY DEF Spoken
<1> HIDE DEF cl
<1>3. [x EXCEPT !.cl = cl] = Rec(x.table, x.new, x.conn, x.free, x.ep, x.listenOn, cl, x.backlog)
  BY <1>1 DEF Rec
<1> QED
  BY <1>2, <1>3 DEF cl

LEMMA SendStep ==
  ASSUME IInv, NEW c \in Client, Send(c)
  PROVE  IInv' /\ Moves
<1>1. Shape(s) /\ Queued(s)
  BY DEF IInv, Inv
<1>2. s.cl[c] \in ClientRec /\ s.cl[c].rcvd <= s.cl[c].sent
  BY <1>1 DEF Shape, Queued
<1> DEFINE u == [s.cl[c] EXCEPT !.sent = @ + 1]
<1>3. /\ u \in ClientRec /\ u.sock = s.cl[c].sock /\ u.st = s.cl[c].st /\ u.rcvd = s.cl[c].rcvd
      /\ u.got = s.cl[c].got /\ u.rcvd <= u.sent
  BY <1>2 DEF ClientRec
<1>4. s' = [s EXCEPT !.cl = [s.cl EXCEPT ![c] = u]] /\ UNCHANGED <<phase, pc, needToExit, pipe, due>>
  BY DEF Send, Kernel
<1> HIDE DEF u
<1>5. s' = Spoken(s, c, u, s.backlog)
  BY <1>1, <1>4, SpokenIs
<1> QED
  BY <1>3, <1>4, <1>5, SpeakStep

LEMMA ReadAnswerStep ==
  ASSUME IInv, NEW c \in Client, ReadAnswer(c)
  PROVE  IInv' /\ Moves
<1>1. Shape(s) /\ Queued(s)
  BY DEF IInv, Inv
<1>2. s.cl[c] \in ClientRec /\ s.cl[c].rcvd <= s.cl[c].sent
  BY <1>1 DEF Shape, Queued
<1> DEFINE u == [s.cl[c] EXCEPT !.room = Window]
<1>3. /\ u \in ClientRec /\ u.sock = s.cl[c].sock /\ u.st = s.cl[c].st /\ u.rcvd = s.cl[c].rcvd
      /\ u.got = s.cl[c].got /\ u.rcvd <= u.sent
  BY <1>2, TcpAssumption DEF ClientRec
<1>4. s' = [s EXCEPT !.cl = [s.cl EXCEPT ![c] = u]] /\ UNCHANGED <<phase, pc, needToExit, pipe, due>>
  BY DEF ReadAnswer, Kernel
<1> HIDE DEF u
<1>5. s' = Spoken(s, c, u, s.backlog)
  BY <1>1, <1>4, SpokenIs
<1> QED
  BY <1>3, <1>4, <1>5, SpeakStep

LEMMA LeaveStep ==
  ASSUME IInv, NEW c \in Client, NEW how \in {"fin", "rst"}, Leave(c, how)
  PROVE  IInv' /\ Moves
<1>1. Shape(s) /\ Queued(s)
  BY DEF IInv, Inv
<1>2. s.cl[c] \in ClientRec /\ s.cl[c].rcvd <= s.cl[c].sent
  BY <1>1 DEF Shape, Queued
<1> DEFINE u == [s.cl[c] EXCEPT !.gone = how]
<1>3. /\ u \in ClientRec /\ u.sock = s.cl[c].sock /\ u.st = s.cl[c].st /\ u.rcvd = s.cl[c].rcvd
      /\ u.got = s.cl[c].got /\ u.rcvd <= u.sent
  BY <1>2 DEF ClientRec
<1>4. s' = [s EXCEPT !.cl = [s.cl EXCEPT ![c] = u]] /\ UNCHANGED <<phase, pc, needToExit, pipe, due>>
  BY DEF Leave, Kernel
<1> HIDE DEF u
<1>5. s' = Spoken(s, c, u, s.backlog)
  BY <1>1, <1>4, SpokenIs
<1> QED
  BY <1>3, <1>4, <1>5, SpeakStep

LEMMA ConnectStep ==
  ASSUME IInv, NEW c \in Client, NEW role \in Roles, Connect(c, role)
  PROVE  IInv' /\ Moves
<1>1. Control /\ Inv(s, Extra, {}) /\ Shape(s) /\ Queued(s)
  BY DEF IInv, Inv
<1>2. s.cl[c] \in ClientRec /\ s.cl \in [Client -> ClientRec] /\ s.backlog \in [Roles -> Seq(Client)]
      /\ s = Rec(s.table, s.new, s.conn, s.free, s.ep, s.listenOn, s.cl, s.backlog)
  BY <1>1 DEF Shape
<1>3. phase \notin {"new", "gone"} /\ s.cl[c].st = "idle"
  BY DEF Connect
<1> DEFINE u == [s.cl[c] EXCEPT !.st = "queued"]
           q == s.backlog[role]
           b == [s.backlog EXCEPT ![role] = Append(@, c)]
           cl == [s.cl EXCEPT ![c] = u]
<1>4. u \in ClientRec /\ u.sock = s.cl[c].sock /\ u.st = "queued" /\ u.rcvd = s.cl[c].rcvd
      /\ u.got = s.cl[c].got /\ u.sent = s.cl[c].sent
  BY <1>2 DEF ClientRec
<1>5. s' = [s EXCEPT !.cl = cl, !.backlog = b] /\ UNCHANGED <<phase, pc, needToExit, pipe, due>>
  BY DEF Connect, Kernel
<1> HIDE DEF u
<1>6. \A d \in Client : cl[d] = IF d = c THEN u ELSE s.cl[d]
  BY <1>2
<1>7. q \in Seq(Client) /\ Append(q, c) \in Seq(Client) /\ Len(q) \in Nat
      /\ DOMAIN Append(q, c) = 1 .. (Len(q) + 1) /\ DOMAIN q = 1 .. Len(q)
      /\ Append(q, c)[Len(q) + 1] = c /\ \A i \in 1 .. Len(q) : Append(q, c)[i] = q[i]
  <2>1. q \in Seq(Client)
    BY <1>2
  <2> QED
    BY <2>1
<1>8. b \in [Roles -> Seq(Client)] /\ b[role] = Append(q, c) /\ \A r \in Roles : r # role => b[r] = s.backlog[r]
  BY <1>2, <1>7
<1> HIDE DEF b
<1>9. s' = Rec(s.table, s.new, s.conn, s.free, s.ep, s.listenOn, cl, b)
  <2> HIDE DEF cl
  <2> QED
    BY <1>2, <1>5 DEF Rec
<1>10. s' = Spoken(s, c, u, b)
  BY <1>9 DEF Spoken
<1> HIDE DEF cl
<1>11. s'.cl = cl /\ s'.backlog = b
  BY <1>9, RecFields
<1>12. Queued(s')
  \* Who waits after the step waited before it, or is c at the end of role's.
  <2>1. ASSUME NEW r \in Roles, NEW i \in DOMAIN b[r]
        PROVE  \/ i \in DOMAIN s.backlog[r] /\ b[r][i] = s.backlog[r][i] /\ b[r][i] \in Client /\ b[r][i] # c
                  /\ s.cl[b[r][i]].st = "queued"
               \/ r = role /\ i = Len(q) + 1 /\ b[r][i] = c
    <3>1. s.backlog[r] \in Seq(Client)
      BY <1>2
    <3>2. CASE r = role /\ i = Len(q) + 1
      BY <1>7, <1>8, <3>2
    <3>3. CASE ~(r = role /\ i = Len(q) + 1)
      <4>1. i \in DOMAIN s.backlog[r] /\ b[r][i] = s.backlog[r][i]
        <5>1. CASE r = role
          <6>1. i \in 1 .. (Len(q) + 1) /\ i # Len(q) + 1
            BY <1>7, <1>8, <3>3, <5>1
          <6>2. i \in 1 .. Len(q)
            BY <1>7, <6>1
          <6> QED
            BY <1>7, <1>8, <5>1, <6>2
        <5>2. CASE r # role
          BY <1>8, <5>2
        <5> QED
          BY <5>1, <5>2
      <4>2. s.cl[s.backlog[r][i]].st = "queued"
        BY <1>1, <4>1 DEF Queued
      <4>3. s.backlog[r][i] \in Client
        BY <3>1, <4>1
      <4> QED
        BY <1>3, <4>1, <4>2, <4>3
    <3> QED
      BY <3>2, <3>3
  <2>2. \A r \in Roles : \A i \in DOMAIN b[r] : cl[b[r][i]].st = "queued"
    BY <1>4, <1>6, <2>1
  <2>3. \A r, t \in Roles : \A i \in DOMAIN b[r], j \in DOMAIN b[t] : b[r][i] = b[t][j] => r = t /\ i = j
    <3> SUFFICES ASSUME NEW r \in Roles, NEW t \in Roles, NEW i \in DOMAIN b[r], NEW j \in DOMAIN b[t],
                        b[r][i] = b[t][j]
                 PROVE  r = t /\ i = j
      OBVIOUS
    <3>1. CASE b[r][i] = c
      BY <2>1, <3>1
    <3>2. CASE b[r][i] # c
      <4>1. /\ i \in DOMAIN s.backlog[r] /\ j \in DOMAIN s.backlog[t]
            /\ s.backlog[r][i] = s.backlog[t][j]
        BY <2>1, <3>2
      <4> QED
        BY <1>1, <4>1 DEF Queued
    <3> QED
      BY <3>1, <3>2
  <2>4. \A d \in Client : /\ cl[d].rcvd <= cl[d].sent
                          /\ cl[d].st \in {"idle", "queued"} => cl[d].rcvd = 0 /\ cl[d].got = 0
    BY <1>1, <1>3, <1>4, <1>6 DEF Queued
  <2> QED
    BY <1>11, <2>2, <2>3, <2>4 DEF Queued
<1>13. Speakable(s, c, u, b)
  BY <1>3, <1>4, <1>8 DEF Speakable
<1>14. Inv(s', Extra, {}) /\ Kept(s, s') /\ Live(s') = Live(s)
  BY <1>1, <1>10, <1>12, <1>13, ClientStep
<1> QED
  BY <1>1, <1>3, <1>5, <1>14, KernelStep

LEMMA InitIInv ==
  ASSUME Init
  PROVE  IInv /\ Young(s) = {} /\ Aged(s) = {}
<1> DEFINE cl == [c \in Client |-> Idle]
<1>1. s = Reset(cl) /\ phase = "new" /\ pc = "off" /\ needToExit = FALSE /\ pipe = FALSE /\ due = FALSE
  BY DEF Init
<1>2. Idle \in ClientRec /\ Idle.sock = NoSock /\ Idle.st = "idle" /\ Idle.rcvd = 0 /\ Idle.sent = 0 /\ Idle.got = 0
  <2>1. NoSock \in Sock /\ Window \in 0 .. Window
    BY TcpAssumption DEF Sock
  <2> QED
    BY <2>1 DEF Idle, ClientRec
<1>3. cl \in [Client -> ClientRec] /\ \A c \in Client : cl[c] = Idle
  BY <1>2
<1> HIDE DEF cl
<1>4. Apart(cl)
  BY <1>2, <1>3 DEF Apart
<1>5. Inv(s, {}, {}) /\ Live(s) = {} /\ NoKeys(s) /\ s.cl = cl
  BY <1>1, <1>4, ResetStep
<1>6. Extra = {}
  BY <1>1 DEF Extra
<1>7. Control
  BY <1>1, <1>2, <1>3, <1>5 DEF Control
<1> QED
  BY <1>5, <1>6, <1>7, NoKeysEmpty DEF IInv

LEMMA NextIInv ==
  ASSUME IInv, [Next]_vars
  PROVE  IInv' /\ Moves
<1>1. CASE UNCHANGED vars
  <2>1. s' = s /\ phase' = phase /\ pc' = pc /\ needToExit' = needToExit /\ pipe' = pipe /\ due' = due
    BY <1>1 DEF vars
  <2>2. Control /\ Inv(s, Extra, {})
    BY DEF IInv
  <2>3. Extra' = Extra /\ Inv(s', Extra, {})
    BY <2>1, <2>2 DEF Extra
  <2>4. Control'
    BY <2>1, <2>2 DEF Control
  <2> QED
    BY <2>1, <2>3, <2>4, NextParts DEF Moves, Stays
<1>2. CASE ThreadInit
  BY <1>2, ThreadInitStep
<1>3. CASE Start
  BY <1>3, StartStep
<1>4. CASE StopStep
  BY <1>4, StopStepStep
<1>5. CASE NotifyThreadViaPipe
  BY <1>5, NotifyStep
<1>6. CASE Join
  BY <1>6, JoinStep
<1>7. CASE Thread
  BY <1>7, RunStep, TimeoutStep, SweepDeadStep DEF Thread
<1>8. CASE Tick
  BY <1>8, TickStep
<1>9. ASSUME NEW c \in Client, NEW role \in Roles, Connect(c, role)
      PROVE  IInv' /\ Moves
  BY <1>9, ConnectStep
<1>10. ASSUME NEW c \in Client, Send(c) \/ ReadAnswer(c) \/ Leave(c, "fin") \/ Leave(c, "rst")
       PROVE  IInv' /\ Moves
  <2>1. "fin" \in {"fin", "rst"} /\ "rst" \in {"fin", "rst"}
    OBVIOUS
  <2> QED
    BY <1>10, <2>1, SendStep, ReadAnswerStep, LeaveStep
<1>11. CASE Finished
  BY <1>1, <1>11 DEF Finished
<1> QED
  BY <1>1, <1>2, <1>3, <1>4, <1>5, <1>6, <1>7, <1>8, <1>9, <1>10, <1>11 DEF Next

-----------------------------------------------------------------------------
(* Theorems. *)

\* Whatever clients, kernel and owner do, in whatever order, the record the
\* handlers share is in order between two steps.
THEOREM Invariant == Spec => []IInv
<1>1. Init => IInv
  BY InitIInv
<1>2. IInv /\ [Next]_vars => IInv'
  BY NextIInv
<1> QED
  BY <1>1, <1>2, PTL DEF Spec

LEMMA TypeFollows ==
  ASSUME IInv
  PROVE  TypeOK
<1>1. Control /\ Shape(s) /\ Queued(s)
  BY DEF IInv, Inv
<1>2. s.new \in 1 .. 2 /\ s.listenOn \in BOOLEAN /\ s.conn \in Seq(ConnRec) /\ s.cl \in [Client -> ClientRec]
  BY <1>1 DEF Shape
<1>3. \A k \in DOMAIN s.conn : s.conn[k] \in ConnRec
  BY <1>2
<1>4. ASSUME NEW k \in DOMAIN s.conn
      PROVE  /\ s.conn[k].sock \in ClientFd \cup {NoSock} /\ s.conn[k].id \in 0..2
             /\ s.conn[k].state \in {"Receiving", "Transmitting"} /\ s.conn[k].tx \in 0..RespUnits
  BY <1>3, <1>4 DEF ConnRec, Sock
<1>5. ASSUME NEW c \in Client
      PROVE  /\ s.cl[c].st \in {"idle", "queued", "open", "closed"}
             /\ s.cl[c].rcvd <= s.cl[c].sent /\ s.cl[c].room \in 0..Window
  <2>1. s.cl[c] \in ClientRec
    BY <1>2
  <2> QED
    BY <1>1, <2>1 DEF ClientRec, Queued
<1> QED
  BY <1>1, <1>2, <1>4, <1>5 DEF TypeOK, Control

\* Every field keeps its type: of the thread's state, the pooled objects and
\* the clients' ends, of which the server never reads more than was sent.
THEOREM TypeCorrect == Spec => []TypeOK
<1>1. IInv => TypeOK
  BY TypeFollows
<1> QED
  BY <1>1, Invariant, PTL

LEMMA StreamFollows ==
  ASSUME IInv
  PROVE  ReaderFollowsStream
<1>1. Shape(s) /\ Sockets(s) /\ \A k \in Live(s) : Follows(s, k)
  BY DEF IInv, Inv
<1>2. ASSUME NEW k \in Live(s)
      PROVE  InStream(s.conn[k], Owner(s, s.conn[k].sock), s.cl[Owner(s, s.conn[k].sock)])
  <2> DEFINE fd == s.conn[k].sock
  <2>1. Owner(s, fd) \in Client /\ s.cl[Owner(s, fd)].sock = fd
    BY <1>1, <1>2, OwnerOf
  <2> QED
    BY <1>1, <1>2, <2>1 DEF Follows
<1> QED
  BY <1>2 DEF ReaderFollowsStream, InStream

\* What a connection object reads and answers is the stream of the client at
\* the other end of its socket, whichever pooled object and descriptor it got.
THEOREM ReadersFollow == Spec => []ReaderFollowsStream
<1>1. IInv => ReaderFollowsStream
  BY StreamFollows
<1> QED
  BY <1>1, Invariant, PTL

\* Sets that a function matches have one size.
LEMMA OneToOne ==
  ASSUME NEW S, NEW T, IsFiniteSet(T), NEW f \in [S -> T],
         \A a, b \in S : f[a] = f[b] => a = b, \A t \in T : \E a \in S : f[a] = t
  PROVE  Cardinality(S) = Cardinality(T)
<1>1. f \in Injection(S, T)
  BY DEF Injection, IsInjective
<1>2. f \in Surjection(S, T)
  BY DEF Surjection
<1> QED
  BY <1>1, <1>2, FS_Injection

\* The free list is as long as there are objects without a socket.
LEMMA FreeCount ==
  ASSUME NEW x, NEW p, Inv(x, p, {})
  PROVE  /\ {x.free[i] : i \in DOMAIN x.free} = DOMAIN x.conn \ Live(x)
         /\ Len(x.free) = Cardinality(DOMAIN x.conn \ Live(x))
<1>1. Shape(x) /\ Pool(x)
  BY DEF Inv
<1>2. x.conn \in Seq(ConnRec) /\ x.free \in Seq(Nat)
  BY <1>1 DEF Shape
<1> DEFINE T == DOMAIN x.conn \ Live(x)
           n == Len(x.free)
           m == Len(x.conn)
<1>3. n \in Nat /\ DOMAIN x.free = 1 .. n /\ m \in Nat /\ DOMAIN x.conn = 1 .. m
  BY <1>2
<1>4. \A i \in DOMAIN x.free : x.free[i] \in T
  BY <1>1 DEF Pool, Live
<1>5. \A k \in T : \E i \in DOMAIN x.free : x.free[i] = k
  BY <1>1 DEF Pool, Live
<1>6. {x.free[i] : i \in DOMAIN x.free} = T
  BY <1>4, <1>5
<1>7. IsFiniteSet(T)
  <2>1. 1 \in Int /\ m \in Int /\ T \in SUBSET (1 .. m)
    BY <1>3
  <2> HIDE DEF m, T
  <2>2. IsFiniteSet(1 .. m)
    BY <2>1, FS_Interval
  <2> QED
    BY <2>1, <2>2, FS_Subset
<1> DEFINE D == 1 .. n
<1>8. x.free \in [D -> T] /\ (\A a, b \in D : x.free[a] = x.free[b] => a = b)
      /\ \A t \in T : \E a \in D : x.free[a] = t
  <2>1. x.free = [i \in D |-> x.free[i]]
    BY <1>2
  <2>2. \A a, b \in DOMAIN x.free : x.free[a] = x.free[b] => a = b
    BY <1>1 DEF Pool
  <2> HIDE DEF T
  <2> QED
    BY <1>3, <1>4, <1>5, <2>1, <2>2
<1>9. Cardinality(D) = n
  <2>1. 1 \in Int /\ n \in Int /\ (1 > n <=> n = 0) /\ n - 1 + 1 = n
    BY <1>3
  <2> HIDE DEF n
  <2>2. Cardinality(1 .. n) = IF 1 > n THEN 0 ELSE n - 1 + 1
    BY <2>1, FS_Interval
  <2>3. Cardinality(1 .. n) = n
    BY <1>3, <2>1, <2>2
  <2> QED
    BY <2>3
<1>10. Cardinality(D) = Cardinality(T)
  <2> HIDE DEF D, T
  <2> QED
    BY <1>7, <1>8, OneToOne
<1> QED
  BY <1>6, <1>9, <1>10

\* Sockets, connection objects and table entries are matched.
LEMMA FdsCount ==
  ASSUME NEW x, NEW p, Inv(x, p, {})
  PROVE  /\ Fds(x) = {x.cl[c].sock : c \in {d \in Client : x.cl[d].st = "open"}}
         /\ Cardinality(Fds(x)) = Cardinality(Live(x))
         /\ HP!Keys(x.table[1]) \cup HP!Keys(x.table[2]) = Fds(x)
         /\ x.table[1].size + x.table[2].size = Cardinality(Fds(x))
<1>1. Shape(x) /\ Sockets(x) /\ Tables(x) /\ \A k \in Live(x) : Held(x, k)
  BY DEF Inv
<1>2. ASSUME NEW k \in Live(x)
      PROVE  x.conn[k] \in ConnRec /\ x.conn[k].sock # NoSock /\ x.conn[k].sock \in ClientFd /\ k \in DOMAIN x.conn
             /\ x.conn[k].id \in 1 .. 2
  <2> DEFINE fd == x.conn[k].sock
  <2>1. x.conn[k] \in ConnRec /\ fd \in ClientFd
    BY <1>1, <1>2, OwnerOf
  <2>2. x.conn[k].id # 0
    BY <1>1, <1>2 DEF Held, Filed
  <2>3. x.conn[k].id \in 0 .. 2
    BY <2>1 DEF ConnRec
  <2> QED
    BY <1>2, <2>1, <2>2, <2>3 DEF Live
<1>3. Fds(x) = {x.cl[c].sock : c \in {d \in Client : x.cl[d].st = "open"}}
  <2>1. ASSUME NEW k \in Live(x)
        PROVE  \E c \in {d \in Client : x.cl[d].st = "open"} : x.conn[k].sock = x.cl[c].sock
    <3>1. PICK c \in Client : x.cl[c].sock = x.conn[k].sock
      BY <1>1, <1>2, <2>1 DEF Sockets
    <3>2. x.cl[c].st = "open"
      BY <1>1, <1>2, <2>1, <3>1 DEF Sockets
    <3> QED
      BY <3>1, <3>2
  <2>2. ASSUME NEW c \in Client, x.cl[c].st = "open"
        PROVE  \E k \in Live(x) : x.conn[k].sock = x.cl[c].sock
    <3>1. x.cl[c].sock # NoSock
      BY <1>1, <2>2 DEF Sockets
    <3>2. PICK k \in DOMAIN x.conn : x.conn[k].sock = x.cl[c].sock
      BY <1>1, <3>1 DEF Sockets
    <3> QED
      BY <3>1, <3>2 DEF Live
  <2> QED
    BY <2>1, <2>2 DEF Fds
<1>4. IsFiniteSet(Fds(x))
  <2>1. Fds(x) \in SUBSET ClientFd /\ IsFiniteSet(ClientFd)
    BY <1>2, Descriptors DEF Fds
  <2> QED
    BY <2>1, FS_Subset
<1>5. Cardinality(Live(x)) = Cardinality(Fds(x))
  <2> DEFINE S == Live(x)
             T == Fds(x)
             f == [k \in S |-> x.conn[k].sock]
  <2>1. f \in [S -> T] /\ \A t \in T : \E a \in S : f[a] = t
    BY DEF Fds
  <2>2. \A a, b \in S : f[a] = f[b] => a = b
    BY <1>1, <1>2 DEF Sockets
  <2> HIDE DEF S, T, f
  <2>3. IsFiniteSet(T)
    BY <1>4 DEF T
  <2>4. Cardinality(S) = Cardinality(T)
    BY <2>1, <2>2, <2>3, OneToOne
  <2> QED
    BY <2>4 DEF S, T
<1> DEFINE A == HP!Keys(x.table[1])
           B == HP!Keys(x.table[2])
<1>6. 1 \in 1 .. 2 /\ 2 \in 1 .. 2 /\ \A i \in 1 .. 2 : i = 1 \/ i = 2
  OBVIOUS
<1>7. ASSUME NEW i \in 1 .. 2, NEW fd \in HP!Keys(x.table[i])
      PROVE  \E k \in Live(x) : x.conn[k].sock = fd /\ x.conn[k].id = i
  <2>1. HP!Well(x.table[i], Nat) /\ \E k \in DOMAIN x.conn : x.conn[k].sock = fd /\ x.conn[k].id = i
    BY <1>1, <1>7 DEF Tables
  <2>2. fd \in Nat
    BY <1>7, <2>1, KeyNat
  <2>3. fd # NoSock
    BY <2>2 DEF NoSock
  <2> QED
    BY <2>1, <2>3 DEF Live
<1>8. A \cup B = Fds(x)
  <2>1. A \subseteq Fds(x) /\ B \subseteq Fds(x)
    BY <1>6, <1>7 DEF Fds
  <2>2. ASSUME NEW k \in Live(x)
        PROVE  x.conn[k].sock \in A \cup B
    <3>1. x.conn[k].sock \in HP!Keys(x.table[x.conn[k].id])
      BY <1>1, <2>2 DEF Held, Filed
    <3>2. x.conn[k].id = 1 \/ x.conn[k].id = 2
      BY <1>2, <1>6, <2>2
    <3> QED
      BY <3>1, <3>2
  <2> QED
    BY <2>1, <2>2 DEF Fds
<1>9. A \cap B = {}
  <2> SUFFICES ASSUME NEW fd \in A, fd \in B
               PROVE  FALSE
    OBVIOUS
  <2>1. PICK k \in Live(x) : x.conn[k].sock = fd /\ x.conn[k].id = 1
    BY <1>6, <1>7
  <2>2. PICK l \in Live(x) : x.conn[l].sock = fd /\ x.conn[l].id = 2
    BY <1>6, <1>7
  <2>3. k = l
    BY <1>1, <1>2, <2>1, <2>2 DEF Sockets
  <2> QED
    BY <2>1, <2>2, <2>3
<1>10. /\ IsFiniteSet(A) /\ Cardinality(A) = x.table[1].size /\ x.table[1].size \in Nat
       /\ IsFiniteSet(B) /\ Cardinality(B) = x.table[2].size /\ x.table[2].size \in Nat
  <2>1. HP!Well(x.table[1], Nat) /\ HP!Well(x.table[2], Nat)
    BY <1>1, <1>6 DEF Tables
  <2> QED
    BY <2>1, TableSize
<1> HIDE DEF A, B
<1>11. Cardinality(A \cup B) = Cardinality(A) + Cardinality(B)
  <2>1. Cardinality(A \cup B) = Cardinality(A) + Cardinality(B) - Cardinality(A \cap B)
    BY <1>10, FS_Union
  <2>2. Cardinality(A \cap B) = 0
    BY <1>9, FS_EmptySet
  <2> QED
    BY <1>10, <2>1, <2>2
<1> QED
  BY <1>3, <1>5, <1>8, <1>10, <1>11 DEF A, B

LEMMA TrackedFollows ==
  ASSUME IInv
  PROVE  ConnectionsTracked
<1>1. Control /\ Inv(s, Extra, {}) /\ Shape(s) /\ Sockets(s) /\ Tables(s) /\ Polled(s, Extra)
      /\ \A k \in Live(s) : Held(s, k)
  BY DEF IInv, Inv
<1>2. /\ Fds(s) = {s.cl[c].sock : c \in {d \in Client : s.cl[d].st = "open"}}
      /\ Cardinality(Fds(s)) = Cardinality(Live(s))
      /\ HP!Keys(s.table[1]) \cup HP!Keys(s.table[2]) = Fds(s)
      /\ s.table[1].size + s.table[2].size = Cardinality(Fds(s))
  BY <1>1, FdsCount
<1>3. /\ {s.free[i] : i \in DOMAIN s.free} = DOMAIN s.conn \ Live(s)
      /\ Len(s.free) = Cardinality(DOMAIN s.conn \ Live(s))
  BY <1>1, FreeCount
<1>4. 1 \in 1 .. 2 /\ 2 \in 1 .. 2
  OBVIOUS
<1>5. /\ HP!Well(s.table[1], Nat) /\ HP!Well(s.table[2], Nat)
      /\ s.table[1].size \in Nat /\ s.table[2].size \in Nat
  BY <1>1, <1>4, TableSize DEF Tables
<1>6. ConnCount(s) = Cardinality(Fds(s))
  <2>1. s.new \in 1 .. 2
    BY <1>1 DEF Shape
  <2>2. ConnCount(s) = s.table[s.new].size + s.table[3 - s.new].size
    BY DEF ConnCount, New, Old
  <2>3. CASE s.new = 1
    BY <1>2, <2>2, <2>3
  <2>4. CASE s.new = 2
    <3>1. ConnCount(s) = s.table[2].size + s.table[1].size
      BY <2>2, <2>4
    <3> QED
      BY <1>2, <1>5, <3>1
  <2> QED
    BY <2>1, <2>3, <2>4
<1>7. ASSUME NEW k \in Live(s)
      PROVE  /\ s.conn[k].id # 0 /\ H!Exists(s.table[s.conn[k].id], s.conn[k].sock)
             /\ H!Lookup(s.table[s.conn[k].id], s.conn[k].sock) = k
             /\ s.ep.interest[s.conn[k].sock]
                  = IF s.conn[k].state = "Receiving" THEN "read" ELSE "write"
  <2> DEFINE fd == s.conn[k].sock
             i == s.conn[k].id
  <2>1. /\ i # 0 /\ fd \in HP!Keys(s.table[i]) /\ HP!Lookup(s.table[i], fd) = k
        /\ s.ep.interest[fd] = Wants(s.conn[k])
    BY <1>1, <1>7 DEF Held, Filed
  <2>2. s.conn[k] \in ConnRec /\ fd \in ClientFd
    BY <1>1, <1>7, OwnerOf
  <2>3. i \in 1 .. 2 /\ fd \in Nat
    <3>1. i \in 0 .. 2
      BY <2>2 DEF ConnRec
    <3>2. i \in 1 .. 2
      BY <2>1, <3>1
    <3> QED
      BY <2>2, <3>2, Descriptors
  <2> HIDE DEF i, fd
  <2>4. HP!Well(s.table[i], Nat)
    BY <1>1, <2>3 DEF Tables
  <2>5. HP!Exists(s.table[i], fd)
    BY <2>1, <2>3, <2>4, HP!ExistsKey
  <2>6. H!Exists(s.table[i], fd) /\ H!Lookup(s.table[i], fd) = k
    BY <2>1, <2>5, SameTable
  <2> QED
    BY <2>1, <2>6 DEF i, fd, Wants
<1>8. H!Keys(s.table[1]) \cup H!Keys(s.table[2]) = Fds(s)
  BY <1>2, SameTable
<1>9. H!IndexSound(s.table[1]) /\ H!IndexSound(s.table[2])
  BY <1>5, HP!WellSound, SameSound
<1>10. DOMAIN s.ep.interest = Fds(s) \cup (IF s.listenOn THEN Roles ELSE {})
                                \cup (IF phase \in {"new", "gone"} THEN {} ELSE {Pipe})
  BY <1>1 DEF Polled, Extra
<1>11. Fds(s) = {s.conn[k].sock : k \in Live(s)}
  BY DEF Fds
<1> HIDE DEF ConnCount
<1> QED
  BY <1>2, <1>3, <1>6, <1>7, <1>8, <1>9, <1>10, <1>11 DEF ConnectionsTracked

\* Sockets, pooled objects, table entries and polled descriptors stay matched,
\* whatever the limits, and the tables' chains and positions stay in order.
THEOREM Tracked == Spec => []ConnectionsTracked
<1>1. IInv => ConnectionsTracked
  BY TrackedFollows
<1> QED
  BY <1>1, Invariant, PTL

LEMMA NothingLeftFollows ==
  ASSUME IInv
  PROVE  NothingLeftOpen
<1>1. Control /\ Inv(s, Extra, {}) /\ Shape(s) /\ Tables(s)
  BY DEF IInv, Inv
<1>2. ASSUME pc = "done"
      PROVE  Live(s) = {} /\ ConnCount(s) = 0
  <2>1. Live(s) = {}
    BY <1>1, <1>2 DEF Control
  <2>2. Cardinality(Live(s)) = 0
    BY <2>1, FS_EmptySet
  <2>3. ConnCount(s) = Cardinality(Fds(s)) /\ Cardinality(Fds(s)) = Cardinality(Live(s))
    BY TrackedFollows DEF ConnectionsTracked, Fds
  <2> QED
    BY <2>1, <2>2, <2>3
<1> QED
  BY <1>1, <1>2 DEF NothingLeftOpen, Control

\* ThreadCleanup closes every connection in either table, and Stop leaves no
\* client connected or waiting.
THEOREM LeavesNothingOpen == Spec => []NothingLeftOpen
<1>1. IInv => NothingLeftOpen
  BY NothingLeftFollows
<1> QED
  BY <1>1, Invariant, PTL

\* The two tables age, open and close connections only as ConnTracker allows:
\* a connection lives through one sweep at most, a descriptor that is accepted
\* is in neither table, and none is left when the thread has ended.
THEOREM ImplementsTrackerSteps == Spec => Tracker!Init /\ [][Tracker!Next]_Tracker!vars
<1>1. H!Keys(New(s)) = Young(s) /\ H!Keys(Old(s)) = Aged(s)
  BY SameTable DEF Young, Aged
<1>2. (H!Keys(New(s)))' = Young(s') /\ (H!Keys(Old(s)))' = Aged(s')
  <2>1. H!Keys(New(s')) = HP!Keys(New(s')) /\ H!Keys(Old(s')) = HP!Keys(Old(s'))
    BY SameTable
  <2> QED
    BY <2>1 DEF Young, Aged
<1>3. Init => Tracker!Init
  <2> SUFFICES ASSUME Init
               PROVE  Tracker!Init
    OBVIOUS
  <2>1. pc # "done"
    BY DEF Init
  <2> QED
    BY <1>1, <2>1, InitIInv DEF Tracker!Init
<1>4. IInv /\ [Next]_vars => [Tracker!Next]_Tracker!vars
  <2> SUFFICES ASSUME IInv, [Next]_vars
               PROVE  Tracker!Next \/ Tracker!vars' = Tracker!vars
    OBVIOUS
  <2>1. Moves
    BY NextIInv
  <2> DEFINE a == H!Keys(New(s))
             b == H!Keys(Old(s))
             r == pc # "done"
  <2>2. a = Young(s) /\ b = Aged(s) /\ a' = Young(s') /\ b' = Aged(s')
    BY <1>1, <1>2
  <2>3. CASE (pc' = "done" <=> pc = "done") /\ Stays(s, s')
    <3>1. a' = a /\ b' = b /\ r' = r
      BY <2>2, <2>3 DEF Stays
    <3> QED
      BY <3>1 DEF Tracker!vars
  <2>4. CASE (pc' = "done" <=> pc = "done") /\ Loses(s, s')
    <3>1. PICK fd \in ClientFd : Young(s') = Young(s) \ {fd} /\ Aged(s') = Aged(s) \ {fd}
      BY <2>4 DEF Loses
    <3>2. a' = a \ {fd} /\ b' = b \ {fd} /\ r' = r
      BY <2>2, <2>4, <3>1
    <3>3. Tracker!Close(fd)
      BY <3>2 DEF Tracker!Close
    <3> QED
      BY <3>3 DEF Tracker!Next
  <2>5. CASE pc # "done" /\ pc' # "done" /\ Gains(s, s')
    <3>1. PICK fd \in ClientFd : fd \notin Young(s) \cup Aged(s) /\ Young(s') = Young(s) \cup {fd} /\ Aged(s') = Aged(s)
      BY <2>5 DEF Gains
    <3>2. r /\ r' = r /\ fd \notin a \cup b /\ a' = a \cup {fd} /\ b' = b
      BY <2>2, <2>5, <3>1
    <3>3. Tracker!Open(fd)
      BY <3>2 DEF Tracker!Open
    <3> QED
      BY <3>3 DEF Tracker!Next
  <2>6. CASE pc # "done" /\ pc' # "done" /\ Ages(s, s')
    <3>1. r /\ r' = r /\ a' = {} /\ b' = a
      BY <2>2, <2>6 DEF Ages
    <3>2. Tracker!Sweep
      BY <3>1 DEF Tracker!Sweep
    <3> QED
      BY <3>2 DEF Tracker!Next
  <2>7. CASE pc' = "done" /\ Young(s') = {} /\ Aged(s') = {}
    <3>1. r' = FALSE /\ a' = {} /\ b' = {}
      BY <2>2, <2>7
    <3>2. Tracker!Quit
      BY <3>1 DEF Tracker!Quit
    <3> QED
      BY <3>2 DEF Tracker!Next
  <2> QED
    BY <2>1, <2>3, <2>4, <2>5, <2>6, <2>7 DEF Moves
<1> QED
  BY <1>3, <1>4, Invariant, PTL DEF Spec
=============================================================================
