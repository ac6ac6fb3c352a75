---------------------------- MODULE PollSetProofs ----------------------------
(***************************************************************************)
(* Proofs about a server thread that waits with poll(): for any finite set *)
(* of descriptors and any number of closed sockets the table finds every   *)
(* socket at its place in the array, and no event is handed out that an    *)
(* earlier socket with the same number left behind.                        *)
(***************************************************************************)
EXTENDS PollSet, NatLemmas, SequenceTheorems, FiniteSetTheorems, TLAPS

HP == INSTANCE FastHashProofs

-----------------------------------------------------------------------------
(* The invariant of a CPoll, and of the thread that uses it. *)

Entry == [fd : Fd, events : {"read"}, revents : BOOLEAN]

Places(p) == 1 .. Len(p.fds)

Shape(p) ==
  /\ p = [fds |-> p.fds, table |-> p.table, rotation |-> p.rotation, unread |-> p.unread]
  /\ p.fds \in Seq(Entry) /\ p.rotation \in Nat /\ p.unread \in Nat

\* The table leads from a socket to its place, as many sockets as it is big.
Tracked(p) ==
  /\ HP!Well(p.table, Nat) /\ p.table.fsize = Cardinality(Fd)
  /\ \A fd : fd \in HP!Keys(p.table) <=> \E i \in Places(p) : p.fds[i].fd = fd
  /\ \A i \in Places(p) : HP!Lookup(p.table, p.fds[i].fd) = i - 1

\* Only a socket that has got data since it was added is marked.
Genuine(p, got) == \A i \in Places(p) : p.fds[i].revents => p.fds[i].fd \in got

IInv ==
  /\ Shape(poll) /\ Tracked(poll) /\ Genuine(poll, fresh)
  /\ ready \subseteq fresh /\ fresh \subseteq Fd
  /\ last.current /\ last.fd \in Fd \cup {0}

-----------------------------------------------------------------------------
(* The table module and the module with its proofs. *)

\* They define the same operators.
LEMMA SameTable ==
  ASSUME NEW h, NEW key, NEW value
  PROVE  /\ P!H!InitTable(key, value) = HP!InitTable(key, value)
         /\ P!H!Exists(h, key) = HP!Exists(h, key)
         /\ P!H!Lookup(h, key) = HP!Lookup(h, key)
         /\ P!H!Insert(h, key, value) = HP!Insert(h, key, value)
         /\ P!H!SetValue(h, key, value) = HP!SetValue(h, key, value)
         /\ P!H!Remove(h, key) = HP!Remove(h, key)
         /\ P!H!Keys(h) = HP!Keys(h)
<1>1. P!H!InitTable(key, value) = HP!InitTable(key, value)
  BY DEF P!H!InitTable, HP!InitTable, P!H!Init, HP!Init, P!H!NoItem, HP!NoItem,
         P!H!FindPrime, HP!FindPrime, P!H!IsPrime, HP!IsPrime
<1>2. P!H!Places(h, key) = HP!Places(h, key) /\ P!H!Hash(h, key) = HP!Hash(h, key)
  BY DEF P!H!Places, HP!Places, P!H!Chain, HP!Chain, P!H!Hash, HP!Hash
<1>3. \A X : P!H!S!Min(X) = HP!S!Min(X)
  BY DEF P!H!S!Min, HP!S!Min
<1>4. P!H!IsFull(h) = HP!IsFull(h) /\ P!H!Exists(h, key) = HP!Exists(h, key)
  BY <1>2 DEF P!H!IsFull, HP!IsFull, P!H!Exists, HP!Exists
<1>5. P!H!Find(h, key) = HP!Find(h, key)
  BY <1>2, <1>3 DEF P!H!Find, HP!Find, P!H!Chain, HP!Chain
<1>6. P!H!Lookup(h, key) = HP!Lookup(h, key)
  BY <1>5 DEF P!H!Lookup, HP!Lookup
<1>7. P!H!Insert(h, key, value) = HP!Insert(h, key, value)
  BY <1>2, <1>4 DEF P!H!Insert, HP!Insert, P!H!UpdateIndexWithAdd, HP!UpdateIndexWithAdd
<1>8. P!H!SetValue(h, key, value) = HP!SetValue(h, key, value)
  BY <1>5 DEF P!H!SetValue, HP!SetValue
<1>9. P!H!Remove(h, key) = HP!Remove(h, key)
  <2>1. \A n : P!H!UpdateIndexWithRemove(h, n) = HP!UpdateIndexWithRemove(h, n)
    BY DEF P!H!UpdateIndexWithRemove, HP!UpdateIndexWithRemove
  <2>2. \A q, i : P!H!S!RemoveAt(q, i) = HP!S!RemoveAt(q, i)
    BY DEF P!H!S!RemoveAt, HP!S!RemoveAt
  <2>3. P!H!NoItem = HP!NoItem
    BY DEF P!H!NoItem, HP!NoItem
  <2> QED
    BY <1>2, <1>3, <1>4, <1>5, <2>1, <2>2, <2>3 DEF P!H!Remove, HP!Remove
<1>10. P!H!Keys(h) = HP!Keys(h)
  BY DEF P!H!Keys, HP!Keys, P!H!Nodes, HP!Nodes, P!H!S!ToSet, HP!S!ToSet
<1> QED
  BY <1>1, <1>4, <1>6, <1>7, <1>8, <1>9, <1>10

\* Soundness means the same in both.
LEMMA SameSound ==
  ASSUME NEW h
  PROVE  P!H!IndexSound(h) = HP!IndexSound(h)
<1>1. \A q : P!H!S!FlattenSeq(q) = HP!S!FlattenSeq(q)
  BY DEF P!H!S!FlattenSeq, HP!S!FlattenSeq
<1>2. P!H!Indexed(h) = HP!Indexed(h)
  BY <1>1 DEF P!H!Indexed, HP!Indexed, P!H!ReIndex, HP!ReIndex
<1>3. P!H!Nodes(h) = HP!Nodes(h) /\ \A q : P!H!S!ToSet(q) = HP!S!ToSet(q)
  BY DEF P!H!Nodes, HP!Nodes, P!H!S!ToSet, HP!S!ToSet
<1>4. \A k : P!H!Hash(h, k) = HP!Hash(h, k)
  BY DEF P!H!Hash, HP!Hash
<1>5. \A X : P!H!Cardinality(X) = HP!Cardinality(X)
  BY DEF P!H!Cardinality, HP!Cardinality, P!H!IsFiniteSet, HP!IsFiniteSet
<1> QED
  BY <1>2, <1>3, <1>4, <1>5 DEF P!H!IndexSound, HP!IndexSound

-----------------------------------------------------------------------------
(* The array. *)

\* An entry of the array, field by field.
LEMMA EntryOf ==
  ASSUME NEW p, Shape(p), NEW i \in Places(p)
  PROVE  /\ p.fds[i] \in Entry /\ p.fds[i].fd \in Fd /\ p.fds[i].revents \in BOOLEAN
         /\ Len(p.fds) \in Nat /\ i \in Nat \ {0} /\ i <= Len(p.fds)
<1> DEFINE s == p.fds
<1>1. s \in Seq(Entry) /\ i \in 1 .. Len(s)
  BY DEF Shape, Places
<1> HIDE DEF s
<1>2. s[i] \in Entry /\ Len(s) \in Nat
  BY <1>1
<1>3. s[i].fd \in Fd /\ s[i].revents \in BOOLEAN
  BY <1>2 DEF Entry
<1> QED
  BY <1>1, <1>2, <1>3 DEF s

\* No socket is there twice.
LEMMA Once ==
  ASSUME NEW p, Shape(p), Tracked(p), NEW i \in Places(p), NEW j \in Places(p),
         p.fds[i].fd = p.fds[j].fd
  PROVE  i = j
<1>1. i - 1 = j - 1
  BY DEF Tracked
<1> QED
  BY <1>1 DEF Places, Shape

\* A sequence that is given place by place.
LEMMA Arranged ==
  ASSUME NEW n \in Nat, NEW f, f = [i \in 1 .. n |-> f[i]], \A i \in 1 .. n : f[i] \in Entry
  PROVE  f \in Seq(Entry) /\ Len(f) = n
<1>1. f \in [1 .. n -> Entry]
  OBVIOUS
<1> QED
  BY <1>1

\* An array of sockets that are all in the table has a place for one more.
LEMMA RoomLeft ==
  ASSUME NEW p, Shape(p), Tracked(p), NEW fd \in Fd, fd \notin HP!Keys(p.table)
  PROVE  ~HP!IsFull(p.table)
<1> DEFINE K == HP!Keys(p.table)
<1>1. /\ HP!IsFull(p.table) <=> p.table.size = p.table.fsize
      /\ IsFiniteSet(K) /\ Cardinality(K) = p.table.size
  <2>1. HP!Well(p.table, Nat)
    BY DEF Tracked
  <2>2. /\ HP!IsFull(p.table) <=> p.table.size = p.table.fsize
        /\ HP!IsFiniteSet(K) /\ HP!Cardinality(K) = p.table.size
    BY <2>1, HP!FullMeansSize
  <2> QED
    BY <2>2 DEF HP!Cardinality, HP!IsFiniteSet, Cardinality, IsFiniteSet
<1>2. K \subseteq Fd
  BY EntryOf DEF Tracked
<1> HIDE DEF K
<1>3. Cardinality(K) # Cardinality(Fd)
  BY <1>2, FdAssumption, FS_Subset DEF K
<1> QED
  BY <1>1, <1>3 DEF Tracked

\* A table that leads to the sockets of an array leads to the same sockets at
\* the same places of another one.
LEMMA SamePlaces ==
  ASSUME NEW p, Shape(p), Tracked(p), NEW g, Shape(g), g.table = p.table,
         Len(g.fds) = Len(p.fds), \A i \in Places(p) : g.fds[i].fd = p.fds[i].fd
  PROVE  Tracked(g)
<1>1. Places(g) = Places(p)
  BY DEF Places
<1> QED
  BY <1>1 DEF Tracked

-----------------------------------------------------------------------------
(* The operations of CPoll. *)

\* A new socket goes to the end of the array (Add).
LEMMA AddStep ==
  ASSUME NEW p, Shape(p), Tracked(p), NEW fd \in Fd, ~\E i \in Places(p) : p.fds[i].fd = fd,
         NEW g, g = P!PollAdd(p, fd, "read")
  PROVE  /\ Shape(g) /\ Tracked(g)
         /\ \A i \in Places(g) : IF i \in Places(p) THEN g.fds[i] = p.fds[i]
                                 ELSE g.fds[i].fd = fd /\ ~g.fds[i].revents
<1> DEFINE n == Len(p.fds)
           e == [fd |-> fd, events |-> "read", revents |-> FALSE]
           q == Append(p.fds, e)
           t == HP!Insert(p.table, fd, n)
<1>1. HP!Well(p.table, Nat) /\ fd \in Nat /\ fd \notin HP!Keys(p.table)
  BY FdAssumption DEF Tracked
<1>2. ~HP!IsFull(p.table) /\ ~P!H!Exists(p.table, fd)
  BY <1>1, RoomLeft, SameTable, HP!ExistsKey
<1>3. p.fds \in Seq(Entry) /\ n \in Nat /\ e \in Entry /\ p.rotation \in Nat /\ p.unread \in Nat
  BY DEF Shape, Entry
<1>4. g = [fds |-> q, table |-> t, rotation |-> p.rotation, unread |-> p.unread]
  <2>1. P!H!Insert(p.table, fd, n) = t
    BY SameTable
  <2>2. g = [p EXCEPT !.fds = q, !.table = t]
    BY <1>2, <2>1 DEF P!PollAdd
  <2>3. p = [fds |-> p.fds, table |-> p.table, rotation |-> p.rotation, unread |-> p.unread]
    BY DEF Shape
  <2> HIDE DEF q, t
  <2> QED
    BY <2>2, <2>3
<1> HIDE DEF e
<1>5. /\ q \in Seq(Entry) /\ Len(q) = n + 1
      /\ \A i \in 1 .. n : q[i] = p.fds[i]
      /\ q[n + 1] = e
  BY <1>3, AppendProperties
<1>6. /\ HP!Well(t, Nat) /\ t.fsize = p.table.fsize
      /\ HP!Keys(t) = HP!Keys(p.table) \cup {fd} /\ HP!Lookup(t, fd) = n
      /\ \A b \in HP!Keys(p.table) : HP!Lookup(t, b) = HP!Lookup(p.table, b)
  BY <1>1, <1>2, <1>3, HP!InsertMap
<1> HIDE DEF q, t
<1>7. Shape(g) /\ g.fds = q /\ g.table = t /\ Places(g) = 1 .. (n + 1)
  BY <1>3, <1>4, <1>5 DEF Shape, Places
<1>8. \A i \in Places(g) : i \in Places(p) \/ i = n + 1
  BY <1>3, <1>7 DEF Places
<1>9. \A i \in Places(p) : i \in Places(g) /\ i # n + 1 /\ g.fds[i] = p.fds[i]
  BY <1>3, <1>5, <1>7 DEF Places
<1>10. n + 1 \in Places(g) /\ g.fds[n + 1] = e /\ e.fd = fd /\ ~e.revents /\ (n + 1) - 1 = n
  BY <1>3, <1>5, <1>7 DEF e
<1> HIDE DEF n
<1>11. Tracked(g)
  <2>1. \A f : f \in HP!Keys(g.table) <=> \E i \in Places(g) : g.fds[i].fd = f
    <3> TAKE f
    <3>1. f \in HP!Keys(g.table) <=> f = fd \/ \E i \in Places(p) : p.fds[i].fd = f
      BY <1>6, <1>7 DEF Tracked
    <3> QED
      BY <1>8, <1>9, <1>10, <3>1
  <2>2. ASSUME NEW i \in Places(g)
        PROVE  HP!Lookup(g.table, g.fds[i].fd) = i - 1
    <3>1. CASE i \in Places(p)
      <4>1. p.fds[i].fd \in HP!Keys(p.table) /\ HP!Lookup(p.table, p.fds[i].fd) = i - 1
        BY <3>1 DEF Tracked
      <4> QED
        BY <1>6, <1>7, <1>9, <3>1, <4>1
    <3>2. CASE i = n + 1
      BY <1>6, <1>7, <1>10, <3>2
    <3> QED
      BY <1>8, <3>1, <3>2
  <2> QED
    BY <1>6, <1>7, <2>1, <2>2 DEF Tracked
<1> QED
  BY <1>7, <1>8, <1>9, <1>10, <1>11

\* A socket leaves, and the last one takes its place (Remove).
LEMMA RemoveStep ==
  ASSUME NEW p, Shape(p), Tracked(p), NEW fd \in Fd, NEW k \in Places(p), p.fds[k].fd = fd,
         NEW g, g = P!PollRemove(p, fd)
  PROVE  /\ Shape(g) /\ Tracked(g)
         /\ \A i \in Places(g) : \E j \in Places(p) : j # k /\ g.fds[i] = p.fds[j]
<1> DEFINE n == Len(p.fds)
           z == p.fds[n].fd
           m == IF k = n THEN p.fds ELSE [p.fds EXCEPT ![k] = p.fds[n]]
           u == IF k = n THEN p.table ELSE HP!SetValue(p.table, z, k - 1)
           q == SubSeq(m, 1, n - 1)
           t == HP!Remove(u, fd)
<1>1. /\ p.fds \in Seq(Entry) /\ n \in Nat /\ n # 0 /\ k \in 1 .. n /\ k \in Nat
      /\ p.rotation \in Nat /\ p.unread \in Nat /\ n \in Places(p) /\ k - 1 \in Nat
      /\ fd \in Nat /\ z \in Nat /\ Places(p) = 1 .. n
  <2>1. p.fds \in Seq(Entry) /\ p.rotation \in Nat /\ p.unread \in Nat
    BY DEF Shape
  <2>2. n \in Nat /\ n # 0 /\ k \in 1 .. n /\ n \in Places(p) /\ k \in Nat /\ k - 1 \in Nat
    BY <2>1 DEF Places
  <2>3. z \in Fd
    BY <2>2, EntryOf
  <2>4. Places(p) = 1 .. n
    BY DEF Places
  <2> QED
    BY <2>1, <2>2, <2>3, <2>4, FdAssumption
<1>2. /\ HP!Well(p.table, Nat) /\ fd \in HP!Keys(p.table) /\ z \in HP!Keys(p.table)
      /\ HP!Lookup(p.table, fd) = k - 1
  BY <1>1 DEF Tracked
<1>3. \A i \in Places(p) : (p.fds[i].fd = fd => i = k) /\ (p.fds[i].fd = z => i = n)
  BY <1>1, Once
<1> DEFINE pos == P!H!Lookup(p.table, fd)
<1>4. /\ P!H!Exists(p.table, fd) /\ pos = k - 1
      /\ pos = n - 1 <=> k = n
      /\ pos + 1 = k
  <2>1. P!H!Exists(p.table, fd) /\ pos = HP!Lookup(p.table, fd)
    BY <1>1, <1>2, SameTable, HP!ExistsKey
  <2>2. pos = k - 1
    BY <1>2, <2>1
  <2> HIDE DEF pos
  <2> QED
    BY <1>1, <2>1, <2>2
<1>5. g = [fds |-> q, table |-> t, rotation |-> p.rotation, unread |-> p.unread]
  <2> DEFINE moved == IF pos = n - 1 THEN p
                      ELSE [p EXCEPT !.fds[pos + 1] = p.fds[n],
                                     !.table = P!H!SetValue(@, p.fds[n].fd, pos)]
  <2>1. g = [moved EXCEPT !.table = P!H!Remove(@, fd), !.fds = P!S!Front(@)]
    BY <1>1, <1>4 DEF P!PollRemove
  <2>2. p = [fds |-> p.fds, table |-> p.table, rotation |-> p.rotation, unread |-> p.unread]
    BY DEF Shape
  <2>3. moved = [fds |-> m, table |-> u, rotation |-> p.rotation, unread |-> p.unread]
    <3>1. CASE k = n
      <4>1. moved = p /\ m = p.fds /\ u = p.table
        BY <1>4, <3>1
      <4> QED
        BY <2>2, <4>1
    <3>2. CASE k # n
      <4>1. moved = [p EXCEPT !.fds[k] = p.fds[n], !.table = P!H!SetValue(@, z, k - 1)]
        BY <1>4, <3>2
      <4>2. P!H!SetValue(p.table, z, k - 1) = u
        BY <3>2, SameTable
      <4>3. m = [p.fds EXCEPT ![k] = p.fds[n]]
        BY <3>2
      <4> HIDE DEF m, u, moved, z
      <4> QED
        BY <2>2, <4>1, <4>2, <4>3
    <3> QED
      BY <3>1, <3>2
  <2>4. P!H!Remove(u, fd) = t
    BY SameTable
  <2>5. P!S!Front(m) = q
    <3>1. Len(m) = n
      BY <1>1
    <3> HIDE DEF m
    <3> QED
      BY <3>1 DEF P!S!Front
  <2> HIDE DEF moved, m, u, q, t
  <2> QED
    BY <2>1, <2>3, <2>4, <2>5
<1>6. m \in Seq(Entry) /\ Len(m) = n /\ \A i \in 1 .. n : m[i] = p.fds[IF i = k THEN n ELSE i]
  <2>1. p.fds[n] \in Entry
    BY <1>1, EntryOf
  <2>2. CASE k = n
    BY <1>1, <2>2
  <2>3. CASE k # n
    BY <1>1, <2>1, <2>3, ExceptSeq
  <2> QED
    BY <2>2, <2>3
<1> HIDE DEF m
<1>7. q \in Seq(Entry) /\ Len(q) = n - 1 /\ \A i \in 1 .. (n - 1) : q[i] = m[i]
  BY <1>1, <1>6
<1>8. /\ HP!Well(u, Nat) /\ u.fsize = p.table.fsize /\ HP!Keys(u) = HP!Keys(p.table)
      /\ k # n => HP!Lookup(u, z) = k - 1
      /\ \A b \in HP!Keys(p.table) : b # z => HP!Lookup(u, b) = HP!Lookup(p.table, b)
  BY <1>1, <1>2, HP!SetValueMap, SMTT(60)
<1> HIDE DEF u
<1>9. /\ HP!Well(t, Nat) /\ t.fsize = u.fsize /\ HP!Keys(t) = HP!Keys(u) \ {fd}
      /\ \A b \in HP!Keys(t) : HP!Lookup(t, b) = HP!Lookup(u, b)
  <2>1. HP!Well(u, Nat) /\ fd \in Nat /\ fd \in HP!Keys(u) /\ 0 \in Nat
    BY <1>1, <1>2, <1>8
  <2> HIDE DEF n, z, q, pos
  <2> QED
    BY <2>1, HP!RemoveMap, SMTT(60), ZenonT(60)
<1> HIDE DEF n, z, pos, q, t
<1>10. Shape(g) /\ g.fds = q /\ g.table = t /\ Places(g) = 1 .. (n - 1)
  <2>1. Shape(g) /\ g.fds = q /\ g.table = t /\ Places(g) = 1 .. Len(q)
    <3>1. q \in Seq(Entry) /\ p.rotation \in Nat /\ p.unread \in Nat
      BY <1>1, <1>7
    <3> QED
      BY <1>5, <3>1 DEF Shape, Places
  <2> QED
    BY <1>7, <2>1
<1> DEFINE from(i) == IF i = k THEN n ELSE i
<1>11. \A i \in Places(g) : /\ from(i) \in Places(p) /\ from(i) # k /\ i # n
                            /\ g.fds[i] = p.fds[from(i)]
  BY <1>1, <1>6, <1>7, <1>10 DEF Places
<1>12. \A j \in Places(p) : j # k => \E i \in Places(g) : from(i) = j
  <2> TAKE j \in Places(p)
  <2> HAVE j # k
  <2>1. CASE j = n
    <3>1. k \in Places(g) /\ from(k) = j
      BY <1>1, <1>10, <2>1
    <3> QED
      BY <3>1
  <2>2. CASE j # n
    <3>1. j \in Places(g) /\ from(j) = j
      BY <1>1, <1>10, <2>2
    <3> QED
      BY <3>1
  <2> QED
    BY <2>1, <2>2
<1>13. \A f : f \in HP!Keys(g.table) <=> \E i \in Places(g) : g.fds[i].fd = f
  <2> TAKE f
  <2>1. f \in HP!Keys(g.table) <=> f # fd /\ \E j \in Places(p) : p.fds[j].fd = f
    BY <1>8, <1>9, <1>10 DEF Tracked
  <2>2. ASSUME NEW i \in Places(g), g.fds[i].fd = f
        PROVE  f # fd /\ \E j \in Places(p) : p.fds[j].fd = f
    <3> DEFINE j == from(i)
    <3>1. j \in Places(p) /\ j # k /\ p.fds[j].fd = f
      BY <1>11, <2>2
    <3> HIDE DEF j
    <3> QED
      BY <1>3, <3>1
  <2>3. ASSUME f # fd, NEW j \in Places(p), p.fds[j].fd = f
        PROVE  \E i \in Places(g) : g.fds[i].fd = f
    <3>1. j # k
      BY <2>3
    <3>2. PICK i \in Places(g) : from(i) = j
      BY <1>12, <3>1
    <3>3. g.fds[i].fd = f
      BY <1>11, <2>3, <3>2
    <3> QED
      BY <3>3
  <2> QED
    BY <2>1, <2>2, <2>3
<1>14. ASSUME NEW i \in Places(g)
       PROVE  HP!Lookup(g.table, g.fds[i].fd) = i - 1
  <2> DEFINE b == g.fds[i].fd
  <2>1. b \in HP!Keys(t) /\ b \in HP!Keys(p.table)
    BY <1>8, <1>9, <1>10, <1>13
  <2>2. HP!Lookup(g.table, b) = HP!Lookup(u, b)
    BY <1>9, <1>10, <2>1
  <2>3. CASE i = k
    <3>1. b = z /\ k # n
      BY <1>11, <2>3 DEF z
    <3> HIDE DEF b
    <3> QED
      BY <1>8, <2>2, <2>3, <3>1 DEF b
  <2>4. CASE i # k
    <3>1. b = p.fds[i].fd /\ i \in Places(p) /\ i # n
      BY <1>11, <2>4
    <3>2. b # z /\ HP!Lookup(p.table, b) = i - 1
      BY <1>3, <3>1 DEF Tracked
    <3> HIDE DEF b
    <3>3. HP!Lookup(g.table, b) = i - 1
      BY <1>8, <2>1, <2>2, <3>2
    <3> QED
      BY <3>3 DEF b
  <2> QED
    BY <2>3, <2>4
<1>15. Tracked(g)
  BY <1>8, <1>9, <1>10, <1>13, <1>14 DEF Tracked
<1> QED
  BY <1>10, <1>11, <1>15

\* The search from the rotating start finds a marked socket when one is there
\* (FindNextEvent).
LEMMA SlotMarked ==
  ASSUME NEW p, Shape(p), P!PollFound(p)
  PROVE  P!PollSlot(p) \in Places(p) /\ p.fds[P!PollSlot(p)].revents
<1> DEFINE n == Len(p.fds)
           M == {i \in Places(p) : p.fds[i].revents}
           start == IF p.rotation >= n THEN 0 ELSE p.rotation
           at(k) == ((k + start) % n) + 1
           first == CHOOSE k \in 0 .. (n - 1) :
                      at(k) \in M /\ \A j \in 0 .. (k - 1) : at(j) \notin M
<1>1. n \in Nat /\ Places(p) = 1 .. n /\ DOMAIN p.fds = 1 .. n /\ p.rotation \in Nat
  BY DEF Shape, Places
<1>2. P!Marked(p) = M
  BY <1>1 DEF P!Marked
<1>3. PICK i \in M : TRUE
  BY <1>2 DEF P!PollFound
<1>4. n \in Nat \ {0} /\ i \in 1 .. n
  <2>1. i \in 1 .. n
    BY <1>1, <1>3
  <2> HIDE DEF n, M
  <2> QED
    BY <1>1, <2>1
<1>5. P!PollSlot(p) = at(first)
  BY <1>2 DEF P!PollSlot
<1>6. start \in 0 .. (n - 1)
  BY <1>1, <1>4
<1> HIDE DEF n, M, start
<1>7. PICK m \in 0 .. (n - 1) : at(m) \in M
  <2> DEFINE l == i - 1
  <2>1. l \in 0 .. (n - 1) /\ l + 1 = i
    BY <1>4
  <2> HIDE DEF l
  <2>2. PICK m \in 0 .. (n - 1) : (m + start) % n = l
    BY <1>4, <1>6, <2>1, RingReached
  <2>3. at(m) = i
    BY <2>1, <2>2
  <2> QED
    BY <1>3, <2>2, <2>3
<1> HIDE DEF at
<1> DEFINE T == {k \in 0 .. (n - 1) : at(k) \in M}
<1>8. T \subseteq Nat /\ T # {}
  <2>1. 0 .. (n - 1) \subseteq Nat
    BY <1>4
  <2> QED
    BY <1>7, <2>1
<1>9. PICK x \in T : \A y \in T : x <= y
  <2> HIDE DEF T
  <2> QED
    BY <1>8, LeastNat
<1>10. \A j \in 0 .. (x - 1) : at(j) \notin M
  <2> SUFFICES ASSUME NEW j \in 0 .. (x - 1), at(j) \in M
               PROVE  FALSE
    OBVIOUS
  <2>1. j \in 0 .. (n - 1) /\ ~(x <= j)
    BY <1>4
  <2> QED
    BY <1>9, <2>1
<1>11. at(first) \in M
  BY <1>9, <1>10
<1> QED
  BY <1>5, <1>11 DEF M

\* An event is handed out: its mark goes (WaitForNextEvent).
LEMMA TakeStep ==
  ASSUME NEW p, Shape(p), Tracked(p), P!PollFound(p), NEW g, g = P!PollTake(p)
  PROVE  /\ Shape(g) /\ Tracked(g) /\ Places(g) = Places(p)
         /\ \A i \in Places(p) : /\ g.fds[i].fd = p.fds[i].fd
                                 /\ g.fds[i].revents => p.fds[i].revents
<1> DEFINE s == P!PollSlot(p)
           e == [p.fds[s] EXCEPT !.revents = FALSE]
           q == [p.fds EXCEPT ![s] = e]
           r == (IF p.rotation >= Len(p.fds) THEN 0 ELSE p.rotation) + 1
           u == p.unread - 1
<1>1. /\ p.fds \in Seq(Entry) /\ Len(p.fds) \in Nat /\ Places(p) = 1 .. Len(p.fds)
      /\ p.rotation \in Nat /\ p.unread \in Nat
  BY DEF Shape, Places
<1>2. r \in Nat /\ u \in Nat
  BY <1>1 DEF P!PollFound
<1>3. s \in Places(p) /\ p.fds[s] \in Entry
  BY SlotMarked, EntryOf
<1>4. g = [fds |-> q, table |-> p.table, rotation |-> r, unread |-> u]
  <2>1. g = [p EXCEPT !.fds = q, !.rotation = r, !.unread = u]
    BY DEF P!PollTake
  <2>2. p = [fds |-> p.fds, table |-> p.table, rotation |-> p.rotation, unread |-> p.unread]
    BY DEF Shape
  <2> HIDE DEF q, r, u
  <2> QED
    BY <2>1, <2>2
<1> HIDE DEF s, r, u
<1>5. e \in Entry /\ e.fd = p.fds[s].fd /\ ~e.revents
  BY <1>3 DEF Entry
<1> HIDE DEF e
<1>6. /\ q \in Seq(Entry) /\ Len(q) = Len(p.fds)
      /\ \A i \in Places(p) : q[i] = IF i = s THEN e ELSE p.fds[i]
  BY <1>1, <1>3, <1>5, ExceptSeq
<1> HIDE DEF q
<1>7. Shape(g) /\ g.fds = q /\ g.table = p.table /\ Places(g) = Places(p)
  BY <1>1, <1>2, <1>4, <1>6 DEF Shape, Places
<1>8. \A i \in Places(p) : /\ g.fds[i].fd = p.fds[i].fd
                           /\ g.fds[i].revents => p.fds[i].revents
  BY <1>5, <1>6, <1>7
<1>9. Tracked(g)
  BY <1>6, <1>7, <1>8, SamePlaces
<1> QED
  BY <1>7, <1>8, <1>9

\* A search that finds nothing leaves array and table alone.
LEMMA MissStep ==
  ASSUME NEW p, Shape(p), Tracked(p), NEW g, g = P!PollMiss(p)
  PROVE  Shape(g) /\ Tracked(g) /\ g.fds = p.fds
<1> DEFINE r == IF p.unread # 0 /\ p.rotation >= Len(p.fds) THEN 0 ELSE p.rotation
<1>1. p.fds \in Seq(Entry) /\ p.rotation \in Nat /\ 0 \in Nat /\ r \in Nat
  BY DEF Shape
<1>2. g = [fds |-> p.fds, table |-> p.table, rotation |-> r, unread |-> 0]
  <2>1. g = [p EXCEPT !.unread = 0, !.rotation = r]
    BY DEF P!PollMiss
  <2>2. p = [fds |-> p.fds, table |-> p.table, rotation |-> p.rotation, unread |-> p.unread]
    BY DEF Shape
  <2> HIDE DEF r
  <2> QED
    BY <2>1, <2>2
<1> HIDE DEF r
<1>3. Shape(g) /\ g.fds = p.fds /\ g.table = p.table
  BY <1>1, <1>2 DEF Shape, Places
<1>4. Tracked(g)
  BY <1>3, SamePlaces
<1> QED
  BY <1>3, <1>4

\* poll() marks the sockets that are ready, and these only.
LEMMA RefillStep ==
  ASSUME NEW p, Shape(p), Tracked(p), NEW R, NEW g, g = P!PollRefill(p, R)
  PROVE  /\ Shape(g) /\ Tracked(g) /\ Places(g) = Places(p)
         /\ \A i \in Places(p) : /\ g.fds[i].fd = p.fds[i].fd
                                 /\ g.fds[i].revents => p.fds[i].fd \in R
<1> DEFINE n == Len(p.fds)
           q == [i \in 1 .. n |-> [p.fds[i] EXCEPT !.revents = p.fds[i].fd \in R]]
           C == {i \in 1 .. n : p.fds[i].fd \in R}
<1>1. /\ p.fds \in Seq(Entry) /\ n \in Nat /\ Places(p) = 1 .. n /\ DOMAIN p.fds = 1 .. n
      /\ p.rotation \in Nat
  BY DEF Shape, Places
<1>2. g = [p EXCEPT !.fds = q, !.unread = P!Cardinality(C)]
  BY <1>1 DEF P!PollRefill
<1>3. P!Cardinality(C) \in Nat
  <2>1. IsFiniteSet(1 .. n)
    BY <1>1, FS_Interval
  <2>2. Cardinality(C) \in Nat
    BY <2>1, FS_Subset, FS_CardinalityType
  <2>3. P!Cardinality(C) = Cardinality(C)
    BY DEF P!Cardinality, Cardinality, P!IsFiniteSet, IsFiniteSet
  <2> QED
    BY <2>2, <2>3
<1> DEFINE u == P!Cardinality(C)
<1>4. g = [fds |-> q, table |-> p.table, rotation |-> p.rotation, unread |-> u]
  <2>1. p = [fds |-> p.fds, table |-> p.table, rotation |-> p.rotation, unread |-> p.unread]
    BY DEF Shape
  <2> HIDE DEF q, C
  <2> QED
    BY <1>2, <2>1
<1>5. ASSUME NEW i \in 1 .. n
      PROVE  q[i] \in Entry /\ q[i].fd = p.fds[i].fd /\ (q[i].revents => p.fds[i].fd \in R)
  <2> DEFINE e == p.fds[i]
             b == e.fd \in R
             c == [e EXCEPT !.revents = b]
  <2>1. e \in Entry
    BY <1>1, EntryOf
  <2>2. q[i] = c
    OBVIOUS
  <2>3. b \in BOOLEAN
    OBVIOUS
  <2> HIDE DEF q, e, b
  <2>4. c \in Entry /\ c.fd = e.fd /\ c.revents = b
    BY <2>1, <2>3 DEF Entry
  <2> QED
    BY <2>2, <2>4 DEF e, b
<1>6. q = [i \in 1 .. n |-> q[i]]
  OBVIOUS
<1> HIDE DEF q, u, n
<1>7. q \in Seq(Entry) /\ Len(q) = n
  BY <1>1, <1>5, <1>6, Arranged
<1>8. Shape(g) /\ g.fds = q /\ g.table = p.table /\ Places(g) = Places(p)
  BY <1>1, <1>3, <1>4, <1>7 DEF Shape, Places, u
<1>9. Tracked(g)
  BY <1>1, <1>5, <1>7, <1>8, SamePlaces DEF n
<1> QED
  BY <1>1, <1>5, <1>8, <1>9

-----------------------------------------------------------------------------
(* The thread. *)

LEMMA InitIInv ==
  PollStart => IInv
<1> SUFFICES ASSUME PollStart
             PROVE  IInv
  OBVIOUS
<1> DEFINE n == Cardinality(Fd)
           t == HP!InitTable(n, 0)
<1>1. n \in Nat \ {0}
  BY FdAssumption, FS_CardinalityType, FS_EmptySet
<1>2. \E q \in n .. (2 * n + 2) : HP!IsPrime(q)
  <2>1. \A q : P!H!IsPrime(q) = HP!IsPrime(q)
    BY DEF P!H!IsPrime, HP!IsPrime
  <2> QED
    BY FdPrimeAssumption, <2>1
<1> HIDE DEF n
<1>3. HP!Well(t, Nat) /\ HP!Keys(t) = {} /\ t.fsize = n
  <2>1. 0 \in Nat
    OBVIOUS
  <2> QED
    BY <1>1, <1>2, <2>1, HP!InitMap, SMTT(60), ZenonT(60)
<1>4. poll = [fds |-> <<>>, table |-> t, rotation |-> 0, unread |-> 0]
  BY SameTable DEF PollStart, P!PollInitialize, n
<1> HIDE DEF t
<1>5. Shape(poll) /\ Places(poll) = {} /\ poll.table = t
  BY <1>4 DEF Shape, Places
<1>6. Tracked(poll) /\ Genuine(poll, fresh)
  BY <1>3, <1>5 DEF Tracked, Genuine, n
<1> QED
  BY <1>5, <1>6 DEF IInv, PollStart

LEMMA AddIInv ==
  ASSUME IInv, NEW fd \in Fd, Add(fd)
  PROVE  IInv'
<1>1. ~\E i \in Places(poll) : poll.fds[i].fd = fd
  BY DEF Add, Listed, Places, IInv, Shape
<1>2. /\ Shape(poll') /\ Tracked(poll')
      /\ \A i \in Places(poll') : IF i \in Places(poll) THEN poll'.fds[i] = poll.fds[i]
                                  ELSE poll'.fds[i].fd = fd /\ ~poll'.fds[i].revents
  BY <1>1, AddStep DEF Add, IInv
<1>3. Genuine(poll', fresh)
  BY <1>2 DEF Genuine, IInv
<1> QED
  BY <1>2, <1>3 DEF IInv, Add, Shape, Tracked, Genuine, Places

LEMMA DropIInv ==
  ASSUME IInv, NEW fd \in Fd, Drop(fd)
  PROVE  IInv'
<1>1. PICK k \in Places(poll) : poll.fds[k].fd = fd
  BY DEF Drop, Listed, Places, IInv, Shape
<1>2. /\ Shape(poll') /\ Tracked(poll')
      /\ \A i \in Places(poll') : \E j \in Places(poll) : j # k /\ poll'.fds[i] = poll.fds[j]
  BY <1>1, RemoveStep DEF Drop, IInv
<1>3. fresh' = fresh \ {fd} /\ ready' = ready \ {fd} /\ last' = last
  BY DEF Drop
<1>4. Genuine(poll', fresh')
  <2> SUFFICES ASSUME NEW i \in Places(poll'), poll'.fds[i].revents
               PROVE  poll'.fds[i].fd \in fresh'
    BY DEF Genuine
  <2>1. PICK j \in Places(poll) : j # k /\ poll'.fds[i] = poll.fds[j]
    BY <1>2
  <2>2. poll.fds[j].fd # fd
    BY <1>1, <2>1, Once DEF IInv
  <2>3. poll.fds[j].fd \in fresh
    BY <2>1 DEF IInv, Genuine
  <2> QED
    BY <1>3, <2>1, <2>2, <2>3
<1> QED
  BY <1>2, <1>3, <1>4 DEF IInv, Shape, Tracked, Genuine, Places

LEMMA ArrivesIInv ==
  ASSUME IInv, NEW fd \in Fd, Arrives(fd)
  PROVE  IInv'
<1>1. /\ poll' = poll /\ last' = last
      /\ ready' = ready \cup {fd} /\ fresh' = fresh \cup {fd}
  BY DEF Arrives
<1>2. Genuine(poll, fresh')
  BY <1>1 DEF IInv, Genuine
<1> QED
  BY <1>1, <1>2 DEF IInv, Shape, Tracked, Genuine, Places

LEMMA WaitIInv ==
  ASSUME IInv, WaitForNextEvent
  PROVE  IInv'
<1> DEFINE missed == P!PollMiss(poll)
           p == IF P!PollFound(poll) THEN poll ELSE P!PollRefill(missed, ready)
           s == P!PollSlot(p)
<1>1. Shape(poll) /\ Tracked(poll) /\ Genuine(poll, fresh) /\ ready \subseteq fresh
  BY DEF IInv
<1>2. Shape(missed) /\ Tracked(missed) /\ missed.fds = poll.fds
  BY <1>1, MissStep
<1>3. Genuine(missed, fresh)
  BY <1>1, <1>2 DEF Genuine, Places
<1>4. Shape(p) /\ Tracked(p) /\ Genuine(p, fresh)
  <2>1. CASE P!PollFound(poll)
    BY <1>1, <2>1
  <2>2. CASE ~P!PollFound(poll)
    <3> DEFINE g == P!PollRefill(missed, ready)
    <3>1. /\ Shape(g) /\ Tracked(g) /\ Places(g) = Places(missed)
          /\ \A i \in Places(missed) : /\ g.fds[i].fd = missed.fds[i].fd
                                       /\ g.fds[i].revents => missed.fds[i].fd \in ready
      BY <1>2, RefillStep
    <3>2. p = g
      BY <2>2
    <3> HIDE DEF g, p, missed
    <3>3. Genuine(g, fresh)
      BY <1>1, <3>1 DEF Genuine
    <3> QED
      BY <3>1, <3>2, <3>3
  <2> QED
    BY <2>1, <2>2
<1>5. /\ IF P!PollFound(p)
           THEN /\ poll' = P!PollTake(p) /\ ready' = ready \ {p.fds[s].fd}
                /\ last' = [fd |-> p.fds[s].fd, current |-> p.fds[s].fd \in fresh]
           ELSE poll' = missed /\ UNCHANGED <<ready, last>>
      /\ fresh' = fresh
  BY DEF WaitForNextEvent
<1> HIDE DEF missed, p
<1>6. CASE P!PollFound(p)
  <2>1. s \in Places(p) /\ p.fds[s].revents
    BY <1>4, <1>6, SlotMarked
  <2>2. p.fds[s].fd \in fresh /\ p.fds[s].fd \in Fd
    BY <1>4, <2>1, EntryOf DEF Genuine
  <2> HIDE DEF s
  <2>3. /\ Shape(poll') /\ Tracked(poll') /\ Places(poll') = Places(p)
        /\ \A i \in Places(p) : /\ poll'.fds[i].fd = p.fds[i].fd
                                /\ poll'.fds[i].revents => p.fds[i].revents
    BY <1>4, <1>5, <1>6, TakeStep
  <2>4. Genuine(poll', fresh)
    BY <1>4, <2>3 DEF Genuine
  <2>5. last'.current /\ last'.fd \in Fd
    <3> DEFINE f == p.fds[s].fd
               b == f \in fresh
    <3>1. last' = [fd |-> f, current |-> b]
      BY <1>5, <1>6
    <3>2. b = TRUE /\ f \in Fd
      BY <2>2
    <3> HIDE DEF f, b
    <3>3. last' = [fd |-> f, current |-> TRUE]
      BY <3>1, <3>2
    <3> QED
      BY <3>2, <3>3
  <2> QED
    BY <1>5, <1>6, <2>3, <2>4, <2>5 DEF IInv, Shape, Tracked, Genuine, Places
<1>7. CASE ~P!PollFound(p)
  BY <1>2, <1>3, <1>5, <1>7 DEF IInv, Shape, Tracked, Genuine, Places
<1> QED
  BY <1>6, <1>7

(***************************************************************************)
(* Every step of the thread preserves the invariant.                       *)
(***************************************************************************)
LEMMA NextIInv ==
  IInv /\ [PollNext]_pollVars => IInv'
<1> SUFFICES ASSUME IInv, [PollNext]_pollVars
             PROVE  IInv'
  OBVIOUS
<1>1. ASSUME NEW fd \in Fd, Add(fd) \/ Drop(fd) \/ Arrives(fd)
      PROVE  IInv'
  BY <1>1, AddIInv, DropIInv, ArrivesIInv
<1>2. CASE WaitForNextEvent
  BY <1>2, WaitIInv
<1>3. CASE UNCHANGED pollVars
  BY <1>3 DEF IInv, pollVars, Shape, Tracked, Genuine, Places
<1> QED
  BY <1>1, <1>2, <1>3 DEF PollNext

\* The invariant says what is to be shown.
LEMMA IInvConsistent ==
  IInv => PollConsistent
<1> SUFFICES ASSUME IInv
             PROVE  PollConsistent
  OBVIOUS
<1>1. Shape(poll) /\ Tracked(poll) /\ DOMAIN poll.fds = Places(poll)
  BY DEF IInv, Shape, Places
<1>2. P!H!IndexSound(poll.table)
  BY <1>1, HP!WellSound, SameSound DEF Tracked
<1>3. P!H!Keys(poll.table) = {poll.fds[i].fd : i \in DOMAIN poll.fds}
  <2>1. P!H!Keys(poll.table) = HP!Keys(poll.table)
    BY SameTable
  <2> QED
    BY <1>1, <2>1 DEF Tracked
<1>4. \A i \in DOMAIN poll.fds : P!H!Lookup(poll.table, poll.fds[i].fd) = i - 1
  <2> TAKE i \in DOMAIN poll.fds
  <2>1. P!H!Lookup(poll.table, poll.fds[i].fd) = HP!Lookup(poll.table, poll.fds[i].fd)
    BY SameTable
  <2> QED
    BY <1>1, <2>1 DEF Tracked
<1> QED
  BY <1>2, <1>3, <1>4 DEF PollConsistent, P!PollSound, IInv

(***************************************************************************)
(* The invariant holds.                                                    *)
(***************************************************************************)
THEOREM PollInvariant ==
  PollSpec => []IInv
<1>1. PollStart => IInv
  BY InitIInv
<1>2. IInv /\ [PollNext]_pollVars => IInv'
  BY NextIInv
<1> QED
  BY <1>1, <1>2, PTL DEF PollSpec

(***************************************************************************)
(* However sockets are added, closed and added again between two waits,    *)
(* the table finds each at its place in the array, and no event is one of  *)
(* an earlier socket with the same number (CPoll::Add, Remove, Wait).      *)
(***************************************************************************)
THEOREM PollAlwaysConsistent ==
  PollSpec => []PollConsistent
<1>1. IInv => PollConsistent
  BY IInvConsistent
<1> QED
  BY <1>1, PollInvariant, PTL
=============================================================================
