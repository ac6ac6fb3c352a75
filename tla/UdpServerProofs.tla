-------------------------- MODULE UdpServerProofs --------------------------
(***************************************************************************)
(* Proofs about the UDP server: for any roles, clients, table size, clock  *)
(* and limits, the limiter's table stays in order, and only those who sent *)
(* enough are refused.                                                     *)
(***************************************************************************)
EXTENDS UdpServer, NatLemmas, SequenceTheorems, FiniteSetTheorems, TLAPS

HP == INSTANCE FastHashProofs

-----------------------------------------------------------------------------
(* The table of the limiter. *)

Tracker == [count : Nat, first : Nat, last : Nat, penalty : Nat]

\* What the nodes of the table hold: a tracker or, while free, nothing.
Value == Tracker \cup {0}

Well(h) == HP!Well(h, Value)

\* The table module and the module with its proofs define the same operators.
LEMMA SameTable ==
  ASSUME NEW h, NEW key, NEW value
  PROVE  /\ H!InitTable(key, value) = HP!InitTable(key, value)
         /\ H!ResetTable(h) = HP!ResetTable(h)
         /\ H!IsFull(h) = HP!IsFull(h)
         /\ H!Exists(h, key) = HP!Exists(h, key)
         /\ H!Lookup(h, key) = HP!Lookup(h, key)
         /\ H!Insert(h, key, value) = HP!Insert(h, key, value)
         /\ H!SetValue(h, key, value) = HP!SetValue(h, key, value)
         /\ H!Remove(h, key) = HP!Remove(h, key)
         /\ H!Keys(h) = HP!Keys(h)
<1>1. H!InitTable(key, value) = HP!InitTable(key, value) /\ H!ResetTable(h) = HP!ResetTable(h)
  BY DEF H!InitTable, HP!InitTable, H!ResetTable, HP!ResetTable, H!Init, HP!Init, H!NoItem,
         HP!NoItem, H!FindPrime, HP!FindPrime, H!IsPrime, HP!IsPrime
<1> USE DEF H!Hash, HP!Hash, H!Chain, HP!Chain, H!Places, HP!Places, H!S!Min, HP!S!Min
<1>2. H!IsFull(h) = HP!IsFull(h) /\ H!Exists(h, key) = HP!Exists(h, key)
  BY DEF H!IsFull, HP!IsFull, H!Exists, HP!Exists
<1>3. H!Find(h, key) = HP!Find(h, key)
  BY DEF H!Find, HP!Find
<1>4. H!Lookup(h, key) = HP!Lookup(h, key)
  BY <1>3 DEF H!Lookup, HP!Lookup
<1>5. H!Insert(h, key, value) = HP!Insert(h, key, value)
  BY DEF H!Insert, HP!Insert, H!IsFull, HP!IsFull, H!UpdateIndexWithAdd, HP!UpdateIndexWithAdd
<1>6. H!SetValue(h, key, value) = HP!SetValue(h, key, value)
  BY DEF H!SetValue, HP!SetValue, H!Find, HP!Find
<1>7. H!Remove(h, key) = HP!Remove(h, key)
  BY DEF H!Remove, HP!Remove, H!Exists, HP!Exists, H!Find, HP!Find, H!NoItem, HP!NoItem,
         H!UpdateIndexWithRemove, HP!UpdateIndexWithRemove, H!S!RemoveAt, HP!S!RemoveAt
<1>8. H!Keys(h) = HP!Keys(h)
  BY DEF H!Keys, HP!Keys, H!Nodes, HP!Nodes, H!S!ToSet, HP!S!ToSet
<1> QED
  BY <1>1, <1>2, <1>4, <1>5, <1>6, <1>7, <1>8

\* Soundness, too, means the same in both.
LEMMA SameSound ==
  ASSUME NEW h
  PROVE  H!IndexSound(h) = HP!IndexSound(h)
<1>1. \A q : H!S!FlattenSeq(q) = HP!S!FlattenSeq(q)
  BY DEF H!S!FlattenSeq, HP!S!FlattenSeq
<1>2. H!Indexed(h) = HP!Indexed(h)
  BY <1>1 DEF H!Indexed, HP!Indexed, H!ReIndex, HP!ReIndex
<1>3. H!Nodes(h) = HP!Nodes(h) /\ \A q : H!S!ToSet(q) = HP!S!ToSet(q)
  BY DEF H!Nodes, HP!Nodes, H!S!ToSet, HP!S!ToSet
<1>4. \A k : H!Hash(h, k) = HP!Hash(h, k)
  BY DEF H!Hash, HP!Hash
<1>5. \A X : H!Cardinality(X) = HP!Cardinality(X)
  BY DEF H!Cardinality, HP!Cardinality, H!IsFiniteSet, HP!IsFiniteSet
<1> QED
  BY <1>2, <1>3, <1>4, <1>5 DEF H!IndexSound, HP!IndexSound

\* Table g holds for every key but addr what table h holds for it.
Others(g, h, addr) ==
  \A b \in H!Keys(g) : b # addr => b \in H!Keys(h) /\ H!Lookup(g, b) = H!Lookup(h, b)

\* A new address is admitted, if need be into a table that is dumped.
LEMMA AdmitStep ==
  ASSUME NEW h, Well(h), NEW addr \in Nat, addr \notin H!Keys(h), NEW time \in Nat,
         NEW g, g = Admit(h, addr, time)
  PROVE  /\ Well(g) /\ Others(g, h, addr) /\ addr \in H!Keys(g)
         /\ H!Lookup(g, addr) = [count |-> 1, first |-> time, last |-> time, penalty |-> 0]
<1> DEFINE rt == [count |-> 1, first |-> time, last |-> time, penalty |-> 0]
           k == IF HP!IsFull(h) THEN HP!ResetTable(h) ELSE h
<1>1. rt \in Value
  BY DEF Value, Tracker
<1> HIDE DEF rt
<1>2. HP!Well(h, Value) /\ addr \notin HP!Keys(h) /\ 0 \in Value
  BY SameTable DEF Well, Value
<1>3. /\ HP!Well(k, Value) /\ ~HP!IsFull(k) /\ addr \notin HP!Keys(k)
      /\ HP!Keys(k) = {} \/ k = h
  BY <1>2, HP!ResetMap
<1> HIDE DEF k
<1>4. g = HP!Insert(k, addr, rt)
  BY SameTable DEF Admit, k, rt
<1>5. /\ HP!Well(g, Value) /\ HP!Keys(g) = HP!Keys(k) \cup {addr}
      /\ HP!Lookup(g, addr) = rt
      /\ \A b \in HP!Keys(k) : HP!Lookup(g, b) = HP!Lookup(k, b)
  BY <1>1, <1>3, <1>4, HP!InsertMap
<1>6. Others(g, h, addr)
  <2> SUFFICES ASSUME NEW b \in H!Keys(g), b # addr
               PROVE  b \in H!Keys(h) /\ H!Lookup(g, b) = H!Lookup(h, b)
    BY DEF Others
  <2>1. /\ H!Keys(g) = HP!Keys(g) /\ H!Keys(h) = HP!Keys(h)
        /\ H!Lookup(g, b) = HP!Lookup(g, b) /\ H!Lookup(h, b) = HP!Lookup(h, b)
    BY SameTable, ZenonT(60)
  <2>2. b \in HP!Keys(k) /\ HP!Lookup(g, b) = HP!Lookup(k, b)
    BY <1>5, <2>1
  <2>3. k = h
    BY <1>3, <2>2
  <2> QED
    BY <2>1, <2>2, <2>3
<1> QED
  BY <1>5, <1>6, SameTable DEF Well, rt

\* The tracker of an address that is there is replaced.
LEMMA KeepStep ==
  ASSUME NEW h, Well(h), NEW addr \in Nat, addr \in H!Keys(h), NEW v \in Tracker,
         NEW g, g = H!SetValue(h, addr, v)
  PROVE  /\ Well(g) /\ Others(g, h, addr) /\ addr \in H!Keys(g)
         /\ H!Lookup(g, addr) = v
<1>1. /\ HP!Well(h, Value) /\ addr \in HP!Keys(h) /\ v \in Value
      /\ g = HP!SetValue(h, addr, v)
  BY SameTable DEF Well, Value
<1>2. /\ HP!Well(g, Value) /\ HP!Keys(g) = HP!Keys(h) /\ HP!Lookup(g, addr) = v
      /\ \A b \in HP!Keys(h) : b # addr => HP!Lookup(g, b) = HP!Lookup(h, b)
  BY <1>1, HP!SetValueMap
<1> QED
  BY <1>1, <1>2, SameTable DEF Well, Others

\* The tracker of an address is dropped.
LEMMA DropStep ==
  ASSUME NEW h, Well(h), NEW addr \in Nat, addr \in H!Keys(h),
         NEW g, g = H!Remove(h, addr)
  PROVE  Well(g) /\ Others(g, h, addr) /\ addr \notin H!Keys(g)
<1>1. /\ HP!Well(h, Value) /\ addr \in HP!Keys(h) /\ 0 \in Value
      /\ g = HP!Remove(h, addr)
  BY SameTable DEF Well, Value
<1>2. /\ HP!Well(g, Value) /\ HP!Keys(g) = HP!Keys(h) \ {addr}
      /\ \A b \in HP!Keys(g) : HP!Lookup(g, b) = HP!Lookup(h, b)
  BY <1>1, HP!RemoveMap
<1> QED
  BY <1>1, <1>2, SameTable DEF Well, Others

-----------------------------------------------------------------------------
(* The rate check. *)

\* A tracker is either below the rate or in the penalty box, for no longer
\* than the penalty from now.
Good(rt, time) ==
  /\ rt \in Tracker
  /\ rt.penalty = 0 => get_rate(rt) < MAX_RATE
  /\ rt.penalty <= time + PENALTY_TIME_SECONDS

LimiterOK(h, time) ==
  Well(h) /\ \A b \in H!Keys(h) : Good(H!Lookup(h, b), time)

\* A rate is a number, and 0 up to the count that is worth looking at.
LEMMA RateIsNumber ==
  ASSUME NEW rt \in Tracker
  PROVE  /\ get_rate(rt) \in Int
         /\ rt.count < MIN_COUNT_FOR_CONSIDERATION => get_rate(rt) = 0
<1> DEFINE n == rt.count * 3600
           d == IF rt.last > rt.first THEN rt.last - rt.first ELSE 1
<1>1. n \in Int /\ d \in Nat /\ d > 0
  BY DEF Tracker
<1>2. get_rate(rt) = IF rt.count < MIN_COUNT_FOR_CONSIDERATION THEN 0 ELSE n \div d
  BY DEF get_rate
<1> HIDE DEF n, d
<1>3. n \div d \in Int
  BY <1>1
<1> QED
  BY <1>2, <1>3

\* What a check does to the table and when it lets a packet pass
\* (RateCheckImpl): the address it is about keeps a good tracker or loses it,
\* the others keep theirs or are dumped, and one packet counts for one.
LEMMA RateCheckStep ==
  ASSUME NEW h, NEW time \in Nat, time > 0, LimiterOK(h, time), NEW addr \in Nat,
         NEW r, r = RateCheck(h, addr, time)
  PROVE  /\ LimiterOK(r.table, time) /\ Others(r.table, h, addr)
         /\ addr \in H!Keys(r.table) =>
              H!Lookup(r.table, addr).count
                <= (IF addr \in H!Keys(h) THEN H!Lookup(h, addr).count ELSE 0) + 1
         /\ \/ addr \notin H!Keys(h)
            \/ /\ H!Lookup(h, addr).penalty = 0
               /\ H!Lookup(h, addr).count + 1 < MIN_COUNT_FOR_CONSIDERATION
            => /\ r.pass
               /\ addr \in H!Keys(r.table) => H!Lookup(r.table, addr).penalty = 0
<1>1. Well(h) /\ \A b \in H!Keys(h) : Good(H!Lookup(h, b), time)
  BY DEF LimiterOK
<1>2. H!Exists(h, addr) <=> addr \in H!Keys(h)
  <2>1. HP!Exists(h, addr) <=> addr \in HP!Keys(h)
    BY <1>1, HP!ExistsKey DEF Well
  <2> QED
    BY <2>1, SameTable
<1> DEFINE g == r.table
<1>3. SUFFICES /\ Well(g) /\ Others(g, h, addr)
               /\ addr \in H!Keys(g) =>
                    /\ Good(H!Lookup(g, addr), time)
                    /\ H!Lookup(g, addr).count
                         <= (IF addr \in H!Keys(h) THEN H!Lookup(h, addr).count ELSE 0) + 1
               /\ \/ addr \notin H!Keys(h)
                  \/ /\ H!Lookup(h, addr).penalty = 0
                     /\ H!Lookup(h, addr).count + 1 < MIN_COUNT_FOR_CONSIDERATION
                  => r.pass /\ (addr \in H!Keys(g) => H!Lookup(g, addr).penalty = 0)
  BY <1>1 DEF LimiterOK, Others
<1>4. CASE addr \notin H!Keys(h)
  <2> DEFINE new == [count |-> 1, first |-> time, last |-> time, penalty |-> 0]
  <2>1. g = Admit(h, addr, time) /\ r.pass
    BY <1>2, <1>4 DEF RateCheck
  <2>2. Well(g) /\ Others(g, h, addr) /\ addr \in H!Keys(g) /\ H!Lookup(g, addr) = new
    BY <1>1, <1>4, <2>1, AdmitStep
  <2>3. Good(new, time) /\ new.count = 1 /\ new.penalty = 0
    <3>1. new \in Tracker /\ new.count = 1 /\ new.penalty = 0
      BY DEF Tracker
    <3> HIDE DEF new
    <3>2. get_rate(new) = 0
      BY <3>1, RateIsNumber, LimiterAssumption
    <3> QED
      BY <3>1, <3>2, LimiterAssumption DEF Good, MAX_RATE
  <2> HIDE DEF new, g
  <2> QED
    BY <1>4, <2>1, <2>2, <2>3
<1>5. CASE addr \in H!Keys(h)
  <2> DEFINE old == H!Lookup(h, addr)
             cnt == IF old.count < CountCap THEN old.count + 1 ELSE old.count
             rt  == [old EXCEPT !.count = cnt, !.last = time]
             box == [rt EXCEPT !.penalty = time + PENALTY_TIME_SECONDS]
             out == [rt EXCEPT !.penalty = 0]
             fast == get_rate(rt) >= MAX_RATE
  <2>1. Good(old, time) /\ old \in Tracker
    BY <1>1, <1>5 DEF Good
  <2>2. r = IF rt.penalty # 0 /\ rt.penalty >= time
              THEN [table |-> H!SetValue(h, addr, rt), pass |-> FALSE]
            ELSE IF fast THEN [table |-> H!SetValue(h, addr, box), pass |-> FALSE]
            ELSE IF rt.penalty # 0 THEN [table |-> H!SetValue(h, addr, out), pass |-> TRUE]
            ELSE IF rt.last - rt.first > RESET_INTERVAL_SECONDS
                   THEN [table |-> H!Remove(h, addr), pass |-> TRUE]
            ELSE [table |-> H!SetValue(h, addr, rt), pass |-> TRUE]
    BY <1>2, <1>5 DEF RateCheck
  <2> HIDE DEF old
  <2>3. /\ rt \in Tracker /\ rt.penalty = old.penalty /\ rt.count <= old.count + 1
        /\ old.count \in Nat /\ old.penalty \in Nat /\ rt.count \in Nat
    <3>1. cnt \in Nat /\ cnt <= old.count + 1 /\ old.count \in Nat
      BY <2>1, LimiterAssumption DEF Tracker
    <3> HIDE DEF cnt
    <3> QED
      BY <2>1, <3>1 DEF Tracker
  <2> HIDE DEF rt
  <2>4. /\ box \in Tracker /\ box.penalty = time + PENALTY_TIME_SECONDS /\ box.count = rt.count
        /\ out \in Tracker /\ out.penalty = 0 /\ out.count = rt.count
        /\ get_rate(out) = get_rate(rt)
    BY <2>3, LimiterAssumption DEF Tracker, get_rate
  <2> HIDE DEF box, out
  <2>5. get_rate(rt) \in Int /\ (rt.count < MIN_COUNT_FOR_CONSIDERATION => get_rate(rt) = 0)
    BY <2>3, RateIsNumber
  <2>6. MIN_COUNT_FOR_CONSIDERATION \in Nat /\ PENALTY_TIME_SECONDS \in Nat /\ MAX_RATE = 3600
    BY LimiterAssumption DEF MAX_RATE
  <2>7. /\ rt.penalty <= time + PENALTY_TIME_SECONDS
        /\ old.penalty = 0 /\ old.count + 1 < MIN_COUNT_FOR_CONSIDERATION => ~fast
    <3>1. old.penalty <= time + PENALTY_TIME_SECONDS
      BY <2>1 DEF Good
    <3> QED
      BY <2>3, <2>5, <2>6, <3>1
  <2>8. ASSUME NEW v \in Tracker, g = H!SetValue(h, addr, v)
        PROVE  Well(g) /\ Others(g, h, addr) /\ addr \in H!Keys(g) /\ H!Lookup(g, addr) = v
    BY <1>1, <1>5, <2>8, KeepStep
  <2>9. CASE rt.penalty # 0 /\ rt.penalty >= time
    <3>1. g = H!SetValue(h, addr, rt) /\ Good(rt, time)
      BY <2>2, <2>3, <2>7, <2>9 DEF Good
    <3> HIDE DEF g
    <3> QED
      BY <1>5, <2>3, <2>8, <2>9, <3>1 DEF old
  <2>10. CASE ~(rt.penalty # 0 /\ rt.penalty >= time) /\ fast
    <3>1. g = H!SetValue(h, addr, box)
      BY <2>2, <2>10
    <3>2. Good(box, time) /\ box.count <= old.count + 1
      <4>1. box.penalty # 0
        BY <2>4, <2>6
      <4>2. box.penalty <= time + PENALTY_TIME_SECONDS
        BY <2>4, <2>6
      <4> QED
        BY <2>3, <2>4, <4>1, <4>2 DEF Good
    <3> HIDE DEF g
    <3> QED
      BY <1>5, <2>4, <2>7, <2>8, <2>10, <3>1, <3>2 DEF old
  <2>11. CASE rt.penalty # 0 /\ ~(rt.penalty >= time) /\ ~fast
    <3>1. g = H!SetValue(h, addr, out) /\ r.pass
      BY <2>2, <2>11
    <3>2. Good(out, time) /\ out.count <= old.count + 1
      BY <2>3, <2>4, <2>5, <2>6, <2>11 DEF Good
    <3> HIDE DEF g
    <3> QED
      BY <1>5, <2>4, <2>8, <3>1, <3>2 DEF old
  <2>12. CASE rt.penalty = 0 /\ ~fast
    <3>1. CASE rt.last - rt.first > RESET_INTERVAL_SECONDS
      <4>1. g = H!Remove(h, addr) /\ r.pass
        BY <2>2, <2>12, <3>1
      <4> HIDE DEF g
      <4>2. Well(g) /\ Others(g, h, addr) /\ addr \notin H!Keys(g)
        BY <1>1, <1>5, <4>1, DropStep
      <4> QED
        BY <4>1, <4>2
    <3>2. CASE ~(rt.last - rt.first > RESET_INTERVAL_SECONDS)
      <4>1. g = H!SetValue(h, addr, rt) /\ r.pass
        BY <2>2, <2>12, <3>2
      <4>2. Good(rt, time)
        BY <2>3, <2>5, <2>6, <2>7, <2>12 DEF Good
      <4> HIDE DEF g
      <4> QED
        BY <1>5, <2>3, <2>8, <2>12, <4>1, <4>2 DEF old
    <3> QED
      BY <3>1, <3>2
  <2> QED
    BY <2>9, <2>10, <2>11, <2>12
<1> QED
  BY <1>4, <1>5

-----------------------------------------------------------------------------
(* The roles in ascending order. *)

InOrder(q, n) == \A i, j \in 1 .. n : i < j => q[i] < q[j]

\* Every set of roles can be put in order: take away the greatest and put the
\* rest in order first.
LEMMA OrderExists ==
  ASSUME NEW k \in Nat, NEW n \in Nat, NEW T, T \subseteq 0 .. k,
         IsFiniteSet(T), Cardinality(T) = n
  PROVE  \E q \in [1 .. n -> T] : InOrder(q, n)
<1> DEFINE Ok(l) == \A X : /\ X \subseteq 0 .. k /\ IsFiniteSet(X) /\ Cardinality(X) = l
                           => \E q \in [1 .. l -> X] : InOrder(q, l)
           Bad == {l \in Nat : ~Ok(l)}
<1>1. Ok(0)
  <2> SUFFICES ASSUME NEW X
               PROVE  \E q \in [1 .. 0 -> X] : InOrder(q, 0)
    OBVIOUS
  <2>1. 1 .. 0 = {}
    OBVIOUS
  <2>2. [i \in 1 .. 0 |-> 0] \in [1 .. 0 -> X]
    BY <2>1
  <2>3. InOrder([i \in 1 .. 0 |-> 0], 0)
    BY <2>1 DEF InOrder
  <2> QED
    BY <2>2, <2>3
<1>2. ASSUME NEW l \in Nat, l > 0, Ok(l - 1)
      PROVE  Ok(l)
  <2> SUFFICES ASSUME NEW X, X \subseteq 0 .. k, IsFiniteSet(X), Cardinality(X) = l
               PROVE  \E q \in [1 .. l -> X] : InOrder(q, l)
    OBVIOUS
  <2> HIDE DEF Ok, Bad
  <2>1. X # {}
    BY <1>2, FS_EmptySet
  <2>2. PICK x \in X : \A y \in X : x >= y
    BY <2>1, GreatestNat
  <2> DEFINE Y == X \ {x}
  <2>3. IsFiniteSet(Y) /\ Cardinality(Y) = l - 1 /\ Y \subseteq 0 .. k
    BY <2>2, FS_RemoveElement
  <2>4. PICK p \in [1 .. (l - 1) -> Y] : InOrder(p, l - 1)
    BY <1>2, <2>3 DEF Ok
  <2> DEFINE q == [i \in 1 .. l |-> IF i = l THEN x ELSE p[i]]
  <2>5. \A i \in 1 .. l : i = l \/ i \in 1 .. (l - 1)
    OBVIOUS
  <2>6. \A y \in Y : y \in X /\ y < x
    <3> TAKE y \in Y
    <3>1. y \in 0 .. k /\ x \in 0 .. k /\ y # x /\ x >= y
      BY <2>2
    <3> QED
      BY <3>1
  <2>7. \A i \in 1 .. (l - 1) : p[i] \in Y
    BY <2>4
  <2> HIDE DEF Y
  <2>8. q \in [1 .. l -> X]
    BY <2>2, <2>5, <2>6, <2>7
  <2>9. ASSUME NEW i \in 1 .. l, NEW j \in 1 .. l, i < j
        PROVE  q[i] < q[j]
    <3>1. i \in 1 .. (l - 1) /\ i # l /\ q[i] = p[i]
      BY <2>9
    <3>2. CASE j = l
      BY <2>6, <2>7, <3>1, <3>2
    <3>3. CASE j # l
      <4>1. j \in 1 .. (l - 1) /\ q[j] = p[j]
        BY <2>5, <3>3
      <4> QED
        BY <2>4, <2>9, <3>1, <4>1 DEF InOrder
    <3> QED
      BY <3>2, <3>3
  <2>10. InOrder(q, l)
    <3> HIDE DEF q
    <3> QED
      BY <2>9 DEF InOrder
  <2> QED
    BY <2>8, <2>10
<1>3. Bad = {}
  <2> HIDE DEF Ok
  <2> SUFFICES ASSUME Bad # {}
               PROVE  FALSE
    OBVIOUS
  <2>1. PICK l \in Bad : \A y \in Bad : l <= y
    <3> Bad \subseteq Nat
      OBVIOUS
    <3> HIDE DEF Bad
    <3> QED
      BY LeastNat
  <2>2. l # 0 /\ l \in Nat /\ ~Ok(l)
    BY <1>1
  <2>3. l - 1 \in Nat /\ l - 1 \notin Bad /\ l > 0
    BY <2>1, <2>2
  <2> QED
    BY <1>2, <2>2, <2>3
<1>4. Ok(n)
  <2> HIDE DEF Ok
  <2> QED
    BY <1>3
<1> QED
  BY <1>4

\* The sockets of the server, in order, are those of its roles.
LEMMA OrderedRoles ==
  /\ IsFiniteSet(Roles) /\ Cardinality(Roles) \in Nat
  /\ Roles # {} => Cardinality(Roles) > 0
  /\ Ordered(Roles) \in [1 .. Cardinality(Roles) -> Roles]
<1>1. Roles \subseteq 0 .. 3 /\ 3 \in Nat
  BY UdpAssumption
<1>2. IsFiniteSet(Roles) /\ Cardinality(Roles) \in Nat
  <2>1. IsFiniteSet(0 .. 3)
    <3>1. \A a, b \in Int : IsFiniteSet(a .. b)
      BY FS_Interval
    <3>2. 0 \in Int /\ 3 \in Int
      OBVIOUS
    <3> QED
      BY <3>1, <3>2, Zenon
  <2>2. IsFiniteSet(Roles)
    BY <1>1, <2>1, FS_Subset
  <2> QED
    BY <2>2, FS_CardinalityType
<1>3. Roles # {} => Cardinality(Roles) > 0
  BY <1>2, FS_EmptySet
<1> DEFINE n == Cardinality(Roles)
<1>4. PICK q \in [1 .. n -> Roles] : InOrder(q, n)
  <2> HIDE DEF n
  <2>1. n \in Nat /\ Cardinality(Roles) = n
    BY <1>2 DEF n
  <2> QED
    BY <1>1, <1>2, <2>1, OrderExists
<1>5. Ordered(Roles) \in [1 .. n -> Roles]
  BY <1>4 DEF Ordered, InOrder
<1> QED
  BY <1>2, <1>3, <1>5

-----------------------------------------------------------------------------
(* The inductive invariant. *)

Addr == Source \cup {Self}

ThreadRec ==
  [socks : Seq(Roles), pc : {"off", "top", "select", "recv", "process", "done"},
   exit : BOOLEAN, rotation : Nat, sock : Nat, addr : Addr]

\* A thread that has started has turned to one of the server's sockets.
ThreadsOK ==
  /\ th \in Seq(ThreadRec)
  /\ \A i \in DOMAIN th : /\ th[i].rotation < Len(th[i].socks)
                          /\ th[i].pc # "off" => th[i].sock \in Roles

QueuesOK ==
  /\ queue \in [Roles -> Seq(Addr)]
  /\ \A r \in Roles : Len(queue[r]) <= QueueMax

StateOK ==
  /\ phase \in {"new", "ready", "running", "flag", "post", "join", "stopped"}
  /\ now \in Nat /\ now > 0 /\ failures \in Nat
  /\ arrived \in [Source -> Nat]

\* Where the datagrams of address a wait.
Waiting(a) ==
  {w \in Roles \X (1 .. QueueMax) : w[2] \in DOMAIN queue[w[1]] /\ queue[w[1]][w[2]] = a}

\* The packets counted for address a.
CountOf(a) == IF a \in H!Keys(limiter) THEN H!Lookup(limiter, a).count ELSE 0

\* An address that has not sent enough yet: what the limiter has counted for it
\* and what still waits are datagrams it sent, or receives that failed.
Innocent(a) ==
  /\ CountOf(a) + Cardinality(Waiting(a)) <= arrived[a] + failures
  /\ a \in H!Keys(limiter) => H!Lookup(limiter, a).penalty = 0
  /\ a \notin refused

FloodOK ==
  \A a \in Source : arrived[a] + failures >= MIN_COUNT_FOR_CONSIDERATION \/ Innocent(a)

IInv == ThreadsOK /\ QueuesOK /\ StateOK /\ LimiterOK(limiter, now) /\ FloodOK

\* Only finitely many datagrams wait.
LEMMA WaitingFinite ==
  ASSUME NEW a
  PROVE  IsFiniteSet(Waiting(a)) /\ Cardinality(Waiting(a)) \in Nat
<1>1. IsFiniteSet(1 .. QueueMax)
  <2>1. QueueMax \in Int /\ 1 \in Int
    BY UdpAssumption
  <2> QED
    BY <2>1, FS_Interval
<1>2. IsFiniteSet(Roles \X (1 .. QueueMax))
  BY <1>1, OrderedRoles, FS_Product
<1>3. Waiting(a) \subseteq Roles \X (1 .. QueueMax)
  BY DEF Waiting
<1>4. IsFiniteSet(Waiting(a))
  BY <1>2, <1>3, FS_Subset
<1> QED
  BY <1>4, FS_CardinalityType

\* The same after a step.
LEMMA WaitingFiniteNext ==
  ASSUME NEW a
  PROVE  IsFiniteSet(Waiting(a)') /\ Cardinality(Waiting(a)') \in Nat
<1>1. IsFiniteSet(1 .. QueueMax)
  <2>1. QueueMax \in Int /\ 1 \in Int
    BY UdpAssumption
  <2> QED
    BY <2>1, FS_Interval
<1>2. IsFiniteSet(Roles \X (1 .. QueueMax))
  BY <1>1, OrderedRoles, FS_Product
<1>3. Waiting(a)' \subseteq Roles \X (1 .. QueueMax)
  BY DEF Waiting
<1>4. IsFiniteSet(Waiting(a)')
  BY <1>2, <1>3, FS_Subset
<1> QED
  BY <1>4, FS_CardinalityType

\* The limiter's table starts empty: half as wide as its number of addresses,
\* or as wide as the first prime above it where that would be nothing.
LEMMA InitLimiter ==
  ASSUME NEW V, 0 \in V, NEW fsize \in Nat \ {0},
         \E p \in fsize .. (2 * fsize + 2) : HP!IsPrime(p)
  PROVE  /\ HP!Well(HP!InitTable(fsize, fsize \div 2), V)
         /\ HP!Keys(HP!InitTable(fsize, fsize \div 2)) = {}
<1>1. ASSUME NEW w \in Nat
      PROVE  HP!Well(HP!InitTable(fsize, w), V) /\ HP!Keys(HP!InitTable(fsize, w)) = {}
  <2>1. CASE w = 0
    BY <2>1, HP!InitMap
  <2>2. CASE w # 0
    <3>1. HP!InitTable(fsize, w) = HP!Init(fsize, w)
      BY <2>2 DEF HP!InitTable
    <3>2. HP!Well(HP!Init(fsize, w), V) /\ HP!Nodes(HP!Init(fsize, w)) = {}
      BY <2>2, HP!InitWell
    <3> QED
      BY <3>1, <3>2 DEF HP!Keys
  <2> QED
    BY <2>1, <2>2
<1>2. fsize \div 2 \in Nat
  OBVIOUS
<1> QED
  BY <1>1, <1>2

LEMMA InitIInv == Init => IInv
<1> SUFFICES ASSUME Init
             PROVE  IInv
  OBVIOUS
<1> USE DEF Init
<1>1. ThreadsOK
  BY DEF ThreadsOK
<1>2. QueuesOK
  BY UdpAssumption DEF QueuesOK
<1>3. StateOK
  BY DEF StateOK
<1>4. Well(limiter) /\ H!Keys(limiter) = {}
  <2>1. TableSize \in Nat \ {0} /\ 0 \in Value
    BY UdpAssumption DEF Value
  <2>2. \E p \in TableSize .. (2 * TableSize + 2) : HP!IsPrime(p)
    BY PrimeAssumption DEF H!IsPrime, HP!IsPrime
  <2>3. HP!Well(HP!InitTable(TableSize, TableSize \div 2), Value)
        /\ HP!Keys(HP!InitTable(TableSize, TableSize \div 2)) = {}
    BY <2>1, <2>2, InitLimiter
  <2>4. limiter = HP!InitTable(TableSize, TableSize \div 2) /\ H!Keys(limiter) = HP!Keys(limiter)
    BY SameTable
  <2> QED
    BY <2>3, <2>4 DEF Well
<1>5. LimiterOK(limiter, now)
  BY <1>4 DEF LimiterOK
<1>6. FloodOK
  <2> SUFFICES ASSUME NEW a \in Source
               PROVE  Innocent(a)
    BY DEF FloodOK
  <2>1. Waiting(a) = {}
    BY DEF Waiting
  <2>2. Cardinality(Waiting(a)) = 0 /\ CountOf(a) = 0
    BY <1>4, <2>1, FS_EmptySet DEF CountOf
  <2> QED
    BY <1>4, <2>2 DEF Innocent
<1> QED
  BY <1>1, <1>2, <1>3, <1>5, <1>6 DEF IInv

-----------------------------------------------------------------------------
(* Steps of the main thread, and steps of a thread that take no datagram. *)

\* What is said of queues, limiter and clients does not depend on the threads.
LEMMA QuietStep ==
  ASSUME IInv, UNCHANGED <<queue, limiter, now, failures, arrived, refused>>,
         ThreadsOK', phase' \in {"new", "ready", "running", "flag", "post", "join", "stopped"}
  PROVE  IInv'
<1>1. QueuesOK' /\ StateOK'
  BY DEF IInv, QueuesOK, StateOK
<1>2. LimiterOK(limiter, now)'
  BY DEF IInv, LimiterOK, Well
<1>3. FloodOK'
  BY DEF IInv, FloodOK, Innocent, CountOf, Waiting
<1> QED
  BY <1>1, <1>2, <1>3 DEF IInv

\* One field of one thread changes, or some: the other threads are as before.
LEMMA OneThread ==
  ASSUME ThreadsOK, NEW t \in DOMAIN th, NEW rec \in ThreadRec,
         rec.rotation < Len(rec.socks), rec.pc # "off" => rec.sock \in Roles,
         th' = [th EXCEPT ![t] = rec]
  PROVE  ThreadsOK'
<1>1. th' \in Seq(ThreadRec) /\ DOMAIN th' = DOMAIN th
  BY DEF ThreadsOK
<1>2. \A i \in DOMAIN th : th'[i] = IF i = t THEN rec ELSE th[i]
  BY DEF ThreadsOK
<1> QED
  BY <1>1, <1>2 DEF ThreadsOK

LEMMA InitializeIInv == IInv /\ Initialize => IInv'
<1> SUFFICES ASSUME IInv, Initialize
             PROVE  IInv'
  OBVIOUS
<1>1. UNCHANGED <<queue, limiter, now, failures, arrived, refused>>
  BY DEF Initialize
<1> DEFINE n == Cardinality(Roles)
           q == Ordered(Roles)
<1>2. n \in Nat /\ q \in [1 .. n -> Roles] /\ (Roles # {} => n > 0)
  BY OrderedRoles
<1> HIDE DEF n, q
<1>3. ASSUME NEW socks \in Seq(Roles), Len(socks) > 0
      PROVE  /\ ThreadInit(socks) \in ThreadRec
             /\ ThreadInit(socks).rotation < Len(ThreadInit(socks).socks)
             /\ ThreadInit(socks).pc = "off"
  BY <1>3 DEF ThreadInit, ThreadRec, Addr
<1>4. CASE /\ Roles # {} /\ phase' = "ready"
           /\ th' = IF multi THEN [i \in 1 .. n |-> ThreadInit(<<q[i]>>)] ELSE <<ThreadInit(q)>>
  <2>1. CASE multi
    <3>1. \A i \in 1 .. n : <<q[i]>> \in Seq(Roles) /\ Len(<<q[i]>>) > 0
      BY <1>2
    <3>2. \A i \in 1 .. n : /\ ThreadInit(<<q[i]>>) \in ThreadRec
                            /\ ThreadInit(<<q[i]>>).rotation < Len(ThreadInit(<<q[i]>>).socks)
                            /\ ThreadInit(<<q[i]>>).pc = "off"
      BY <1>3, <3>1
    <3>3. th' = [i \in 1 .. n |-> ThreadInit(<<q[i]>>)]
      BY <1>4, <2>1
    <3>4. th' \in Seq(ThreadRec) /\ DOMAIN th' = 1 .. n
      BY <1>2, <3>2, <3>3
    <3>5. \A i \in 1 .. n : th'[i] = ThreadInit(<<q[i]>>)
      BY <3>3
    <3>6. ThreadsOK'
      BY <3>2, <3>4, <3>5 DEF ThreadsOK
    <3> QED
      BY <1>1, <1>4, <3>6, QuietStep
  <2>2. CASE ~multi
    <3>1. q \in Seq(Roles) /\ Len(q) > 0
      BY <1>2, <1>4
    <3> DEFINE rec == ThreadInit(q)
    <3>2. rec \in ThreadRec /\ rec.rotation < Len(rec.socks) /\ rec.pc = "off"
      BY <1>3, <3>1
    <3>3. th' = <<rec>>
      BY <1>4, <2>2
    <3> HIDE DEF rec
    <3>4. th' \in Seq(ThreadRec) /\ DOMAIN th' = {1} /\ th'[1] = rec
      BY <3>2, <3>3
    <3>5. ThreadsOK'
      BY <3>2, <3>4 DEF ThreadsOK
    <3> QED
      BY <1>1, <1>4, <3>5, QuietStep
  <2> QED
    BY <2>1, <2>2
<1>5. CASE phase' = "stopped" /\ UNCHANGED th
  <2>1. ThreadsOK'
    BY <1>5 DEF IInv, ThreadsOK
  <2> QED
    BY <1>1, <1>5, <2>1, QuietStep
<1> QED
  BY <1>4, <1>5 DEF Initialize, n, q

LEMMA StartIInv == IInv /\ Start => IInv'
<1> SUFFICES ASSUME IInv, Start
             PROVE  IInv'
  OBVIOUS
<1>0. ThreadsOK
  BY DEF IInv
<1>1. UNCHANGED <<queue, limiter, now, failures, arrived, refused>>
  BY DEF Start
<1> DEFINE i == CHOOSE j \in DOMAIN th : th[j].pc = "off" /\ \A k \in 1 .. (j - 1) : th[k].pc # "off"
<1>2. CASE /\ th' = [th EXCEPT ![i].pc = "top", ![i].sock = th[i].socks[1]]
           /\ phase' = IF i = Len(th) THEN "running" ELSE "ready"
  <2> HIDE DEF i
  <2>1. CASE i \in DOMAIN th
    <3> DEFINE rec == [th[i] EXCEPT !.pc = "top", !.sock = th[i].socks[1]]
    <3>1. th[i] \in ThreadRec /\ th[i].rotation < Len(th[i].socks)
      BY <1>0, <2>1 DEF ThreadsOK
    <3>2. th[i].socks \in Seq(Roles) /\ th[i].rotation \in Nat
      BY <3>1 DEF ThreadRec
    <3>3. th[i].socks[1] \in Roles /\ th[i].socks[1] \in Nat
      <4>1. 1 \in DOMAIN th[i].socks
        BY <3>1, <3>2
      <4>2. th[i].socks[1] \in Roles
        BY <3>2, <4>1
      <4>3. Roles \subseteq Nat
        BY UdpAssumption
      <4> QED
        BY <4>2, <4>3
    <3>4. /\ rec \in ThreadRec /\ rec.rotation < Len(rec.socks) /\ rec.sock \in Roles
      BY <3>1, <3>3 DEF ThreadRec
    <3>5. th' = [th EXCEPT ![i] = rec]
      BY <1>2
    <3> HIDE DEF rec
    <3>6. ThreadsOK'
      BY <1>0, <2>1, <3>4, <3>5, OneThread
    <3> QED
      BY <1>1, <1>2, <3>6, QuietStep
  <2>2. CASE i \notin DOMAIN th
    <3>1. th' = th
      BY <1>0, <1>2, <2>2 DEF ThreadsOK
    <3>2. ThreadsOK'
      BY <1>0, <3>1 DEF ThreadsOK
    <3> QED
      BY <1>1, <1>2, <3>2, QuietStep
  <2> QED
    BY <2>1, <2>2
<1>3. CASE phase' = "flag" /\ UNCHANGED th
  <2>1. ThreadsOK'
    BY <1>0, <1>3 DEF ThreadsOK
  <2> QED
    BY <1>1, <1>3, <2>1, QuietStep
<1> QED
  BY <1>2, <1>3 DEF Start

LEMMA StopIInv == IInv /\ Stop => IInv'
<1> SUFFICES ASSUME IInv, Stop
             PROVE  IInv'
  OBVIOUS
<1>1. ThreadsOK'
  BY DEF IInv, Stop, ThreadsOK
<1> QED
  BY <1>1, QuietStep DEF Stop

LEMMA SignalFlagIInv == IInv /\ SignalFlag => IInv'
<1> SUFFICES ASSUME IInv, SignalFlag
             PROVE  IInv'
  OBVIOUS
<1>1. ThreadsOK
  BY DEF IInv
<1>2. /\ DOMAIN th' = DOMAIN th
      /\ \A i \in DOMAIN th : th'[i] = [th[i] EXCEPT !.exit = TRUE]
  BY DEF SignalFlag
<1>3. \A i \in DOMAIN th :
        /\ th'[i] \in ThreadRec /\ th'[i].rotation = th[i].rotation /\ th'[i].socks = th[i].socks
        /\ th'[i].pc = th[i].pc /\ th'[i].sock = th[i].sock
  <2> TAKE i \in DOMAIN th
  <2>1. th[i] \in ThreadRec
    BY <1>1 DEF ThreadsOK
  <2> QED
    BY <1>2, <2>1, ZenonT(60) DEF ThreadRec
<1>4. th' \in Seq(ThreadRec)
  <2>1. th' = [i \in 1 .. Len(th) |-> [th[i] EXCEPT !.exit = TRUE]] /\ Len(th) \in Nat
        /\ DOMAIN th = 1 .. Len(th)
    BY <1>1 DEF SignalFlag, ThreadsOK
  <2>2. \A i \in 1 .. Len(th) : [th[i] EXCEPT !.exit = TRUE] \in ThreadRec
    BY <1>2, <1>3, <2>1
  <2> QED
    BY <2>1, <2>2
<1>5. ThreadsOK'
  BY <1>1, <1>2, <1>3, <1>4 DEF ThreadsOK
<1> QED
  BY <1>5, QuietStep DEF SignalFlag

\* The loop's test and the processing of a request.
LEMMA LoopIInv ==
  ASSUME IInv, NEW t, LoopTop(t) \/ ProcessRequestAndSendResponse(t)
  PROVE  IInv'
<1>1. ThreadsOK
  BY DEF IInv
<1> DEFINE p == IF LoopTop(t)
                  THEN IF th[t].exit THEN "done" ELSE IF Many(t) THEN "select" ELSE "recv"
                  ELSE "top"
           rec == [th[t] EXCEPT !.pc = p]
<1>2. t \in DOMAIN th /\ th[t].pc # "off" /\ th' = [th EXCEPT ![t] = rec]
  BY DEF LoopTop, ProcessRequestAndSendResponse, At
<1>3. UNCHANGED <<phase, queue, limiter, now, failures, arrived, refused>>
  BY DEF LoopTop, ProcessRequestAndSendResponse
<1>4. p \in {"done", "select", "recv", "top"}
  OBVIOUS
<1> HIDE DEF p
<1>5. /\ th[t] \in ThreadRec /\ th[t].rotation < Len(th[t].socks) /\ th[t].sock \in Roles
  BY <1>1, <1>2 DEF ThreadsOK
<1>6. rec \in ThreadRec /\ rec.rotation < Len(rec.socks) /\ rec.sock \in Roles
  BY <1>4, <1>5 DEF ThreadRec
<1> HIDE DEF rec
<1>7. ThreadsOK'
  BY <1>1, <1>2, <1>6, OneThread
<1>8. phase \in {"new", "ready", "running", "flag", "post", "join", "stopped"}
  BY DEF IInv, StateOK
<1> QED
  BY <1>3, <1>7, <1>8, QuietStep

\* When a socket of the thread has data, the search that starts anywhere and
\* wraps around finds one (WaitForSocketData).
LEMMA SearchFinds ==
  ASSUME NEW socks \in Seq(Roles), NEW n \in Nat, n = Len(socks), n > 0, NEW rot \in 0 .. (n - 1),
         NEW k \in DOMAIN socks, queue[socks[k]] # <<>>,
         NEW first, first = CHOOSE i \in 0 .. (n - 1) :
                      /\ queue[socks[((i + rot) % n) + 1]] # <<>>
                      /\ \A j \in 0 .. (i - 1) : queue[socks[((j + rot) % n) + 1]] = <<>>
  PROVE  socks[((first + rot) % n) + 1] \in Roles
<1> DEFINE at(i) == ((i + rot) % n) + 1
<1>0. n \in Nat \ {0}
  OBVIOUS
<1>1. \A i \in 0 .. (n - 1) : at(i) \in 1 .. n
  <2> TAKE i \in 0 .. (n - 1)
  <2>1. i + rot \in Nat
    OBVIOUS
  <2> QED
    BY <1>0, <2>1, RingStays
<1>2. \E i \in 0 .. (n - 1) : at(i) = k
  <2> DEFINE m == k - 1
  <2>1. m \in 0 .. (n - 1) /\ m + 1 = k
    OBVIOUS
  <2> HIDE DEF m
  <2>2. PICK j \in 0 .. (n - 1) : (j + rot) % n = m
    <3>1. rot \in 0 .. (n - 1)
      OBVIOUS
    <3> QED
      BY <1>0, <2>1, <3>1, RingReached
  <2>3. at(j) = k
    BY <2>1, <2>2
  <2> QED
    BY <2>2, <2>3
<1> HIDE DEF at
<1> DEFINE T == {i \in 0 .. (n - 1) : queue[socks[at(i)]] # <<>>}
<1>3. T \subseteq Nat /\ T # {}
  <2>1. PICK i \in 0 .. (n - 1) : at(i) = k
    BY <1>2
  <2>2. i \in T
    BY <2>1
  <2>3. 0 .. (n - 1) \subseteq Nat
    OBVIOUS
  <2> QED
    BY <2>2, <2>3, ZenonT(60)
<1>4. PICK x \in T : \A y \in T : x <= y
  <2> HIDE DEF T
  <2> QED
    BY <1>3, LeastNat
<1>5. \A j \in 0 .. (x - 1) : queue[socks[at(j)]] = <<>>
  <2> SUFFICES ASSUME NEW j \in 0 .. (x - 1), queue[socks[at(j)]] # <<>>
               PROVE  FALSE
    OBVIOUS
  <2>1. j \in 0 .. (n - 1) /\ ~(x <= j)
    OBVIOUS
  <2> QED
    BY <1>4, <2>1
<1>6. first = CHOOSE i \in 0 .. (n - 1) :
                /\ queue[socks[at(i)]] # <<>>
                /\ \A j \in 0 .. (i - 1) : queue[socks[at(j)]] = <<>>
  BY DEF at
<1>7. first \in 0 .. (n - 1)
  BY <1>4, <1>5, <1>6
<1>8. at(first) \in DOMAIN socks
  BY <1>1, <1>7
<1>9. socks[at(first)] \in Roles
  BY <1>8
<1> QED
  BY <1>9 DEF at

LEMMA SelectIInv ==
  ASSUME IInv, NEW t, Select(t)
  PROVE  IInv'
<1>1. ThreadsOK
  BY DEF IInv
<1>2. t \in DOMAIN th /\ th[t].pc # "off"
  BY DEF Select, At
<1>3. UNCHANGED <<phase, queue, limiter, now, failures, arrived, refused>>
  BY DEF Select
<1>4. /\ th[t] \in ThreadRec /\ th[t].rotation < Len(th[t].socks) /\ th[t].sock \in Roles
  BY <1>1, <1>2 DEF ThreadsOK
<1> DEFINE socks == th[t].socks
           n == Len(socks)
           rot == (th[t].rotation + 1) % n
           first == CHOOSE i \in 0 .. (n - 1) :
                      /\ queue[socks[((i + rot) % n) + 1]] # <<>>
                      /\ \A j \in 0 .. (i - 1) : queue[socks[((j + rot) % n) + 1]] = <<>>
           sk == socks[((first + rot) % n) + 1]
           w == [th[t] EXCEPT !.rotation = rot, !.sock = sk]
           rec == [w EXCEPT !.pc = IF th[t].exit THEN "done" ELSE "recv"]
<1>5. th' = [th EXCEPT ![t] = rec]
  BY DEF Select, WaitForSocketData
<1>6. PICK k \in DOMAIN socks : queue[socks[k]] # <<>>
  BY DEF Select
<1>7. socks \in Seq(Roles) /\ n \in Nat /\ n > 0 /\ th[t].rotation \in Nat
  BY <1>4 DEF ThreadRec
<1> HIDE DEF socks, n
<1>8. rot \in 0 .. (n - 1)
  <2> DEFINE a == th[t].rotation + 1
  <2>1. a \in Nat /\ n \in Nat \ {0}
    BY <1>7
  <2> HIDE DEF a
  <2>2. a % n \in 0 .. (n - 1)
    BY <2>1
  <2> QED
    BY <2>2 DEF a, rot
<1> HIDE DEF rot
<1>9. sk \in Roles /\ sk \in Nat
  <2>1. sk \in Roles
    <3>1. n = Len(socks)
      BY DEF n
    <3> HIDE DEF first
    <3>2. first = CHOOSE i \in 0 .. (n - 1) :
                    /\ queue[socks[((i + rot) % n) + 1]] # <<>>
                    /\ \A j \in 0 .. (i - 1) : queue[socks[((j + rot) % n) + 1]] = <<>>
      BY DEF first
    <3> QED
      BY <1>6, <1>7, <1>8, <3>1, <3>2, SearchFinds
  <2>2. Roles \subseteq Nat
    BY UdpAssumption
  <2> QED
    BY <2>1, <2>2
<1> HIDE DEF sk
<1>10. rec \in ThreadRec /\ rec.rotation < Len(rec.socks) /\ rec.sock \in Roles
  <2>1. rot \in Nat /\ rot < n
    BY <1>7, <1>8
  <2>2. rec \in ThreadRec /\ rec.rotation = rot /\ rec.socks = socks /\ rec.sock = sk
    BY <1>4, <1>9, <2>1 DEF ThreadRec, socks
  <2> QED
    BY <1>9, <2>1, <2>2 DEF n
<1> HIDE DEF rec
<1>11. ThreadsOK'
  BY <1>1, <1>2, <1>5, <1>10, OneThread
<1>12. phase \in {"new", "ready", "running", "flag", "post", "join", "stopped"}
  BY DEF IInv, StateOK
<1> QED
  BY <1>3, <1>11, <1>12, QuietStep

-----------------------------------------------------------------------------
(* Steps that put datagrams into a queue or take them out. *)

\* Queues that hold no more of address a than before.
LEMMA NoMoreWaiting ==
  ASSUME NEW a, Waiting(a)' \subseteq Waiting(a)
  PROVE  Cardinality(Waiting(a)') <= Cardinality(Waiting(a))
BY WaitingFinite, FS_Subset

\* A queue that is taken from the front.
LEMMA TakenWaiting ==
  ASSUME QueuesOK, NEW r \in Roles, queue[r] # <<>>,
         queue' = [queue EXCEPT ![r] = Tail(@)], NEW a
  PROVE  Cardinality(Waiting(a)') + (IF Head(queue[r]) = a THEN 1 ELSE 0) <= Cardinality(Waiting(a))
<1> DEFINE q == queue[r]
           old == Waiting(a)
           new == Waiting(a)'
           rest == old \ {<<r, 1>>}
           f == [w \in new |-> IF w[1] = r THEN <<r, w[2] + 1>> ELSE w]
<1>1. q \in Seq(Addr) /\ q # <<>> /\ Len(q) <= QueueMax /\ QueueMax \in Nat
  BY UdpAssumption DEF QueuesOK
<1>2. /\ Len(q) \in Nat /\ Len(q) > 0 /\ DOMAIN q = 1 .. Len(q) /\ Head(q) = q[1]
      /\ DOMAIN Tail(q) = 1 .. (Len(q) - 1)
      /\ \A i \in 1 .. (Len(q) - 1) : Tail(q)[i] = q[i + 1]
  <2> HIDE DEF q
  <2> QED
    BY <1>1
<1>3. queue'[r] = Tail(q) /\ \A u \in Roles : u # r => queue'[u] = queue[u]
  BY DEF QueuesOK
<1>4. \A u, i : <<u, i>> \in old <=> /\ u \in Roles /\ i \in 1 .. QueueMax
                                     /\ i \in DOMAIN queue[u] /\ queue[u][i] = a
  BY DEF Waiting
<1>5. \A u, i : <<u, i>> \in new <=> /\ u \in Roles /\ i \in 1 .. QueueMax
                                     /\ i \in DOMAIN queue'[u] /\ queue'[u][i] = a
  BY DEF Waiting
<1>6. \A w \in new : \E u \in Roles, i \in 1 .. QueueMax : w = <<u, i>>
  BY DEF Waiting
<1> HIDE DEF old, new, q
<1>7. \A i \in 1 .. QueueMax : <<r, i>> \in new => <<r, i + 1>> \in rest
  <2> SUFFICES ASSUME NEW i \in 1 .. QueueMax, <<r, i>> \in new
               PROVE  <<r, i + 1>> \in rest
    OBVIOUS
  <2>1. i \in 1 .. (Len(q) - 1) /\ Tail(q)[i] = a
    BY <1>2, <1>3, <1>5, SMTT(60)
  <2>2. i + 1 \in 1 .. Len(q) /\ i + 1 \in 1 .. QueueMax /\ i + 1 # 1
    BY <1>1, <1>2, <2>1
  <2>3. q[i + 1] = a
    BY <1>2, <2>1
  <2>4. <<r, i + 1>> \in old
    BY <1>2, <1>4, <2>2, <2>3 DEF q
  <2> QED
    BY <2>2, <2>4
<1>8. \A u \in Roles, i \in 1 .. QueueMax : u # r /\ <<u, i>> \in new => <<u, i>> \in rest
  BY <1>3, <1>4, <1>5
<1>9. f \in [new -> rest]
  <2> SUFFICES ASSUME NEW w \in new
               PROVE  (IF w[1] = r THEN <<r, w[2] + 1>> ELSE w) \in rest
    OBVIOUS
  <2>1. PICK u \in Roles, i \in 1 .. QueueMax : w = <<u, i>>
    BY <1>6
  <2> QED
    BY <1>7, <1>8, <2>1
<1>10. \A v, w \in new : f[v] = f[w] => v = w
  <2> SUFFICES ASSUME NEW v \in new, NEW w \in new, f[v] = f[w]
               PROVE  v = w
    OBVIOUS
  <2>1. PICK u \in Roles, i \in 1 .. QueueMax : v = <<u, i>>
    BY <1>6
  <2>2. PICK x \in Roles, j \in 1 .. QueueMax : w = <<x, j>>
    BY <1>6
  <2>3. /\ f[v] = IF u = r THEN <<r, i + 1>> ELSE <<u, i>>
        /\ f[w] = IF x = r THEN <<r, j + 1>> ELSE <<x, j>>
    BY <2>1, <2>2
  <2> HIDE DEF f
  <2>4. CASE u = r /\ x = r
    <3>1. <<r, i + 1>> = <<r, j + 1>>
      BY <2>3, <2>4
    <3> QED
      BY <2>1, <2>2, <2>4, <3>1
  <2>5. CASE u = r /\ x # r
    <3>1. <<r, i + 1>> = <<x, j>>
      BY <2>3, <2>5
    <3> QED
      BY <2>5, <3>1
  <2>6. CASE u # r /\ x = r
    <3>1. <<u, i>> = <<r, j + 1>>
      BY <2>3, <2>6
    <3> QED
      BY <2>6, <3>1
  <2>7. CASE u # r /\ x # r
    BY <2>1, <2>2, <2>3, <2>7
  <2> QED
    BY <2>4, <2>5, <2>6, <2>7
<1>11. f \in Injection(new, rest)
  <2> HIDE DEF f, rest
  <2> QED
    BY <1>9, <1>10 DEF Injection, IsInjective
<1>12. IsFiniteSet(old) /\ Cardinality(old) \in Nat /\ Cardinality(new) \in Nat
  BY WaitingFinite, WaitingFiniteNext DEF old, new
<1>13. IsFiniteSet(rest) /\ Cardinality(rest) = IF <<r, 1>> \in old THEN Cardinality(old) - 1
                                               ELSE Cardinality(old)
  BY <1>12, FS_RemoveElement
<1> HIDE DEF f, rest
<1>14. Cardinality(new) <= Cardinality(rest)
  BY <1>11, <1>13, FS_Injection
<1>15. Head(queue[r]) = a => <<r, 1>> \in old
  <2>1. 1 \in 1 .. QueueMax /\ 1 \in 1 .. Len(q)
    BY <1>1, <1>2
  <2> QED
    BY <1>2, <1>4, <2>1, SMTT(60) DEF q
<1>16. Cardinality(rest) + (IF Head(queue[r]) = a THEN 1 ELSE 0) <= Cardinality(old)
  BY <1>12, <1>13, <1>15
<1>17. Cardinality(rest) \in Nat
  BY <1>13, FS_CardinalityType
<1> QED
  BY <1>12, <1>14, <1>16, <1>17 DEF old, new

\* The limiter as before: an address stays innocent when no more of it waits
\* than has been counted as arrived.
LEMMA StaysInnocent ==
  ASSUME IInv, NEW a \in Source, Innocent(a), UNCHANGED <<limiter, refused, failures>>,
         arrived'[a] \in Nat,
         Cardinality(Waiting(a)') + arrived[a] <= Cardinality(Waiting(a)) + arrived'[a]
  PROVE  Innocent(a)'
<1>1. CountOf(a)' = CountOf(a) /\ CountOf(a) \in Nat
  <2>1. a \in H!Keys(limiter) => H!Lookup(limiter, a) \in Tracker
    BY DEF IInv, LimiterOK, Good
  <2> QED
    BY <2>1 DEF CountOf, Tracker
<1>2. /\ Cardinality(Waiting(a)) \in Nat /\ Cardinality(Waiting(a)') \in Nat
      /\ arrived[a] \in Nat /\ failures \in Nat /\ failures' = failures
  BY WaitingFinite, WaitingFiniteNext DEF IInv, StateOK
<1>3. CountOf(a) + Cardinality(Waiting(a)) <= arrived[a] + failures
  BY DEF Innocent
<1>4. CountOf(a)' + Cardinality(Waiting(a)') <= arrived'[a] + failures'
  BY <1>1, <1>2, <1>3
<1> QED
  BY <1>4 DEF Innocent

LEMMA SignalForStopIInv == IInv /\ SignalForStop => IInv'
<1> SUFFICES ASSUME IInv, SignalForStop
             PROVE  IInv'
  OBVIOUS
<1>0. QueuesOK
  BY DEF IInv
<1>1. UNCHANGED <<multi, th, limiter, now, failures, arrived, refused>> /\ phase' = "join"
  BY DEF SignalForStop
<1>2. queue' = [r \in Roles |-> Posted(queue[r])]
  BY DEF SignalForStop
<1>3. ASSUME NEW r \in Roles
      PROVE  /\ queue'[r] \in Seq(Addr) /\ Len(queue'[r]) <= QueueMax
             /\ \A i \in DOMAIN queue'[r] :
                  queue'[r][i] = Self \/ (i \in DOMAIN queue[r] /\ queue'[r][i] = queue[r][i])
  <2> DEFINE q == queue[r]
  <2>1. q \in Seq(Addr) /\ Len(q) <= QueueMax /\ QueueMax \in Nat /\ Self \in Addr
    BY <1>0, UdpAssumption DEF QueuesOK, Addr
  <2>2. queue'[r] = Posted(q)
    BY <1>2
  <2> HIDE DEF q
  <2>3. CASE Len(q) < QueueMax
    <3>1. queue'[r] = Append(q, Self)
      BY <2>2, <2>3 DEF Posted
    <3> QED
      BY <2>1, <2>3, <3>1 DEF q
  <2>4. CASE ~(Len(q) < QueueMax)
    BY <2>1, <2>2, <2>4 DEF Posted, q
  <2> QED
    BY <2>3, <2>4
<1>4. QueuesOK'
  BY <1>2, <1>3 DEF QueuesOK
<1>5. ThreadsOK' /\ StateOK'
  BY <1>1 DEF IInv, ThreadsOK, StateOK
<1>6. LimiterOK(limiter, now)'
  BY <1>1 DEF IInv, LimiterOK, Well
<1>7. FloodOK'
  <2> SUFFICES ASSUME NEW a \in Source, ~(arrived'[a] + failures' >= MIN_COUNT_FOR_CONSIDERATION)
               PROVE  Innocent(a)'
    BY DEF FloodOK
  <2>1. Innocent(a) /\ a # Self
    BY <1>1, UdpAssumption DEF IInv, FloodOK
  <2>2. Waiting(a)' \subseteq Waiting(a)
    BY <1>3, <2>1 DEF Waiting
  <2>3. /\ Cardinality(Waiting(a)') <= Cardinality(Waiting(a))
        /\ Cardinality(Waiting(a)) \in Nat /\ Cardinality(Waiting(a)') \in Nat
    BY <2>2, NoMoreWaiting, WaitingFinite, WaitingFiniteNext
  <2>4. arrived[a] \in Nat /\ arrived' = arrived
    BY <1>1 DEF IInv, StateOK
  <2>5. Cardinality(Waiting(a)') + arrived[a] <= Cardinality(Waiting(a)) + arrived'[a]
    BY <2>3, <2>4
  <2> QED
    BY <1>1, <2>1, <2>4, <2>5, StaysInnocent
<1> QED
  BY <1>4, <1>5, <1>6, <1>7 DEF IInv

LEMMA WaitForStopIInv == IInv /\ WaitForStopAndClose => IInv'
<1> SUFFICES ASSUME IInv, WaitForStopAndClose
             PROVE  IInv'
  OBVIOUS
<1>1. UNCHANGED <<multi, limiter, now, failures, arrived, refused>> /\ phase' = "stopped"
  BY DEF WaitForStopAndClose
<1>2. th' = <<>> /\ queue' = [r \in Roles |-> <<>>]
  BY DEF WaitForStopAndClose
<1>3. ThreadsOK' /\ QueuesOK'
  BY <1>2, UdpAssumption DEF ThreadsOK, QueuesOK
<1>4. StateOK'
  BY <1>1 DEF IInv, StateOK
<1>5. LimiterOK(limiter, now)'
  BY <1>1 DEF IInv, LimiterOK, Well
<1>6. FloodOK'
  <2> SUFFICES ASSUME NEW a \in Source, ~(arrived'[a] + failures' >= MIN_COUNT_FOR_CONSIDERATION)
               PROVE  Innocent(a)'
    BY DEF FloodOK
  <2>1. Innocent(a)
    BY <1>1 DEF IInv, FloodOK
  <2>2. Waiting(a)' \subseteq Waiting(a)
    BY <1>2 DEF Waiting
  <2>3. /\ Cardinality(Waiting(a)') <= Cardinality(Waiting(a))
        /\ Cardinality(Waiting(a)) \in Nat /\ Cardinality(Waiting(a)') \in Nat
    BY <2>2, NoMoreWaiting, WaitingFinite, WaitingFiniteNext
  <2>4. arrived[a] \in Nat /\ arrived' = arrived
    BY <1>1 DEF IInv, StateOK
  <2>5. Cardinality(Waiting(a)') + arrived[a] <= Cardinality(Waiting(a)) + arrived'[a]
    BY <2>3, <2>4
  <2> QED
    BY <1>1, <2>1, <2>4, <2>5, StaysInnocent
<1> QED
  BY <1>3, <1>4, <1>5, <1>6 DEF IInv

LEMMA ArriveIInv ==
  ASSUME IInv, NEW r \in Roles, NEW b \in Source, Arrive(r, b)
  PROVE  IInv'
<1>0. QueuesOK
  BY DEF IInv
<1>1. UNCHANGED <<phase, multi, th, limiter, now, failures, refused>>
  BY DEF Arrive
<1> DEFINE q == queue[r]
           m == IF arrived[b] < MIN_COUNT_FOR_CONSIDERATION THEN arrived[b] + 1 ELSE arrived[b]
<1>2. /\ q \in Seq(Addr) /\ Len(q) < QueueMax /\ QueueMax \in Nat /\ b \in Addr
      /\ arrived \in [Source -> Nat]
  BY <1>0, UdpAssumption DEF QueuesOK, Addr, Arrive, IInv, StateOK
<1>3. queue' = [queue EXCEPT ![r] = Append(q, b)] /\ arrived' = [arrived EXCEPT ![b] = m]
  BY DEF Arrive
<1>4. m \in Nat /\ (arrived[b] < MIN_COUNT_FOR_CONSIDERATION => m = arrived[b] + 1) /\ m >= arrived[b]
  BY <1>2
<1> HIDE DEF q, m
<1>5. /\ Append(q, b) \in Seq(Addr) /\ Len(Append(q, b)) <= QueueMax
      /\ Len(q) \in Nat /\ DOMAIN q = 1 .. Len(q) /\ DOMAIN Append(q, b) = 1 .. (Len(q) + 1)
      /\ Append(q, b)[Len(q) + 1] = b /\ \A i \in 1 .. Len(q) : Append(q, b)[i] = q[i]
  BY <1>2
<1>6. queue'[r] = Append(q, b) /\ \A u \in Roles : u # r => queue'[u] = queue[u]
  BY <1>0, <1>3 DEF QueuesOK
<1>7. QueuesOK'
  BY <1>0, <1>3, <1>5, <1>6 DEF QueuesOK
<1>8. ThreadsOK' /\ StateOK'
  BY <1>1, <1>2, <1>3, <1>4 DEF IInv, ThreadsOK, StateOK
<1>9. LimiterOK(limiter, now)'
  BY <1>1 DEF IInv, LimiterOK, Well
<1>10. FloodOK'
  <2> SUFFICES ASSUME NEW a \in Source, ~(arrived'[a] + failures' >= MIN_COUNT_FOR_CONSIDERATION)
               PROVE  Innocent(a)'
    BY DEF FloodOK
  <2> DEFINE new == Waiting(a)'
             old == Waiting(a)
             slot == <<r, Len(q) + 1>>
  <2>1. /\ IsFiniteSet(old) /\ Cardinality(old) \in Nat /\ Cardinality(new) \in Nat
    BY WaitingFinite, WaitingFiniteNext
  <2>2. arrived[a] \in Nat /\ arrived'[a] \in Nat /\ failures \in Nat /\ failures' = failures
    BY <1>1, <1>2, <1>8 DEF IInv, StateOK
  <2>3. \A u \in Roles, i \in 1 .. QueueMax :
          <<u, i>> \in new <=> i \in DOMAIN queue'[u] /\ queue'[u][i] = a
    BY DEF Waiting
  <2>4. \A u \in Roles, i \in 1 .. QueueMax :
          <<u, i>> \in old <=> i \in DOMAIN queue[u] /\ queue[u][i] = a
    BY DEF Waiting
  <2>5. \A w \in new : \E u \in Roles, i \in 1 .. QueueMax : w = <<u, i>>
    BY DEF Waiting
  <2>6. MIN_COUNT_FOR_CONSIDERATION \in Nat
    BY LimiterAssumption
  <2> HIDE DEF new, old, slot
  <2>7. \A u \in Roles, i \in 1 .. QueueMax :
          <<u, i>> \in new => <<u, i>> \in old \/ (<<u, i>> = slot /\ a = b)
    <3> SUFFICES ASSUME NEW u \in Roles, NEW i \in 1 .. QueueMax, <<u, i>> \in new
                 PROVE  <<u, i>> \in old \/ (<<u, i>> = slot /\ a = b)
      OBVIOUS
    <3>1. CASE u # r
      BY <1>6, <2>3, <2>4, <3>1
    <3>2. CASE u = r /\ i \in 1 .. Len(q)
      BY <1>5, <1>6, <2>3, <2>4, <3>2 DEF q
    <3>3. CASE u = r /\ i = Len(q) + 1
      BY <1>5, <1>6, <2>3, <3>3 DEF slot
    <3>4. u = r => i \in 1 .. (Len(q) + 1)
      BY <1>5, <1>6, <2>3
    <3>5. u = r => i \in 1 .. Len(q) \/ i = Len(q) + 1
      BY <1>5, <3>4
    <3> QED
      BY <3>1, <3>2, <3>3, <3>5
  <2>8. CASE a # b
    <3>1. new \subseteq old
      BY <2>5, <2>7, <2>8
    <3>2. arrived'[a] = arrived[a] /\ Innocent(a)
      BY <1>1, <1>2, <1>3, <2>8 DEF IInv, FloodOK
    <3>3. Cardinality(new) <= Cardinality(old)
      BY <3>1, NoMoreWaiting DEF new, old
    <3>4. Cardinality(new) + arrived[a] <= Cardinality(old) + arrived'[a]
      BY <2>1, <2>2, <3>2, <3>3
    <3> QED
      BY <1>1, <2>2, <3>2, <3>4, StaysInnocent DEF new, old
  <2>9. CASE a = b
    <3>1. arrived'[a] = m
      BY <1>2, <1>3, <2>9
    <3>2. arrived[a] + failures < MIN_COUNT_FOR_CONSIDERATION /\ arrived'[a] = arrived[a] + 1
      BY <1>4, <2>2, <2>6, <2>9, <3>1
    <3>3. Innocent(a)
      BY <2>2, <2>6, <3>2 DEF IInv, FloodOK
    <3>4. new \subseteq old \cup {slot}
      BY <2>5, <2>7
    <3>5. IsFiniteSet(old \cup {slot}) /\ Cardinality(old \cup {slot}) <= Cardinality(old) + 1
      <4>1. /\ IsFiniteSet(old \cup {slot})
            /\ Cardinality(old \cup {slot}) = IF slot \in old THEN Cardinality(old)
                                               ELSE Cardinality(old) + 1
        BY <2>1, FS_AddElement
      <4> QED
        BY <2>1, <4>1
    <3>6. Cardinality(new) <= Cardinality(old \cup {slot}) /\ Cardinality(old \cup {slot}) \in Nat
      BY <3>4, <3>5, FS_Subset, FS_CardinalityType
    <3>7. Cardinality(new) + arrived[a] <= Cardinality(old) + arrived'[a]
      BY <2>1, <2>2, <3>2, <3>5, <3>6
    <3> QED
      BY <1>1, <2>2, <3>3, <3>7, StaysInnocent DEF new, old
  <2> QED
    BY <2>8, <2>9
<1> QED
  BY <1>7, <1>8, <1>9, <1>10 DEF IInv

LEMMA TickIInv == IInv /\ Tick => IInv'
<1> SUFFICES ASSUME IInv, Tick
             PROVE  IInv'
  OBVIOUS
<1>1. UNCHANGED <<phase, multi, th, queue, limiter, failures, arrived, refused>>
  BY DEF Tick
<1>2. now' \in Nat /\ now' > now /\ now \in Nat
  BY UdpAssumption DEF Tick, IInv, StateOK
<1>3. ThreadsOK' /\ QueuesOK' /\ StateOK'
  BY <1>1, <1>2 DEF IInv, ThreadsOK, QueuesOK, StateOK
<1>4. ASSUME NEW rt, Good(rt, now)
      PROVE  Good(rt, now')
  <2>1. rt.penalty \in Nat /\ PENALTY_TIME_SECONDS \in Nat
    BY <1>4, LimiterAssumption DEF Good, Tracker
  <2>2. rt.penalty <= now + PENALTY_TIME_SECONDS
    BY <1>4 DEF Good
  <2>3. rt.penalty <= now' + PENALTY_TIME_SECONDS
    BY <1>2, <2>1, <2>2
  <2> QED
    BY <1>4, <2>3 DEF Good
<1>5. LimiterOK(limiter, now)'
  <2>1. Well(limiter) /\ \A b \in H!Keys(limiter) : Good(H!Lookup(limiter, b), now)
    BY DEF IInv, LimiterOK
  <2>2. \A b \in H!Keys(limiter) : Good(H!Lookup(limiter, b), now')
    BY <1>4, <2>1
  <2> QED
    BY <1>1, <2>1, <2>2 DEF LimiterOK, Well
<1>6. FloodOK'
  BY <1>1 DEF IInv, FloodOK, Innocent, CountOf, Waiting
<1> QED
  BY <1>3, <1>5, <1>6 DEF IInv


\* A check that counts a packet for an address that still has not sent enough:
\* it passes, and the address stays innocent.
LEMMA CheckedInnocent ==
  ASSUME IInv, NEW a \in Source, Innocent(a), NEW addr \in Addr, NEW ok \in BOOLEAN,
         NEW r, r = RateCheck(limiter, addr, now), limiter' = r.table,
         refused' = IF ok /\ ~r.pass THEN refused \cup {addr} ELSE refused,
         arrived' = arrived, failures' \in Nat,
         CountOf(a) + (IF addr = a THEN 1 ELSE 0) + Cardinality(Waiting(a)')
           <= arrived[a] + failures',
         arrived[a] + failures' < MIN_COUNT_FOR_CONSIDERATION
  PROVE  Innocent(a)'
<1> DEFINE h == limiter
           g == r.table
           cnt == H!Lookup(h, a).count
           wait == Cardinality(Waiting(a)')
<1>1. now \in Nat /\ now > 0 /\ LimiterOK(h, now) /\ addr \in Nat
  BY UdpAssumption DEF IInv, StateOK, Addr
<1>2. /\ Others(g, h, addr)
      /\ addr \in H!Keys(g) =>
           H!Lookup(g, addr).count
             <= (IF addr \in H!Keys(h) THEN H!Lookup(h, addr).count ELSE 0) + 1
      /\ \/ addr \notin H!Keys(h)
         \/ /\ H!Lookup(h, addr).penalty = 0
            /\ H!Lookup(h, addr).count + 1 < MIN_COUNT_FOR_CONSIDERATION
         => /\ r.pass
            /\ addr \in H!Keys(g) => H!Lookup(g, addr).penalty = 0
  BY <1>1, RateCheckStep
<1>3. LimiterOK(g, now)
  BY <1>1, RateCheckStep
<1>4. /\ a \in H!Keys(h) => cnt \in Nat /\ H!Lookup(h, a).penalty = 0
      /\ a \in H!Keys(g) => H!Lookup(g, a).count \in Nat
      /\ wait \in Nat /\ arrived[a] \in Nat /\ a \notin refused
      /\ MIN_COUNT_FOR_CONSIDERATION \in Nat
  BY <1>1, <1>3, LimiterAssumption, WaitingFiniteNext
     DEF LimiterOK, Good, Tracker, Innocent, IInv, StateOK
<1>5. /\ CountOf(a)' = IF a \in H!Keys(g) THEN H!Lookup(g, a).count ELSE 0
      /\ CountOf(a) = IF a \in H!Keys(h) THEN cnt ELSE 0
  BY DEF CountOf
<1> HIDE DEF h, g, cnt, wait
<1>6. CASE a # addr
  <2>1. a \in H!Keys(g) => a \in H!Keys(h) /\ H!Lookup(g, a) = H!Lookup(h, a)
    BY <1>2, <1>6 DEF Others
  <2>2. CountOf(a)' <= CountOf(a) /\ CountOf(a)' \in Nat /\ CountOf(a) \in Nat
    BY <1>4, <1>5, <2>1 DEF cnt
  <2>3. a \notin refused'
    BY <1>4, <1>6
  <2>4. CountOf(a)' + wait <= arrived[a] + failures'
    BY <1>4, <1>6, <2>2 DEF wait
  <2>5. a \in H!Keys(g) => H!Lookup(g, a).penalty = 0
    BY <1>4, <2>1
  <2> QED
    BY <2>3, <2>4, <2>5 DEF Innocent, g, wait
<1>7. CASE a = addr
  <2>1. CountOf(a) + 1 + wait <= arrived[a] + failures' /\ CountOf(a) \in Nat
    BY <1>4, <1>5, <1>7 DEF wait
  <2>2. CountOf(a) + 1 < MIN_COUNT_FOR_CONSIDERATION
    BY <1>4, <2>1
  <2>3. a \in H!Keys(h) => H!Lookup(h, a).count + 1 < MIN_COUNT_FOR_CONSIDERATION
    BY <1>5, <2>2 DEF cnt
  <2>4. r.pass /\ (a \in H!Keys(g) => H!Lookup(g, a).penalty = 0)
    BY <1>2, <1>4, <1>7, <2>3
  <2>5. a \notin refused'
    BY <1>4, <2>4
  <2>6. CountOf(a)' <= CountOf(a) + 1 /\ CountOf(a)' \in Nat
    BY <1>2, <1>4, <1>5, <1>7, <2>1 DEF cnt
  <2>7. CountOf(a)' + wait <= arrived[a] + failures'
    BY <1>4, <2>1, <2>6
  <2> QED
    BY <2>4, <2>5, <2>7 DEF Innocent, g, wait
<1> QED
  BY <1>6, <1>7

LEMMA ReceiveIInv ==
  ASSUME IInv, NEW t, Receive(t)
  PROVE  IInv'
<1>1. ThreadsOK /\ QueuesOK /\ StateOK
  BY DEF IInv
<1>2. /\ t \in DOMAIN th /\ th[t] \in ThreadRec /\ th[t].sock \in Roles
      /\ th[t].rotation < Len(th[t].socks)
  BY <1>1 DEF Receive, At, ThreadsOK
<1> DEFINE s == th[t].sock
<1>3. /\ queue[s] # <<>> /\ queue' = [queue EXCEPT ![s] = Tail(@)]
      /\ UNCHANGED <<phase, multi, now, arrived>>
  BY DEF Receive
<1> DEFINE addr(ok) == IF ok THEN Head(queue[s]) ELSE th[t].addr
           r(ok) == RateCheck(limiter, addr(ok), now)
<1>4. PICK ok \in BOOLEAN :
        /\ failures' = IF ok THEN failures ELSE failures + 1
        /\ limiter' = r(ok).table
        /\ refused' = IF ok /\ ~r(ok).pass THEN refused \cup {addr(ok)} ELSE refused
        /\ th' = [th EXCEPT ![t].addr = addr(ok),
                    ![t].pc = IF ~ok \/ ~r(ok).pass THEN "top"
                              ELSE IF th[t].exit THEN "done" ELSE "process"]
  BY DEF Receive
<1> DEFINE from == addr(ok)
           chk == r(ok)
           p == IF ~ok \/ ~chk.pass THEN "top" ELSE IF th[t].exit THEN "done" ELSE "process"
<1>5. from \in Addr
  <2>1. queue[s] \in Seq(Addr) /\ queue[s] # <<>>
    BY <1>1, <1>2, <1>3 DEF QueuesOK
  <2>2. Head(queue[s]) \in Addr
    BY <2>1
  <2>3. th[t].addr \in Addr
    BY <1>2 DEF ThreadRec
  <2> QED
    BY <2>2, <2>3
<1>6. chk = RateCheck(limiter, from, now)
  OBVIOUS
<1>7. /\ failures' = IF ok THEN failures ELSE failures + 1
      /\ limiter' = chk.table
      /\ refused' = IF ok /\ ~chk.pass THEN refused \cup {from} ELSE refused
      /\ th' = [th EXCEPT ![t].addr = from, ![t].pc = p]
  BY <1>4
<1>8. p \in {"top", "done", "process"} /\ (ok => from = Head(queue[s]))
  OBVIOUS
<1> HIDE DEF p, chk, from, addr, r
<1>9. ThreadsOK'
  <2> DEFINE rec == [th[t] EXCEPT !.addr = from, !.pc = p]
  <2>1. th' = [th EXCEPT ![t] = rec]
    BY <1>7
  <2>2. rec \in ThreadRec /\ rec.rotation < Len(rec.socks) /\ rec.sock \in Roles
    BY <1>2, <1>5, <1>8 DEF ThreadRec
  <2> HIDE DEF rec
  <2> QED
    BY <1>1, <1>2, <2>1, <2>2, OneThread
<1> HIDE DEF s
<1>10. s \in Roles /\ queue[s] \in Seq(Addr) /\ Len(queue[s]) <= QueueMax /\ QueueMax \in Nat
  BY <1>1, <1>2, UdpAssumption DEF QueuesOK, s
<1>11. QueuesOK'
  <2>1. Tail(queue[s]) \in Seq(Addr) /\ Len(Tail(queue[s])) <= QueueMax
    BY <1>3, <1>10
  <2> QED
    BY <1>1, <1>3, <1>10, <2>1 DEF QueuesOK
<1>12. StateOK' /\ failures' \in Nat
  BY <1>1, <1>3, <1>7 DEF StateOK
<1>13. LimiterOK(limiter, now)'
  <2>1. now \in Nat /\ now > 0 /\ LimiterOK(limiter, now) /\ from \in Nat
    BY <1>5, UdpAssumption DEF IInv, StateOK, Addr
  <2>2. LimiterOK(chk.table, now)
    BY <1>6, <2>1, RateCheckStep
  <2> QED
    BY <1>3, <1>7, <2>2 DEF LimiterOK, Well
<1>14. FloodOK'
  <2> SUFFICES ASSUME NEW a \in Source, ~(arrived'[a] + failures' >= MIN_COUNT_FOR_CONSIDERATION)
               PROVE  Innocent(a)'
    BY DEF FloodOK
  <2> DEFINE new == Cardinality(Waiting(a)')
             old == Cardinality(Waiting(a))
  <2>1. /\ new \in Nat /\ old \in Nat /\ arrived[a] \in Nat /\ failures \in Nat /\ arrived' = arrived
        /\ MIN_COUNT_FOR_CONSIDERATION \in Nat
    BY <1>1, <1>3, WaitingFinite, WaitingFiniteNext, LimiterAssumption DEF StateOK
  <2>2. new + (IF Head(queue[s]) = a THEN 1 ELSE 0) <= old
    BY <1>1, <1>3, <1>10, TakenWaiting
  <2>3. CountOf(a) \in Nat
    <3>1. a \in H!Keys(limiter) => H!Lookup(limiter, a) \in Tracker
      BY DEF IInv, LimiterOK, Good
    <3> QED
      BY <3>1 DEF CountOf, Tracker
  <2>4. arrived[a] + failures' < MIN_COUNT_FOR_CONSIDERATION
    BY <1>12, <2>1
  <2>5. Innocent(a)
    <3>1. arrived[a] + failures < MIN_COUNT_FOR_CONSIDERATION
      BY <1>7, <2>1, <2>4
    <3> QED
      BY <2>1, <3>1 DEF IInv, FloodOK
  <2>6. CountOf(a) + old <= arrived[a] + failures
    BY <2>5 DEF Innocent
  <2> HIDE DEF new, old
  <2>7. CountOf(a) + (IF from = a THEN 1 ELSE 0) + new <= arrived[a] + failures'
    <3>1. CASE ok
      BY <1>7, <1>8, <2>1, <2>2, <2>3, <2>6, <3>1
    <3>2. CASE ~ok
      <4>1. new <= old /\ failures' = failures + 1
        BY <1>7, <2>1, <2>2, <3>2
      <4> QED
        BY <2>1, <2>3, <2>6, <4>1
    <3> QED
      BY <3>1, <3>2
  <2> QED
    BY <1>5, <1>6, <1>7, <1>12, <2>1, <2>4, <2>5, <2>7, CheckedInnocent DEF new
<1> QED
  BY <1>9, <1>11, <1>12, <1>13, <1>14 DEF IInv

-----------------------------------------------------------------------------
(* The theorems. *)

LEMMA NextIInv == IInv /\ [Next]_vars => IInv'
<1> SUFFICES ASSUME IInv, [Next]_vars
             PROVE  IInv'
  OBVIOUS
<1>1. CASE Initialize
  BY <1>1, InitializeIInv
<1>2. CASE Start
  BY <1>2, StartIInv
<1>3. CASE Stop
  BY <1>3, StopIInv
<1>4. CASE SignalFlag
  BY <1>4, SignalFlagIInv
<1>5. CASE SignalForStop
  BY <1>5, SignalForStopIInv
<1>6. CASE WaitForStopAndClose
  BY <1>6, WaitForStopIInv
<1>7. ASSUME NEW t \in 1 .. 4,
             LoopTop(t) \/ Select(t) \/ Receive(t) \/ ProcessRequestAndSendResponse(t)
      PROVE  IInv'
  BY <1>7, LoopIInv, SelectIInv, ReceiveIInv
<1>8. ASSUME NEW r \in Roles, NEW a \in Source, Arrive(r, a)
      PROVE  IInv'
  BY <1>8, ArriveIInv
<1>9. CASE Tick
  BY <1>9, TickIInv
<1>10. CASE Finished \/ UNCHANGED vars
  <2>1. UNCHANGED vars
    BY <1>10 DEF Finished
  <2>2. ThreadsOK'
    BY <2>1 DEF vars, IInv, ThreadsOK
  <2>3. phase' \in {"new", "ready", "running", "flag", "post", "join", "stopped"}
    BY <2>1 DEF vars, IInv, StateOK
  <2> QED
    BY <2>1, <2>2, <2>3, QuietStep DEF vars
<1> QED
  BY <1>1, <1>2, <1>3, <1>4, <1>5, <1>6, <1>7, <1>8, <1>9, <1>10 DEF Next

\* The inductive invariant holds in every state the server reaches.
THEOREM Invariant == Spec => []IInv
BY InitIInv, NextIInv, PTL DEF Spec

\* Threads keep the fields their loop relies on, their rotation points at one of
\* their sockets, and no socket's buffer is overrun (CStunSocketThread).
THEOREM TypeCorrect == Spec => []TypeOK
<1>1. IInv => TypeOK
  <2> SUFFICES ASSUME IInv
               PROVE  TypeOK
    OBVIOUS
  <2>1. \A i \in DOMAIN th : th[i] \in ThreadRec /\ th[i].rotation < Len(th[i].socks)
    BY DEF IInv, ThreadsOK
  <2> QED
    BY <2>1 DEF TypeOK, IInv, QueuesOK, StateOK, ThreadRec, Addr
<1> QED
  BY <1>1, Invariant, PTL

\* Whatever addresses come and go, the limiter's hash table is in order after
\* every insert, removal and dump, a tracker without penalty is below the rate,
\* and no penalty is longer than the rule (RateLimiter::RateCheckImpl).
THEOREM LimiterInOrder == Spec => []LimiterSound
<1>1. IInv => LimiterSound
  <2> SUFFICES ASSUME IInv
               PROVE  LimiterSound
    OBVIOUS
  <2>1. Well(limiter) /\ \A a \in H!Keys(limiter) : Good(H!Lookup(limiter, a), now)
    BY DEF IInv, LimiterOK
  <2>2. H!IndexSound(limiter)
    BY <2>1, HP!WellSound, SameSound DEF Well
  <2> QED
    BY <2>1, <2>2 DEF LimiterSound, Good
<1> QED
  BY <1>1, Invariant, PTL

\* A client is refused only after it sent as many datagrams as the limiter
\* starts to look at, up to receives that failed: neither a flood from others,
\* nor a dump of the table, nor a rotation of sockets brings that about.
THEOREM OnlyFloodersRefused == Spec => []RefusedOnlyFlooders
<1>1. IInv => RefusedOnlyFlooders
  BY DEF IInv, FloodOK, Innocent, RefusedOnlyFlooders
<1> QED
  BY <1>1, Invariant, PTL
=============================================================================
