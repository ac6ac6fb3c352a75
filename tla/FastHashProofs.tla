--------------------------- MODULE FastHashProofs ---------------------------
(***************************************************************************)
(* What the preallocated hash table promises, for any number of nodes,     *)
(* any width and any values: lemmas for the modules that keep a table.     *)
(* The key of an item stands for its hash, so it is a number.              *)
(***************************************************************************)
EXTENDS FastHash, NatLemmas, SequenceTheorems, FiniteSetTheorems, TLAPS

-----------------------------------------------------------------------------
(* The invariant of a table with values in V. *)

Slots(h) == 0 .. (h.fsize - 1)

Shape(h, V) ==
  h \in [fsize : Nat \ {0}, tsize : Nat \ {0}, size : Nat,
         node : [0 .. (h.fsize - 1) -> [key : Nat, value : V]],
         chain : [0 .. (h.tsize - 1) -> Seq(0 .. (h.fsize - 1))],
         free : Seq(0 .. (h.fsize - 1)),
         index : [0 .. (h.fsize - 1) -> 0 .. (h.fsize - 1)],
         valid : BOOLEAN, start : 0 .. (h.fsize - 1)]

\* No node is in two places, and those that are not free are in a chain.
Linked(h) ==
  /\ \A t, u \in DOMAIN h.chain :
       \A i \in DOMAIN h.chain[t], j \in DOMAIN h.chain[u] :
         h.chain[t][i] = h.chain[u][j] => t = u /\ i = j
  /\ \A i, j \in DOMAIN h.free : h.free[i] = h.free[j] => i = j
  /\ \A n \in Slots(h) :
       (\E i \in DOMAIN h.free : h.free[i] = n)
         <=> ~(\E t \in DOMAIN h.chain : \E i \in DOMAIN h.chain[t] : h.chain[t][i] = n)
  /\ h.size + Len(h.free) = h.fsize

\* A chain holds keys that hash to it.
Hashed(h) ==
  \A t \in DOMAIN h.chain : \A i \in DOMAIN h.chain[t] :
    h.node[h.chain[t][i]].key % h.tsize = t

\* No key is there twice.
KeysApart(h) ==
  \A m, n \in Nodes(h) : h.node[m].key = h.node[n].key => m = n

At(h, i) == h.index[(h.start + i) % h.fsize]

\* The index list, while it is valid, leads to every live node once.
Listed(h) ==
  h.valid =>
    /\ \A i \in 0 .. (h.size - 1) : At(h, i) \in Nodes(h)
    /\ \A i, j \in 0 .. (h.size - 1) : At(h, i) = At(h, j) => i = j
    /\ \A n \in Nodes(h) : \E i \in 0 .. (h.size - 1) : At(h, i) = n

Well(h, V) == Shape(h, V) /\ Linked(h) /\ Hashed(h) /\ KeysApart(h) /\ Listed(h)

-----------------------------------------------------------------------------
(* Numbers modulo the size of the circular list. *)

\* A position that wraps around the list (fasthash.h:160, 190, 195).
LEMMA Wrap ==
  ASSUME NEW f \in Nat \ {0}, NEW a \in 0 .. (f - 1), NEW i \in 0 .. f
  PROVE  /\ (a + i) % f \in 0 .. (f - 1)
         /\ (a + i) % f = IF a + i < f THEN a + i ELSE a + i - f
OBVIOUS

\* Positions less than a whole turn apart are different.
LEMMA WrapApart ==
  ASSUME NEW f \in Nat \ {0}, NEW a \in 0 .. (f - 1),
         NEW i \in 0 .. (f - 1), NEW j \in 0 .. (f - 1),
         (a + i) % f = (a + j) % f
  PROVE  i = j
<1>1. /\ (a + i) % f = IF a + i < f THEN a + i ELSE a + i - f
      /\ (a + j) % f = IF a + j < f THEN a + j ELSE a + j - f
  OBVIOUS
<1> QED
  BY <1>1

\* Moving the start by one is counting from one.
LEMMA WrapNext ==
  ASSUME NEW f \in Nat \ {0}, NEW a \in 0 .. (f - 1), NEW i \in 0 .. (f - 1)
  PROVE  (((a + 1) % f) + i) % f = (a + (i + 1)) % f
<1> DEFINE b == (a + 1) % f
<1>1. b \in 0 .. (f - 1) /\ b = IF a + 1 < f THEN a + 1 ELSE a + 1 - f
  OBVIOUS
<1> HIDE DEF b
<1>2. (b + i) % f = IF b + i < f THEN b + i ELSE b + i - f
  <2>1. b \in 0 .. (f - 1)
    BY <1>1
  <2> QED
    BY <2>1
<1>3. (a + (i + 1)) % f = IF a + (i + 1) < f THEN a + (i + 1) ELSE a + (i + 1) - f
  <2> DEFINE k == i + 1
  <2>1. k \in 0 .. f
    OBVIOUS
  <2> HIDE DEF k
  <2>2. (a + k) % f = IF a + k < f THEN a + k ELSE a + k - f
    BY <2>1
  <2> QED
    BY <2>2 DEF k
<1>4. (b + i) % f = (a + (i + 1)) % f
  BY <1>1, <1>2, <1>3
<1> QED
  BY <1>4 DEF b

-----------------------------------------------------------------------------
(* Nodes and their number. *)

\* Membership in Nodes, without the union.
LEMMA NodesOf ==
  ASSUME NEW h, NEW n
  PROVE  n \in Nodes(h) <=>
           \E t \in DOMAIN h.chain : \E i \in DOMAIN h.chain[t] : h.chain[t][i] = n
BY DEF Nodes, S!ToSet

\* The fields of a table, one by one.
LEMMA Fields ==
  ASSUME NEW V, NEW h, Shape(h, V)
  PROVE  /\ h.fsize \in Nat /\ h.fsize > 0 /\ h.tsize \in Nat /\ h.tsize > 0
         /\ h.size \in Nat
         /\ h.node \in [Slots(h) -> [key : Nat, value : V]]
         /\ h.chain \in [0 .. (h.tsize - 1) -> Seq(Slots(h))]
         /\ h.free \in Seq(Slots(h))
         /\ h.index \in [Slots(h) -> Slots(h)]
         /\ h.valid \in BOOLEAN /\ h.start \in Slots(h)
<1> DEFINE R == [fsize : Nat \ {0}, tsize : Nat \ {0}, size : Nat,
                 node : [0 .. (h.fsize - 1) -> [key : Nat, value : V]],
                 chain : [0 .. (h.tsize - 1) -> Seq(0 .. (h.fsize - 1))],
                 free : Seq(0 .. (h.fsize - 1)),
                 index : [0 .. (h.fsize - 1) -> 0 .. (h.fsize - 1)],
                 valid : BOOLEAN, start : 0 .. (h.fsize - 1)]
<1>1. h \in R
  BY DEF Shape
<1>2. h.fsize \in Nat \ {0} /\ h.tsize \in Nat \ {0} /\ h.size \in Nat
  BY <1>1
<1>3. /\ h.node \in [Slots(h) -> [key : Nat, value : V]]
      /\ h.chain \in [0 .. (h.tsize - 1) -> Seq(Slots(h))]
      /\ h.free \in Seq(Slots(h))
      /\ h.index \in [Slots(h) -> Slots(h)]
      /\ h.valid \in BOOLEAN /\ h.start \in Slots(h)
  BY <1>1 DEF Slots
<1> QED
  BY <1>2, <1>3

\* size counts the live nodes; none is free and live.
LEMMA NodesCount ==
  ASSUME NEW V, NEW h, Shape(h, V), Linked(h)
  PROVE  /\ Nodes(h) \subseteq Slots(h)
         /\ IsFiniteSet(Nodes(h)) /\ Cardinality(Nodes(h)) = h.size
         /\ h.size <= h.fsize /\ Len(h.free) \in Nat
<1> DEFINE Fr == {h.free[i] : i \in 1 .. Len(h.free)}
           g  == [i \in 1 .. Len(h.free) |-> h.free[i]]
<1>1. /\ h.fsize \in Nat /\ h.size \in Nat /\ Len(h.free) \in Nat
      /\ h.free \in Seq(Slots(h)) /\ DOMAIN h.free = 1 .. Len(h.free)
      /\ h.chain \in [0 .. (h.tsize - 1) -> Seq(Slots(h))]
  BY Fields
<1>2. Nodes(h) \subseteq Slots(h)
  <2> SUFFICES ASSUME NEW n \in Nodes(h)
               PROVE  n \in Slots(h)
    OBVIOUS
  <2>1. PICK t \in DOMAIN h.chain : \E i \in DOMAIN h.chain[t] : h.chain[t][i] = n
    BY NodesOf
  <2>2. h.chain[t] \in Seq(Slots(h))
    BY <1>1, <2>1
  <2> QED
    BY <2>1, <2>2
<1>3. \A n \in Slots(h) : n \in Fr <=> n \notin Nodes(h)
  BY <1>1, NodesOf DEF Linked
<1>4. Fr \subseteq Slots(h)
  BY <1>1
<1>5. Slots(h) \ Fr = Nodes(h)
  BY <1>2, <1>3
<1>6. IsFiniteSet(Slots(h)) /\ Cardinality(Slots(h)) = h.fsize
  <2> DEFINE f == h.fsize - 1
  <2>1. f \in Int /\ ~(0 > f) /\ f - 0 + 1 = h.fsize /\ 0 \in Int
    BY Fields
  <2> HIDE DEF f
  <2>2. IsFiniteSet(0 .. f) /\ Cardinality(0 .. f) = f - 0 + 1
    BY <2>1, FS_Interval, ZenonT(60)
  <2> QED
    BY <2>1, <2>2 DEF Slots, f
<1>7. IsFiniteSet(1 .. Len(h.free)) /\ Cardinality(1 .. Len(h.free)) = Len(h.free)
  BY <1>1, FS_Interval
<1>8. g \in Surjection(1 .. Len(h.free), Fr) /\ g \in Injection(1 .. Len(h.free), Fr)
  <2>1. g \in [1 .. Len(h.free) -> Fr] /\ \A f \in Fr : \E i \in 1 .. Len(h.free) : g[i] = f
    OBVIOUS
  <2>2. \A i, j \in 1 .. Len(h.free) : g[i] = g[j] => i = j
    BY <1>1 DEF Linked
  <2> HIDE DEF g, Fr
  <2> QED
    BY <2>1, <2>2 DEF Surjection, Injection, IsInjective
<1> HIDE DEF Fr, g
<1>9. IsFiniteSet(Fr) /\ Cardinality(Fr) = Len(h.free)
  BY <1>7, <1>8, FS_Surjection
<1>10. Slots(h) \cap Fr = Fr
  BY <1>4
<1>11. /\ IsFiniteSet(Nodes(h))
       /\ Cardinality(Nodes(h)) = h.fsize - Len(h.free)
  <2>1. /\ IsFiniteSet(Slots(h) \ Fr)
        /\ Cardinality(Slots(h) \ Fr) = Cardinality(Slots(h)) - Cardinality(Slots(h) \cap Fr)
    BY <1>6, FS_Difference
  <2> QED
    BY <1>5, <1>6, <1>9, <1>10, <2>1
<1>12. h.size + Len(h.free) = h.fsize
  BY DEF Linked
<1> QED
  BY <1>1, <1>2, <1>11, <1>12

-----------------------------------------------------------------------------
(* A table is initialised. *)

\* An empty table is in order (Init, Reset).
LEMMA InitWell ==
  ASSUME NEW V, 0 \in V, NEW fsize \in Nat \ {0}, NEW tsize \in Nat \ {0}
  PROVE  /\ Well(Init(fsize, tsize), V)
         /\ Nodes(Init(fsize, tsize)) = {}
<1> DEFINE h == Init(fsize, tsize)
<1>1. /\ h.fsize = fsize /\ h.tsize = tsize /\ h.size = 0 /\ h.valid = TRUE /\ h.start = 0
      /\ h.node = [n \in 0 .. (fsize - 1) |-> NoItem]
      /\ h.chain = [t \in 0 .. (tsize - 1) |-> <<>>]
      /\ h.free = [n \in 1 .. fsize |-> n - 1]
      /\ h.index = [n \in 0 .. (fsize - 1) |-> 0]
  BY DEF Init
<1>2. Shape(h, V)
  <2>1. /\ [n \in 0 .. (fsize - 1) |-> NoItem] \in [0 .. (fsize - 1) -> [key : Nat, value : V]]
        /\ [t \in 0 .. (tsize - 1) |-> <<>>] \in [0 .. (tsize - 1) -> Seq(0 .. (fsize - 1))]
        /\ [n \in 0 .. (fsize - 1) |-> 0] \in [0 .. (fsize - 1) -> 0 .. (fsize - 1)]
        /\ 0 \in 0 .. (fsize - 1)
    BY DEF NoItem
  <2>2. [n \in 1 .. fsize |-> n - 1] \in Seq(0 .. (fsize - 1))
    <3>1. \A n \in 1 .. fsize : n - 1 \in 0 .. (fsize - 1)
      OBVIOUS
    <3> QED
      BY <3>1
  <2> QED
    BY <1>1, <2>1, <2>2 DEF Shape, Init
<1> HIDE DEF h
<1>3. \A n : n \notin Nodes(h)
  BY <1>1, NodesOf
<1>4. Linked(h)
  <2>1. DOMAIN h.free = 1 .. fsize /\ Len(h.free) = fsize
    BY <1>1
  <2>2. \A t \in DOMAIN h.chain : DOMAIN h.chain[t] = {}
    BY <1>1
  <2>3. \A i, j \in DOMAIN h.free : h.free[i] = h.free[j] => i = j
    BY <1>1
  <2>4. \A n \in Slots(h) : \E i \in DOMAIN h.free : h.free[i] = n
    <3> TAKE n \in Slots(h)
    <3>1. n + 1 \in 1 .. fsize /\ h.free[n + 1] = n
      BY <1>1 DEF Slots
    <3> QED
      BY <2>1, <3>1
  <2> QED
    BY <1>1, <2>1, <2>2, <2>3, <2>4 DEF Linked
<1>5. Hashed(h) /\ KeysApart(h) /\ Listed(h)
  <2>1. Hashed(h)
    BY <1>1 DEF Hashed
  <2>2. KeysApart(h)
    BY <1>3 DEF KeysApart
  <2>3. 0 .. (h.size - 1) = {}
    BY <1>1
  <2> QED
    BY <1>3, <2>1, <2>2, <2>3 DEF Listed
<1> QED
  BY <1>2, <1>3, <1>4, <1>5 DEF Well, h

-----------------------------------------------------------------------------
(* An item is inserted. *)

\* What Insert makes of table h, field by field: node n goes into chain c.
InsertEffect(h, g, n, c, key, value) ==
  /\ n \in Slots(h) /\ c \in 0 .. (h.tsize - 1) /\ h.size < h.fsize
  /\ Len(h.free) > 0 /\ n = h.free[1]
  /\ g.fsize = h.fsize /\ g.tsize = h.tsize /\ g.size = h.size + 1
  /\ g.node = [h.node EXCEPT ![n] = [key |-> key, value |-> value]]
  /\ g.chain = [h.chain EXCEPT ![c] = <<n>> \o @]
  /\ g.free = Tail(h.free)
  /\ g.index = IF h.valid THEN [h.index EXCEPT ![(h.start + h.size) % h.fsize] = n]
               ELSE h.index
  /\ g.valid = h.valid /\ g.start = h.start

\* Insert assigns just that.
LEMMA InsertFields ==
  ASSUME NEW V, NEW h, Well(h, V), ~IsFull(h), NEW key \in Nat, NEW value \in V,
         NEW g, g = Insert(h, key, value),
         NEW n, n = Head(h.free), NEW c, c = Hash(h, key)
  PROVE  InsertEffect(h, g, n, c, key, value) /\ Shape(g, V)
<1>1. Shape(h, V) /\ Linked(h)
  BY DEF Well
<1>2. /\ h.fsize \in Nat /\ h.fsize > 0 /\ h.tsize \in Nat /\ h.tsize > 0 /\ h.size \in Nat
      /\ h.node \in [Slots(h) -> [key : Nat, value : V]]
      /\ h.chain \in [0 .. (h.tsize - 1) -> Seq(Slots(h))]
      /\ h.free \in Seq(Slots(h))
      /\ h.index \in [Slots(h) -> Slots(h)]
      /\ h.valid \in BOOLEAN /\ h.start \in Slots(h)
  BY <1>1, Fields
<1>3. h.free # <<>>
  BY DEF IsFull
<1>4. /\ Len(h.free) \in Nat /\ Len(h.free) > 0
      /\ n \in Slots(h) /\ Tail(h.free) \in Seq(Slots(h)) /\ n = h.free[1]
  BY <1>2, <1>3, SMTT(60)
<1>5. h.size < h.fsize
  <2>1. h.size + Len(h.free) = h.fsize
    BY <1>1 DEF Linked
  <2> QED
    BY <1>2, <1>4, <2>1
<1>6. c \in 0 .. (h.tsize - 1)
  BY <1>2, SMTT(60) DEF Hash
<1> DEFINE p == (h.start + h.size) % h.fsize
           u == UpdateIndexWithAdd(h, n)
           ix == IF h.valid THEN [h.index EXCEPT ![p] = n] ELSE h.index
<1>7. p \in Slots(h)
  <2>1. /\ h.fsize \in Nat \ {0} /\ h.start \in 0 .. (h.fsize - 1)
        /\ h.size \in 0 .. h.fsize
    BY <1>2, <1>5, SMTT(60) DEF Slots
  <2>2. p \in 0 .. (h.fsize - 1)
    BY <2>1, Wrap, ZenonT(60)
  <2> QED
    BY <2>2 DEF Slots
<1>8. u = [h EXCEPT !.index = ix]
  <2>1. h.size + h.start = h.start + h.size
    BY <1>2 DEF Slots
  <2>2. CASE h.valid
    BY <1>5, <2>1, <2>2 DEF UpdateIndexWithAdd
  <2>3. CASE ~h.valid
    <3>1. [h EXCEPT !.index = h.index] = h
      BY <1>1 DEF Shape
    <3> QED
      BY <2>3, <3>1 DEF UpdateIndexWithAdd
  <2> QED
    BY <2>2, <2>3
<1>9. ix \in [Slots(h) -> Slots(h)]
  BY <1>2, <1>4, <1>7
<1>10. <<n>> \o h.chain[c] \in Seq(Slots(h))
  BY <1>2, <1>4, <1>6
<1> HIDE DEF ix, p
<1> DEFINE R == [fsize : Nat \ {0}, tsize : Nat \ {0}, size : Nat,
                 node : [Slots(h) -> [key : Nat, value : V]],
                 chain : [0 .. (h.tsize - 1) -> Seq(Slots(h))],
                 free : Seq(Slots(h)), index : [Slots(h) -> Slots(h)],
                 valid : BOOLEAN, start : Slots(h)]
<1>11. h \in R
  BY <1>1 DEF Shape, Slots
<1>12. g = [u EXCEPT !.free = Tail(@), !.size = @ + 1,
              !.node[n] = [key |-> key, value |-> value], !.chain[c] = <<n>> \o @]
  BY DEF Insert
<1>13. g = [h EXCEPT !.index = ix, !.free = Tail(h.free), !.size = h.size + 1,
              !.node = [h.node EXCEPT ![n] = [key |-> key, value |-> value]],
              !.chain = [h.chain EXCEPT ![c] = <<n>> \o @]]
  <2> HIDE DEF u
  <2> QED
    BY <1>8, <1>11, <1>12
<1> HIDE DEF u
<1> DEFINE item == [key |-> key, value |-> value]
           nd == [h.node EXCEPT ![n] = item]
           ch == [h.chain EXCEPT ![c] = <<n>> \o @]
           fr == Tail(h.free)
           sz == h.size + 1
<1>14. /\ nd \in [Slots(h) -> [key : Nat, value : V]]
       /\ ch \in [0 .. (h.tsize - 1) -> Seq(Slots(h))]
       /\ fr \in Seq(Slots(h)) /\ sz \in Nat
  <2>1. item \in [key : Nat, value : V]
    OBVIOUS
  <2> HIDE DEF item
  <2>2. nd \in [Slots(h) -> [key : Nat, value : V]]
    BY <1>2, <1>4, <2>1
  <2>3. ch \in [0 .. (h.tsize - 1) -> Seq(Slots(h))]
    <3> DEFINE s == <<n>> \o h.chain[c]
    <3>1. ch = [h.chain EXCEPT ![c] = s]
      OBVIOUS
    <3>2. s \in Seq(Slots(h))
      BY <1>10
    <3> HIDE DEF s, ch
    <3> QED
      BY <1>2, <1>6, <3>1, <3>2
  <2> QED
    BY <1>2, <1>4, <2>2, <2>3, SMTT(60)
<1>15. g \in R
  <2>1. g = [h EXCEPT !.index = ix, !.free = fr, !.size = sz, !.node = nd, !.chain = ch]
    BY <1>13
  <2> HIDE DEF nd, ch, fr, sz
  <2>2. g = [fsize |-> h.fsize, tsize |-> h.tsize, size |-> sz, node |-> nd, chain |-> ch,
             free |-> fr, index |-> ix, valid |-> h.valid, start |-> h.start]
    BY <1>11, <2>1, ZenonT(60)
  <2> QED
    BY <1>2, <1>9, <1>11, <1>14, <2>2, SMTT(60)
<1>16. /\ g.fsize = h.fsize /\ g.tsize = h.tsize /\ g.size = h.size + 1
       /\ g.node = [h.node EXCEPT ![n] = [key |-> key, value |-> value]]
       /\ g.chain = [h.chain EXCEPT ![c] = <<n>> \o @]
       /\ g.free = Tail(h.free) /\ g.index = ix
       /\ g.valid = h.valid /\ g.start = h.start
  BY <1>11, <1>13
<1>17. Shape(g, V)
  BY <1>15, <1>16, ZenonT(60) DEF Shape, Slots
<1> QED
  BY <1>4, <1>5, <1>6, <1>16, <1>17 DEF ix, p, InsertEffect

\* Where the nodes are after an insertion: one place further in the chain of
\* the key, and the new one is first there.
LEMMA InsertPlaces ==
  ASSUME NEW V, NEW h, Well(h, V), ~IsFull(h), NEW key \in Nat, NEW value \in V,
         NEW g, g = Insert(h, key, value),
         NEW n, n = Head(h.free), NEW c, c = Hash(h, key)
  PROVE  /\ DOMAIN g.chain = DOMAIN h.chain /\ c \in DOMAIN h.chain
         /\ \A t \in DOMAIN h.chain : t # c => g.chain[t] = h.chain[t]
         /\ \A i \in DOMAIN g.chain[c] :
              i = 1 \/ (i - 1 \in DOMAIN h.chain[c] /\ g.chain[c][i] = h.chain[c][i - 1])
         /\ \A i \in DOMAIN g.chain[c] : i \in Nat \ {0}
         /\ \A i \in DOMAIN h.chain[c] : i + 1 \in DOMAIN g.chain[c] /\ g.chain[c][i + 1] = h.chain[c][i]
         /\ 1 \in DOMAIN g.chain[c] /\ g.chain[c][1] = n
         /\ n \notin Nodes(h) /\ Nodes(g) = Nodes(h) \cup {n}
<1>0. InsertEffect(h, g, n, c, key, value)
  BY InsertFields
<1>1. /\ n \in Slots(h) /\ c \in 0 .. (h.tsize - 1)
      /\ g.chain = [h.chain EXCEPT ![c] = <<n>> \o @]
      /\ n = h.free[1] /\ Len(h.free) > 0
  BY <1>0 DEF InsertEffect
<1>2. h.chain \in [0 .. (h.tsize - 1) -> Seq(Slots(h))] /\ h.free \in Seq(Slots(h))
  BY Fields DEF Well
<1> DEFINE s == h.chain[c]
<1>3. s \in Seq(Slots(h)) /\ g.chain[c] = <<n>> \o s
  BY <1>1, <1>2
<1>4. /\ DOMAIN g.chain = DOMAIN h.chain /\ c \in DOMAIN h.chain
      /\ \A t \in DOMAIN h.chain : t # c => g.chain[t] = h.chain[t]
  BY <1>1, <1>2
<1>5. /\ DOMAIN s = 1 .. Len(s) /\ Len(s) \in Nat
      /\ DOMAIN (<<n>> \o s) = 1 .. (Len(s) + 1)
      /\ (<<n>> \o s)[1] = n
      /\ \A i \in 1 .. Len(s) : (<<n>> \o s)[i + 1] = s[i]
      /\ \A i \in 1 .. (Len(s) + 1) : i # 1 => (<<n>> \o s)[i] = s[i - 1]
  <2> HIDE DEF s
  <2> QED
    BY <1>1, <1>3
<1> HIDE DEF s
<1>6. /\ \A i \in 1 .. (Len(s) + 1) : i = 1 \/ i - 1 \in 1 .. Len(s)
      /\ \A i \in 1 .. Len(s) : i + 1 \in 1 .. (Len(s) + 1)
      /\ 1 \in 1 .. (Len(s) + 1)
      /\ \A i \in 1 .. (Len(s) + 1) : i \in Nat \ {0}
  BY <1>5
<1>7. /\ \A i \in DOMAIN g.chain[c] :
           i = 1 \/ (i - 1 \in DOMAIN s /\ g.chain[c][i] = s[i - 1])
      /\ \A i \in DOMAIN g.chain[c] : i \in Nat \ {0}
      /\ \A i \in DOMAIN s : i + 1 \in DOMAIN g.chain[c] /\ g.chain[c][i + 1] = s[i]
      /\ 1 \in DOMAIN g.chain[c] /\ g.chain[c][1] = n
  BY <1>3, <1>5, <1>6, SMTT(60)
<1>8. n \notin Nodes(h)
  <2>1. 1 \in DOMAIN h.free
    BY <1>1, <1>2
  <2> QED
    BY <1>1, <2>1, NodesOf DEF Well, Linked
<1>9. Nodes(g) = Nodes(h) \cup {n}
  <2>1. ASSUME NEW m \in Nodes(g)
        PROVE  m \in Nodes(h) \cup {n}
    <3>1. PICK t \in DOMAIN g.chain : \E i \in DOMAIN g.chain[t] : g.chain[t][i] = m
      BY <2>1, NodesOf
    <3>2. PICK i \in DOMAIN g.chain[t] : g.chain[t][i] = m
      BY <3>1
    <3>3. CASE t # c
      BY <1>4, <3>1, <3>2, <3>3, NodesOf
    <3>4. CASE t = c
      BY <1>4, <1>7, <3>2, <3>4, NodesOf DEF s
    <3> QED
      BY <3>3, <3>4
  <2>2. ASSUME NEW m \in Nodes(h)
        PROVE  m \in Nodes(g)
    <3>1. PICK t \in DOMAIN h.chain : \E i \in DOMAIN h.chain[t] : h.chain[t][i] = m
      BY <2>2, NodesOf
    <3>2. CASE t # c
      BY <1>4, <3>1, <3>2, NodesOf
    <3>3. CASE t = c
      <4>1. PICK i \in DOMAIN s : s[i] = m
        BY <3>1, <3>3 DEF s
      <4> QED
        BY <1>4, <1>7, <4>1, NodesOf
    <3> QED
      BY <3>2, <3>3
  <2>3. n \in Nodes(g)
    BY <1>4, <1>7, NodesOf
  <2> QED
    BY <2>1, <2>2, <2>3
<1> QED
  BY <1>4, <1>7, <1>8, <1>9 DEF s

\* Inserting a key that is not there keeps a table in order and adds the key.
LEMMA InsertWell ==
  ASSUME NEW V, NEW h, Well(h, V), ~IsFull(h), NEW key \in Nat, NEW value \in V,
         key \notin Keys(h), NEW g, g = Insert(h, key, value),
         NEW n, n = Head(h.free)
  PROVE  /\ Well(g, V) /\ g.fsize = h.fsize /\ g.tsize = h.tsize
         /\ n \in Slots(h) /\ n \notin Nodes(h) /\ Nodes(g) = Nodes(h) \cup {n}
         /\ g.node[n] = [key |-> key, value |-> value]
         /\ \A m \in Nodes(h) : g.node[m] = h.node[m]
         /\ Keys(g) = Keys(h) \cup {key}
<1> DEFINE c == Hash(h, key)
<1>0. InsertEffect(h, g, n, c, key, value) /\ Shape(g, V)
  BY InsertFields
<1>1. /\ n \in Slots(h) /\ c \in 0 .. (h.tsize - 1) /\ h.size < h.fsize
      /\ Len(h.free) > 0 /\ n = h.free[1]
      /\ g.fsize = h.fsize /\ g.tsize = h.tsize /\ g.size = h.size + 1
      /\ g.node = [h.node EXCEPT ![n] = [key |-> key, value |-> value]]
      /\ g.free = Tail(h.free)
      /\ g.index = IF h.valid
                     THEN [h.index EXCEPT ![(h.start + h.size) % h.fsize] = n]
                     ELSE h.index
      /\ g.valid = h.valid /\ g.start = h.start
      /\ Shape(g, V)
  BY <1>0 DEF InsertEffect
<1>2. /\ DOMAIN g.chain = DOMAIN h.chain /\ c \in DOMAIN h.chain
      /\ \A t \in DOMAIN h.chain : t # c => g.chain[t] = h.chain[t]
      /\ \A i \in DOMAIN g.chain[c] :
           i = 1 \/ (i - 1 \in DOMAIN h.chain[c] /\ g.chain[c][i] = h.chain[c][i - 1])
      /\ \A i \in DOMAIN g.chain[c] : i \in Nat \ {0}
      /\ 1 \in DOMAIN g.chain[c] /\ g.chain[c][1] = n
      /\ n \notin Nodes(h) /\ Nodes(g) = Nodes(h) \cup {n}
  BY InsertPlaces
<1>3. /\ h.node \in [Slots(h) -> [key : Nat, value : V]]
      /\ h.free \in Seq(Slots(h))
      /\ h.index \in [Slots(h) -> Slots(h)]
      /\ h.fsize \in Nat /\ h.fsize > 0 /\ h.size \in Nat /\ h.start \in Slots(h)
      /\ h.valid \in BOOLEAN
  BY Fields DEF Well
<1>4. Nodes(h) \subseteq Slots(h)
  BY NodesCount DEF Well
<1>5. /\ g.node[n] = [key |-> key, value |-> value]
      /\ \A m \in Nodes(h) : g.node[m] = h.node[m]
  BY <1>1, <1>2, <1>3, <1>4
<1>6. Keys(g) = Keys(h) \cup {key}
  BY <1>2, <1>5 DEF Keys
<1>7. Linked(g)
  <2> HIDE DEF c
  <2>1. \A t, u \in DOMAIN g.chain :
          \A i \in DOMAIN g.chain[t], j \in DOMAIN g.chain[u] :
            g.chain[t][i] = g.chain[u][j] => t = u /\ i = j
    <3> SUFFICES ASSUME NEW t \in DOMAIN g.chain, NEW u \in DOMAIN g.chain,
                        NEW i \in DOMAIN g.chain[t], NEW j \in DOMAIN g.chain[u],
                        g.chain[t][i] = g.chain[u][j]
                 PROVE  t = u /\ i = j
      OBVIOUS
    <3>0. \A tt, uu \in DOMAIN h.chain :
            \A ii \in DOMAIN h.chain[tt], jj \in DOMAIN h.chain[uu] :
              h.chain[tt][ii] = h.chain[uu][jj] => tt = uu /\ ii = jj
      BY DEF Well, Linked
    <3>00. \A tt \in DOMAIN h.chain : \A ii \in DOMAIN h.chain[tt] : h.chain[tt][ii] # n
      BY <1>2, NodesOf
    <3>1. CASE t # c /\ u # c
      BY <1>2, <3>0, <3>1
    <3>2. CASE t # c /\ u = c
      BY <1>2, <3>0, <3>00, <3>2
    <3>3. CASE t = c /\ u # c
      BY <1>2, <3>0, <3>00, <3>3
    <3>4. CASE t = c /\ u = c
      <4>1. CASE i = 1 /\ j = 1
        BY <3>4, <4>1
      <4>2. CASE i # 1 /\ j = 1
        BY <1>2, <3>00, <3>4, <4>2
      <4>3. CASE i = 1 /\ j # 1
        BY <1>2, <3>00, <3>4, <4>3
      <4>4. CASE i # 1 /\ j # 1
        <5>1. i - 1 = j - 1 /\ i \in Nat /\ j \in Nat
          BY <1>2, <3>0, <3>4, <4>4
        <5> QED
          BY <3>4, <5>1
      <4> QED
        BY <4>1, <4>2, <4>3, <4>4
    <3> QED
      BY <3>1, <3>2, <3>3, <3>4
  <2>2. /\ DOMAIN h.free = 1 .. Len(h.free) /\ Len(h.free) \in Nat
        /\ DOMAIN g.free = 1 .. (Len(h.free) - 1) /\ Len(g.free) = Len(h.free) - 1
        /\ \A i \in 1 .. (Len(h.free) - 1) : g.free[i] = h.free[i + 1]
    BY <1>1, <1>3, SMTT(60)
  <2>3. /\ \A i \in 1 .. (Len(h.free) - 1) : i + 1 \in 1 .. Len(h.free) /\ i + 1 # 1
        /\ \A i \in 1 .. Len(h.free) : i # 1 => i - 1 \in 1 .. (Len(h.free) - 1) /\ (i - 1) + 1 = i
        /\ \A i, j \in 1 .. (Len(h.free) - 1) : i + 1 = j + 1 => i = j
        /\ 1 \in 1 .. Len(h.free)
    BY <1>1, <2>2
  <2>4. \A i, j \in DOMAIN h.free : h.free[i] = h.free[j] => i = j
    BY DEF Well, Linked
  <2>5. \A i, j \in DOMAIN g.free : g.free[i] = g.free[j] => i = j
    <3> SUFFICES ASSUME NEW i \in DOMAIN g.free, NEW j \in DOMAIN g.free, g.free[i] = g.free[j]
                 PROVE  i = j
      OBVIOUS
    <3>1. h.free[i + 1] = h.free[j + 1] /\ i + 1 \in DOMAIN h.free /\ j + 1 \in DOMAIN h.free
      BY <2>2, <2>3
    <3>2. i + 1 = j + 1 /\ i \in 1 .. (Len(h.free) - 1) /\ j \in 1 .. (Len(h.free) - 1)
      BY <2>2, <2>4, <3>1
    <3> QED
      BY <2>3, <3>2
  <2>6. \A m : (\E i \in DOMAIN g.free : g.free[i] = m)
                 <=> m # n /\ (\E i \in DOMAIN h.free : h.free[i] = m)
    <3> TAKE m
    <3>1. ASSUME NEW i \in DOMAIN g.free, g.free[i] = m
          PROVE  m # n /\ (\E k \in DOMAIN h.free : h.free[k] = m)
      <4>1. /\ h.free[i + 1] = m /\ i + 1 \in DOMAIN h.free /\ i + 1 # 1
            /\ 1 \in DOMAIN h.free
        BY <2>2, <2>3, <3>1
      <4>2. n = h.free[1]
        BY <1>1
      <4> QED
        BY <2>4, <4>1, <4>2
    <3>2. ASSUME m # n, NEW i \in DOMAIN h.free, h.free[i] = m
          PROVE  \E k \in DOMAIN g.free : g.free[k] = m
      <4>1. i # 1
        BY <1>1, <3>2
      <4>2. i - 1 \in DOMAIN g.free /\ g.free[i - 1] = m
        BY <2>2, <2>3, <3>2, <4>1
      <4> QED
        BY <4>2
    <3> QED
      BY <3>1, <3>2
  <2>7. \A m \in Slots(g) :
          (\E i \in DOMAIN g.free : g.free[i] = m)
            <=> ~(\E t \in DOMAIN g.chain : \E i \in DOMAIN g.chain[t] : g.chain[t][i] = m)
    <3> TAKE m \in Slots(g)
    <3>1. m \in Slots(h)
      BY <1>1 DEF Slots
    <3>2. (\E i \in DOMAIN h.free : h.free[i] = m) <=> m \notin Nodes(h)
      BY <3>1, NodesOf DEF Well, Linked
    <3>3. (\E t \in DOMAIN g.chain : \E i \in DOMAIN g.chain[t] : g.chain[t][i] = m)
            <=> m \in Nodes(g)
      BY NodesOf
    <3> QED
      <4>1. (\E i \in DOMAIN g.free : g.free[i] = m) <=> m # n /\ m \notin Nodes(h)
        BY <2>6, <3>2, ZenonT(60)
      <4>2. m \in Nodes(g) <=> m \in Nodes(h) \/ m = n
        BY <1>2, ZenonT(60)
      <4> QED
        BY <3>3, <4>1, <4>2, ZenonT(60)
  <2>8. g.size + Len(g.free) = g.fsize
    <3>1. h.size + Len(h.free) = h.fsize
      BY DEF Well, Linked
    <3> QED
      BY <1>1, <1>3, <2>2, <3>1
  <2> QED
    BY <2>1, <2>5, <2>7, <2>8 DEF Linked
<1>8. Hashed(g)
  <2>0. g.node[n].key % g.tsize = c
    BY <1>1, <1>5 DEF Hash
  <2> HIDE DEF c
  <2> SUFFICES ASSUME NEW t \in DOMAIN g.chain, NEW i \in DOMAIN g.chain[t]
               PROVE  g.node[g.chain[t][i]].key % g.tsize = t
    BY DEF Hashed
  <2>1. \A tt \in DOMAIN h.chain : \A ii \in DOMAIN h.chain[tt] :
          /\ h.node[h.chain[tt][ii]].key % h.tsize = tt
          /\ h.chain[tt][ii] \in Nodes(h)
    BY NodesOf DEF Well, Hashed
  <2>2. CASE t # c
    BY <1>1, <1>2, <1>5, <2>1, <2>2
  <2>3. CASE t = c /\ i = 1
    BY <1>2, <2>0, <2>3
  <2>4. CASE t = c /\ i # 1
    BY <1>1, <1>2, <1>5, <2>1, <2>4
  <2> QED
    BY <2>2, <2>3, <2>4
<1>9. KeysApart(g)
  <2>1. \A m \in Nodes(h) : h.node[m].key # key
    BY DEF Keys
  <2> QED
    BY <1>2, <1>5, <2>1 DEF Well, KeysApart
<1>10. Listed(g)
  <2> SUFFICES ASSUME g.valid
               PROVE  /\ \A i \in 0 .. (g.size - 1) : At(g, i) \in Nodes(g)
                      /\ \A i, j \in 0 .. (g.size - 1) : At(g, i) = At(g, j) => i = j
                      /\ \A m \in Nodes(g) : \E i \in 0 .. (g.size - 1) : At(g, i) = m
    BY DEF Listed
  <2>1. /\ \A i \in 0 .. (h.size - 1) : At(h, i) \in Nodes(h)
        /\ \A i, j \in 0 .. (h.size - 1) : At(h, i) = At(h, j) => i = j
        /\ \A m \in Nodes(h) : \E i \in 0 .. (h.size - 1) : At(h, i) = m
    BY <1>1 DEF Well, Listed
  <2> DEFINE q == (h.start + h.size) % h.fsize
  <2>2. q \in Slots(h) /\ \A i \in 0 .. (h.size - 1) :
                            (h.start + i) % h.fsize \in Slots(h) /\ (h.start + i) % h.fsize # q
    <3>1. q \in Slots(h)
      <4>1. h.start + h.size \in Nat
        BY <1>3, SMTT(60) DEF Slots
      <4> QED
        BY <1>3, <4>1, SMTT(60) DEF Slots
    <3>2. ASSUME NEW i \in 0 .. (h.size - 1)
          PROVE  (h.start + i) % h.fsize \in Slots(h) /\ (h.start + i) % h.fsize # q
      <4>0. /\ h.fsize \in Nat /\ h.fsize > 0 /\ h.size \in Nat /\ h.size < h.fsize
            /\ h.start \in Slots(h)
        BY <1>1, <1>3
      <4>1. /\ i \in 0 .. (h.fsize - 1) /\ h.size \in 0 .. (h.fsize - 1) /\ i # h.size
            /\ h.fsize \in Nat \ {0} /\ h.start \in 0 .. (h.fsize - 1)
        BY <4>0 DEF Slots
      <4>2. (h.start + i) % h.fsize # q
        BY <4>1, WrapApart
      <4>3. h.start + i \in Nat
        BY <4>1
      <4>4. (h.start + i) % h.fsize \in 0 .. (h.fsize - 1)
        BY <4>1, <4>3
      <4> QED
        BY <4>2, <4>4 DEF Slots
    <3> QED
      BY <3>1, <3>2
  <2>3. g.index = [h.index EXCEPT ![q] = n] /\ g.start = h.start /\ g.fsize = h.fsize
    BY <1>1
  <2>4. At(g, h.size) = n
    BY <1>3, <2>2, <2>3 DEF At
  <2>5. \A i \in 0 .. (h.size - 1) : At(g, i) = At(h, i)
    <3> HIDE DEF q
    <3> TAKE i \in 0 .. (h.size - 1)
    <3> DEFINE k == (h.start + i) % h.fsize
    <3>1. At(h, i) = h.index[k] /\ At(g, i) = g.index[k]
      BY <2>3 DEF At
    <3>2. k \in Slots(h) /\ k # q
      BY <2>2
    <3>3. h.index \in [Slots(h) -> Slots(h)] /\ g.index = [h.index EXCEPT ![q] = n]
      BY <1>3, <2>3
    <3> HIDE DEF k
    <3>4. g.index[k] = h.index[k]
      BY <3>2, <3>3
    <3> QED
      BY <3>1, <3>4
  <2>6. \A i : i \in 0 .. (g.size - 1) <=> i \in 0 .. (h.size - 1) \/ i = h.size
    <3>1. g.size = h.size + 1 /\ h.size \in Nat
      BY <1>1, <1>3
    <3> QED
      BY <3>1, SMTT(60)
  <2> QED
    BY <1>2, <2>1, <2>4, <2>5, <2>6
<1> QED
  BY <1>1, <1>2, <1>5, <1>6, <1>7, <1>8, <1>9, <1>10 DEF Well

-----------------------------------------------------------------------------
(* An item is found and its value changed. *)

\* A search finds the one node that holds the key (FastHashBase::Find).
LEMMA FindNode ==
  ASSUME NEW V, NEW h, Well(h, V), NEW key \in Nat
  PROVE  /\ Exists(h, key) <=> key \in Keys(h)
         /\ Exists(h, key) =>
              LET k == S!Min(Places(h, key))
                  c == Hash(h, key)
              IN  /\ c \in DOMAIN h.chain /\ k \in DOMAIN h.chain[c]
                  /\ h.chain[c][k] = Find(h, key)
                  /\ Find(h, key) \in Nodes(h) /\ h.node[Find(h, key)].key = key
         /\ \A n \in Nodes(h) : h.node[n].key = key => n = Find(h, key)
<1> DEFINE c == Hash(h, key)
           P == Places(h, key)
           k == S!Min(P)
<1>1. /\ h.tsize \in Nat /\ h.tsize > 0
      /\ h.chain \in [0 .. (h.tsize - 1) -> Seq(Slots(h))]
  BY Fields DEF Well
<1>2. c \in DOMAIN h.chain /\ c = key % h.tsize
  BY <1>1 DEF Hash
<1>3. h.chain[c] \in Seq(Slots(h))
  BY <1>1, <1>2
<1>4. P = {i \in DOMAIN h.chain[c] : h.node[h.chain[c][i]].key = key}
  BY DEF Places, Chain
<1> HIDE DEF c, P
<1>5. ASSUME P # {}
      PROVE  k \in P
  <2>1. P \subseteq Nat
    BY <1>3, <1>4
  <2>2. PICK x \in P : \A y \in P : x <= y
    BY <1>5, <2>1, LeastNat
  <2> QED
    BY <2>2 DEF S!Min
<1>6. Find(h, key) = h.chain[c][k]
  BY DEF Find, Chain, c, P
<1> HIDE DEF k
<1>7. ASSUME NEW n \in Nodes(h), h.node[n].key = key
      PROVE  P # {}
  <2>1. PICK t \in DOMAIN h.chain : \E i \in DOMAIN h.chain[t] : h.chain[t][i] = n
    BY <1>7, NodesOf
  <2>2. PICK i \in DOMAIN h.chain[t] : h.chain[t][i] = n
    BY <2>1
  <2>3. t = c
    BY <1>2, <1>7, <2>2 DEF Well, Hashed
  <2> QED
    BY <1>4, <1>7, <2>2, <2>3
<1>8. ASSUME P # {}
      PROVE  /\ k \in DOMAIN h.chain[c] /\ h.chain[c][k] = Find(h, key)
             /\ Find(h, key) \in Nodes(h) /\ h.node[Find(h, key)].key = key
  <2>1. k \in DOMAIN h.chain[c] /\ h.node[h.chain[c][k]].key = key
    BY <1>4, <1>5, <1>8
  <2> QED
    BY <1>2, <1>6, <2>1, NodesOf
<1>9. Exists(h, key) <=> P # {}
  BY DEF Exists, P
<1>10. Exists(h, key) <=> key \in Keys(h)
  BY <1>7, <1>8, <1>9 DEF Keys
<1>11. \A n \in Nodes(h) : h.node[n].key = key => n = Find(h, key)
  BY <1>7, <1>8 DEF Well, KeysApart
<1> QED
  BY <1>2, <1>8, <1>9, <1>10, <1>11 DEF k, c, P

\* A search succeeds when the key is there.
LEMMA ExistsKey ==
  ASSUME NEW V, NEW h, Well(h, V), NEW key \in Nat
  PROVE  Exists(h, key) <=> key \in Keys(h)
BY FindNode

\* Changing the value of a key that is there changes nothing else.
LEMMA SetValueWell ==
  ASSUME NEW V, NEW h, Well(h, V), NEW key \in Nat, key \in Keys(h), NEW value \in V,
         NEW g, g = SetValue(h, key, value)
  PROVE  /\ Well(g, V) /\ g.fsize = h.fsize /\ g.tsize = h.tsize
         /\ Nodes(g) = Nodes(h) /\ Keys(g) = Keys(h)
         /\ \A m \in Nodes(h) :
              /\ g.node[m].key = h.node[m].key
              /\ g.node[m].value = IF h.node[m].key = key THEN value ELSE h.node[m].value
<1> DEFINE n == Find(h, key)
<1>1. /\ n \in Nodes(h) /\ h.node[n].key = key
      /\ \A m \in Nodes(h) : h.node[m].key = key => m = n
  BY FindNode
<1>2. /\ h.node \in [Slots(h) -> [key : Nat, value : V]]
      /\ Shape(h, V)
  BY Fields DEF Well
<1>3. Nodes(h) \subseteq Slots(h)
  BY NodesCount DEF Well
<1> DEFINE nd == [h.node EXCEPT ![n].value = value]
<1>4. g = [h EXCEPT !.node = nd]
  BY DEF SetValue
<1> HIDE DEF n
<1>5. /\ nd \in [Slots(h) -> [key : Nat, value : V]]
      /\ \A m \in Slots(h) : /\ nd[m].key = h.node[m].key
                             /\ nd[m].value = IF m = n THEN value ELSE h.node[m].value
  BY <1>1, <1>2, <1>3
<1> HIDE DEF nd
<1>6. /\ g.fsize = h.fsize /\ g.tsize = h.tsize /\ g.size = h.size
      /\ g.node = nd /\ g.chain = h.chain /\ g.free = h.free
      /\ g.index = h.index /\ g.valid = h.valid /\ g.start = h.start
  BY <1>2, <1>4 DEF Shape
<1>7. Shape(g, V)
  BY <1>2, <1>4, <1>5, <1>6 DEF Shape, Slots
<1>8. Nodes(g) = Nodes(h)
  BY <1>6 DEF Nodes
<1>9. \A m \in Nodes(h) : g.node[m].key = h.node[m].key
  BY <1>3, <1>5, <1>6
<1>10. Linked(g)
  BY <1>6 DEF Well, Linked, Slots
<1>11. Hashed(g)
  <2>1. \A t \in DOMAIN h.chain : \A i \in DOMAIN h.chain[t] : h.chain[t][i] \in Nodes(h)
    BY NodesOf
  <2> QED
    BY <1>6, <1>9, <2>1 DEF Well, Hashed
<1>12. KeysApart(g)
  BY <1>8, <1>9 DEF Well, KeysApart
<1>13. Listed(g)
  BY <1>6, <1>8 DEF Well, Listed, At
<1>14. Keys(g) = Keys(h)
  BY <1>8, <1>9 DEF Keys
<1>15. \A m \in Nodes(h) :
         g.node[m].value = IF h.node[m].key = key THEN value ELSE h.node[m].value
  BY <1>1, <1>3, <1>5, <1>6
<1> QED
  BY <1>6, <1>7, <1>8, <1>9, <1>10, <1>11, <1>12, <1>13, <1>14, <1>15 DEF Well

-----------------------------------------------------------------------------
(* An item is removed. *)

\* What is left of a chain: what came after place k moves up.
LEMMA RemoveAtPlaces ==
  ASSUME NEW A, NEW s \in Seq(A), NEW k \in DOMAIN s, NEW r, r = S!RemoveAt(s, k)
  PROVE  /\ r \in Seq(A) /\ k \in 1 .. Len(s) /\ Len(s) \in Nat
         /\ DOMAIN s = 1 .. Len(s) /\ DOMAIN r = 1 .. (Len(s) - 1)
         /\ \A i \in 1 .. (Len(s) - 1) : r[i] = IF i < k THEN s[i] ELSE s[i + 1]
<1>1. Len(s) \in Nat /\ DOMAIN s = 1 .. Len(s) /\ k \in 1 .. Len(s)
  OBVIOUS
<1> DEFINE a == SubSeq(s, 1, k - 1)
           b == SubSeq(s, k + 1, Len(s))
<1>2. a \in Seq(A) /\ Len(a) = k - 1 /\ \A i \in 1 .. (k - 1) : a[i] = s[i]
  <2>1. 1 \in Int /\ k - 1 \in Int /\ \A i \in 1 .. (k - 1) : i \in 1 .. Len(s)
    BY <1>1
  <2>2. 1 .. (k - 1) = {} \/ k - 1 >= 1
    BY <1>1
  <2> QED
    BY <1>1, <2>1, <2>2
<1>3. b \in Seq(A) /\ Len(b) = Len(s) - k /\ \A i \in 1 .. (Len(s) - k) : b[i] = s[i + k]
  <2>1. \A i \in 1 .. (Len(s) - k) : (k + 1) + i - 1 = i + k /\ i + k \in 1 .. Len(s)
    BY <1>1
  <2> QED
    BY <1>1, <2>1, SMTT(60)
<1>4. r = a \o b
  BY DEF S!RemoveAt
<1> HIDE DEF a, b
<1>5. /\ r \in Seq(A) /\ Len(r) = Len(s) - 1 /\ DOMAIN r = 1 .. (Len(s) - 1)
      /\ \A i \in 1 .. (Len(s) - 1) : r[i] = IF i <= k - 1 THEN a[i] ELSE b[i - (k - 1)]
  <2>1. /\ r \in Seq(A) /\ Len(r) = Len(a) + Len(b) /\ DOMAIN r = 1 .. Len(r)
        /\ \A i \in 1 .. (Len(a) + Len(b)) :
             r[i] = IF i <= Len(a) THEN a[i] ELSE b[i - Len(a)]
    <3>1. a \in Seq(A) /\ b \in Seq(A)
      BY <1>2, <1>3
    <3> QED
      BY <1>4, <3>1, ConcatProperties
  <2>2. Len(a) = k - 1 /\ Len(b) = Len(s) - k /\ (k - 1) + (Len(s) - k) = Len(s) - 1
    BY <1>1, <1>2, <1>3
  <2> QED
    BY <2>1, <2>2
<1>6. ASSUME NEW i \in 1 .. (Len(s) - 1)
      PROVE  r[i] = IF i < k THEN s[i] ELSE s[i + 1]
  <2>1. CASE i < k
    <3>1. i <= k - 1 /\ i \in 1 .. (k - 1)
      BY <1>1, <2>1
    <3> QED
      BY <1>2, <1>5, <2>1, <3>1
  <2>2. CASE ~(i < k)
    <3>1. ~(i <= k - 1) /\ i - (k - 1) \in 1 .. (Len(s) - k) /\ (i - (k - 1)) + k = i + 1
      BY <1>1, <2>2
    <3> QED
      BY <1>3, <1>5, <2>2, <3>1
  <2> QED
    BY <2>1, <2>2
<1> QED
  BY <1>1, <1>5, <1>6

\* What Remove makes of table h, field by field: node n leaves chain c.
RemoveEffect(h, g, n, c, k) ==
  /\ g.fsize = h.fsize /\ g.tsize = h.tsize /\ g.size = h.size - 1
  /\ g.node = [h.node EXCEPT ![n] = NoItem]
  /\ g.chain = [h.chain EXCEPT ![c] = S!RemoveAt(@, k)]
  /\ g.free = <<n>> \o h.free
  /\ g.index = h.index

\* What becomes of the index list.
RemoveIndex(h, g, n) ==
  LET last == (h.start + h.size - 1) % h.fsize
  IN  \/ h.size = 1 /\ g.valid /\ g.start = 0
      \/ h.size > 1 /\ ~h.valid /\ ~g.valid /\ g.start = h.start
      \/ /\ h.size > 1 /\ h.valid /\ g.valid /\ n = h.index[h.start]
         /\ g.start = (h.start + 1) % h.fsize
      \/ /\ h.size > 1 /\ h.valid /\ g.valid /\ n = h.index[last]
         /\ g.start = h.start
      \/ h.size > 1 /\ h.valid /\ ~g.valid /\ g.start = h.start

\* Remove assigns just that.
LEMMA RemoveFields ==
  ASSUME NEW V, 0 \in V, NEW h, Well(h, V), NEW key \in Nat, key \in Keys(h),
         NEW g, g = Remove(h, key), NEW n, n = Find(h, key),
         NEW c, c = Hash(h, key), NEW k, k = S!Min(Places(h, key))
  PROVE  /\ RemoveEffect(h, g, n, c, k) /\ RemoveIndex(h, g, n) /\ Shape(g, V)
         /\ h.size > 0
<1>1. /\ Exists(h, key) /\ n \in Nodes(h) /\ c \in DOMAIN h.chain /\ k \in DOMAIN h.chain[c]
  BY FindNode
<1>2. /\ h.fsize \in Nat /\ h.fsize > 0 /\ h.tsize \in Nat /\ h.tsize > 0 /\ h.size \in Nat
      /\ h.node \in [Slots(h) -> [key : Nat, value : V]]
      /\ h.chain \in [0 .. (h.tsize - 1) -> Seq(Slots(h))]
      /\ h.free \in Seq(Slots(h))
      /\ h.index \in [Slots(h) -> Slots(h)]
      /\ h.valid \in BOOLEAN /\ h.start \in Slots(h)
  BY Fields DEF Well
<1>3. /\ Nodes(h) \subseteq Slots(h) /\ IsFiniteSet(Nodes(h)) /\ Cardinality(Nodes(h)) = h.size
  BY NodesCount DEF Well
<1>4. h.size > 0
  BY <1>1, <1>2, <1>3, FS_EmptySet
<1> DEFINE u == UpdateIndexWithRemove(h, n)
           va == IF h.size = 1 THEN TRUE
                 ELSE IF ~h.valid THEN FALSE
                 ELSE n = h.index[h.start] \/ n = h.index[(h.start + h.size - 1) % h.fsize]
           st == IF h.size = 1 THEN 0
                 ELSE IF h.valid /\ n = h.index[h.start] THEN (h.start + 1) % h.fsize
                 ELSE h.start
<1> DEFINE R == [fsize : Nat \ {0}, tsize : Nat \ {0}, size : Nat,
                 node : [Slots(h) -> [key : Nat, value : V]],
                 chain : [0 .. (h.tsize - 1) -> Seq(Slots(h))],
                 free : Seq(Slots(h)), index : [Slots(h) -> Slots(h)],
                 valid : BOOLEAN, start : Slots(h)]
<1>5. h \in R
  BY DEF Well, Shape, Slots
<1> DEFINE last == (h.start + h.size - 1) % h.fsize
<1>6. u = [h EXCEPT !.valid = va, !.start = st]
  <2> HIDE DEF R
  <2>0. u = IF h.size = 0 \/ (h.size > 1 /\ ~h.valid) THEN h
            ELSE IF h.size = 1 THEN [h EXCEPT !.valid = TRUE, !.start = 0]
            ELSE IF n = h.index[h.start] THEN [h EXCEPT !.start = (h.start + 1) % h.fsize]
            ELSE IF n = h.index[last] THEN h
            ELSE [h EXCEPT !.valid = FALSE]
    BY DEF UpdateIndexWithRemove
  <2> HIDE DEF u, last
  <2>1. CASE h.size = 1
    BY <2>0, <2>1
  <2>2. CASE h.size # 1 /\ ~h.valid
    <3>1. h.size > 1 /\ h.valid = FALSE
      BY <1>2, <1>4, <2>2
    <3>2. [h EXCEPT !.valid = FALSE, !.start = h.start] = h
      BY <1>5, <3>1 DEF R
    <3> QED
      BY <2>0, <2>2, <3>1, <3>2
  <2>3. CASE h.size # 1 /\ h.valid
    <3>1. h.size > 1 /\ h.valid = TRUE /\ h.size # 0
      BY <1>2, <1>4, <2>3
    <3>2. CASE n = h.index[h.start]
      <4>1. [h EXCEPT !.valid = TRUE, !.start = (h.start + 1) % h.fsize]
              = [h EXCEPT !.start = (h.start + 1) % h.fsize]
        BY <1>5, <3>1 DEF R
      <4> QED
        BY <2>0, <2>3, <3>1, <3>2, <4>1
    <3>3. CASE n # h.index[h.start] /\ n = h.index[last]
      <4>1. [h EXCEPT !.valid = TRUE, !.start = h.start] = h
        BY <1>5, <3>1 DEF R
      <4> QED
        BY <2>0, <2>3, <3>1, <3>3, <4>1 DEF last
    <3>4. CASE n # h.index[h.start] /\ n # h.index[last]
      <4>1. [h EXCEPT !.valid = FALSE, !.start = h.start] = [h EXCEPT !.valid = FALSE]
        BY <1>5 DEF R
      <4> QED
        BY <2>0, <2>3, <3>1, <3>4, <4>1 DEF last
    <3> QED
      BY <3>2, <3>3, <3>4
  <2> QED
    BY <2>1, <2>2, <2>3
<1>7. va \in BOOLEAN /\ st \in Slots(h)
  <2>1. (h.start + 1) % h.fsize \in Slots(h) /\ 0 \in Slots(h)
    <3>1. h.start + 1 \in Nat
      BY <1>2 DEF Slots
    <3> QED
      BY <1>2, <3>1, SMTT(60) DEF Slots
  <2> QED
    BY <1>2, <2>1
<1> DEFINE nd == [h.node EXCEPT ![n] = NoItem]
           ch == [h.chain EXCEPT ![c] = S!RemoveAt(@, k)]
           fr == <<n>> \o h.free
<1>8. g = [u EXCEPT !.free = <<n>> \o @, !.size = @ - 1, !.node[n] = NoItem,
                    !.chain[c] = S!RemoveAt(@, k)]
  BY <1>1 DEF Remove
<1> HIDE DEF va, st, u
<1>9. g = [h EXCEPT !.valid = va, !.start = st, !.free = fr, !.size = h.size - 1,
                    !.node = nd, !.chain = ch]
  BY <1>5, <1>6, <1>8
<1>10. /\ nd \in [Slots(h) -> [key : Nat, value : V]]
       /\ fr \in Seq(Slots(h)) /\ h.size - 1 \in Nat
  BY <1>1, <1>2, <1>3, <1>4, SMTT(60) DEF NoItem
<1>11. ch \in [0 .. (h.tsize - 1) -> Seq(Slots(h))]
  <2>1. h.chain[c] \in Seq(Slots(h))
    BY <1>1, <1>2
  <2>2. S!RemoveAt(h.chain[c], k) \in Seq(Slots(h))
    BY <1>1, <2>1, RemoveAtPlaces
  <2> QED
    BY <1>1, <1>2, <2>2
<1> HIDE DEF nd, ch, fr
<1>12. g \in R
  <2> DEFINE sz == h.size - 1
  <2>1. g = [h EXCEPT !.valid = va, !.start = st, !.free = fr, !.size = sz,
                      !.node = nd, !.chain = ch]
    BY <1>9
  <2>2. sz \in Nat
    BY <1>10
  <2> HIDE DEF sz
  <2>3. g = [fsize |-> h.fsize, tsize |-> h.tsize, size |-> sz, node |-> nd, chain |-> ch,
             free |-> fr, index |-> h.index, valid |-> va, start |-> st]
    BY <1>5, <2>1
  <2> QED
    BY <1>5, <1>7, <1>10, <1>11, <2>2, <2>3, SMTT(60)
<1>13. /\ g.fsize = h.fsize /\ g.tsize = h.tsize /\ g.size = h.size - 1
       /\ g.node = nd /\ g.chain = ch /\ g.free = fr /\ g.index = h.index
       /\ g.valid = va /\ g.start = st
  BY <1>5, <1>9
<1>14. Shape(g, V)
  BY <1>12, <1>13, SMTT(60) DEF Shape, Slots
<1>15. RemoveEffect(h, g, n, c, k)
  BY <1>13 DEF RemoveEffect, nd, ch, fr
<1>16. RemoveIndex(h, g, n)
  <2> HIDE DEF R
  <2>1. h.size = 1 \/ h.size > 1
    BY <1>2, <1>4
  <2> QED
    BY <1>2, <1>13, <2>1 DEF RemoveIndex, va, st
<1> QED
  BY <1>4, <1>14, <1>15, <1>16

\* Where the nodes are after a removal: every place of a chain was a place
\* before, of its own, and only the removed node has lost its place.
LEMMA RemovePlaces ==
  ASSUME NEW V, 0 \in V, NEW h, Well(h, V), NEW key \in Nat, key \in Keys(h),
         NEW g, g = Remove(h, key), NEW n, n = Find(h, key)
  PROVE  /\ DOMAIN g.chain = DOMAIN h.chain
         /\ \A t, u \in DOMAIN g.chain :
              \A i \in DOMAIN g.chain[t], j \in DOMAIN g.chain[u] :
                g.chain[t][i] = g.chain[u][j] => t = u /\ i = j
         /\ \A t \in DOMAIN g.chain : \A i \in DOMAIN g.chain[t] :
              \E l \in DOMAIN h.chain[t] : g.chain[t][i] = h.chain[t][l] /\ h.chain[t][l] # n
         /\ Nodes(g) = Nodes(h) \ {n}
<1> DEFINE c == Hash(h, key)
           k == S!Min(Places(h, key))
           s == h.chain[c]
           r == S!RemoveAt(s, k)
           sh(i) == IF i < k THEN i ELSE i + 1
<1>1. c \in DOMAIN h.chain /\ k \in DOMAIN s /\ s[k] = n /\ n \in Nodes(h)
  BY FindNode
<1>2. h.chain \in [0 .. (h.tsize - 1) -> Seq(Slots(h))]
  BY Fields DEF Well
<1>3. RemoveEffect(h, g, n, c, k)
  BY RemoveFields
<1> HIDE DEF c, k
<1>4. g.chain = [h.chain EXCEPT ![c] = r]
  BY <1>3 DEF RemoveEffect
<1>5. s \in Seq(Slots(h))
  BY <1>1, <1>2
<1>6. /\ k \in 1 .. Len(s) /\ Len(s) \in Nat
      /\ DOMAIN s = 1 .. Len(s) /\ DOMAIN r = 1 .. (Len(s) - 1)
      /\ \A i \in 1 .. (Len(s) - 1) : r[i] = s[sh(i)]
  <2> HIDE DEF s
  <2>1. /\ k \in 1 .. Len(s) /\ Len(s) \in Nat
        /\ DOMAIN s = 1 .. Len(s) /\ DOMAIN r = 1 .. (Len(s) - 1)
        /\ \A i \in 1 .. (Len(s) - 1) : r[i] = IF i < k THEN s[i] ELSE s[i + 1]
    BY <1>1, <1>5, RemoveAtPlaces
  <2> QED
    BY <2>1
<1>7. /\ DOMAIN g.chain = DOMAIN h.chain /\ g.chain[c] = r
      /\ \A t \in DOMAIN h.chain : t # c => g.chain[t] = h.chain[t]
  BY <1>1, <1>2, <1>4
<1> HIDE DEF s, r
<1>8. /\ \A i \in 1 .. (Len(s) - 1) : sh(i) \in 1 .. Len(s) /\ sh(i) # k
      /\ \A i, j \in 1 .. (Len(s) - 1) : sh(i) = sh(j) => i = j
      /\ \A l \in 1 .. Len(s) : l # k => \E i \in 1 .. (Len(s) - 1) : sh(i) = l
  <2>0. k \in 1 .. Len(s) /\ Len(s) \in Nat
    BY <1>6
  <2>1. /\ \A i \in 1 .. (Len(s) - 1) : sh(i) \in 1 .. Len(s) /\ sh(i) # k
        /\ \A i, j \in 1 .. (Len(s) - 1) : sh(i) = sh(j) => i = j
    BY <2>0
  <2>2. ASSUME NEW l \in 1 .. Len(s), l # k
        PROVE  \E i \in 1 .. (Len(s) - 1) : sh(i) = l
    <3>1. CASE l < k
      <4>1. l \in 1 .. (Len(s) - 1) /\ sh(l) = l
        BY <2>0, <3>1
      <4> QED
        BY <4>1
    <3>2. CASE l > k
      <4>1. l - 1 \in 1 .. (Len(s) - 1) /\ sh(l - 1) = l
        BY <2>0, <3>2
      <4> QED
        BY <4>1
    <3> QED
      BY <2>0, <2>2, <3>1, <3>2
  <2> QED
    BY <2>1, <2>2
<1> HIDE DEF sh
<1>9. \A t, u \in DOMAIN h.chain :
        \A i \in DOMAIN h.chain[t], j \in DOMAIN h.chain[u] :
          h.chain[t][i] = h.chain[u][j] => t = u /\ i = j
  BY DEF Well, Linked
<1>10. \A i \in DOMAIN g.chain[c] : /\ sh(i) \in DOMAIN h.chain[c]
                                    /\ g.chain[c][i] = h.chain[c][sh(i)]
                                    /\ h.chain[c][sh(i)] # n
  <2>1. \A i \in 1 .. (Len(s) - 1) : /\ sh(i) \in DOMAIN s /\ r[i] = s[sh(i)] /\ s[sh(i)] # n
    BY <1>1, <1>6, <1>8, <1>9, SMTT(60) DEF s
  <2> QED
    BY <1>6, <1>7, <2>1 DEF s
<1>11. \A t \in DOMAIN h.chain : \A i \in DOMAIN h.chain[t] :
         h.chain[t][i] = n => t = c /\ i = k
  BY <1>1, <1>9 DEF s
<1>12. \A t, u \in DOMAIN g.chain :
         \A i \in DOMAIN g.chain[t], j \in DOMAIN g.chain[u] :
           g.chain[t][i] = g.chain[u][j] => t = u /\ i = j
  <2> SUFFICES ASSUME NEW t \in DOMAIN g.chain, NEW u \in DOMAIN g.chain,
                      NEW i \in DOMAIN g.chain[t], NEW j \in DOMAIN g.chain[u],
                      g.chain[t][i] = g.chain[u][j]
               PROVE  t = u /\ i = j
    OBVIOUS
  <2>1. CASE t # c /\ u # c
    BY <1>7, <1>9, <2>1
  <2>2. CASE t # c /\ u = c
    BY <1>7, <1>9, <1>10, <2>2
  <2>3. CASE t = c /\ u # c
    BY <1>7, <1>9, <1>10, <2>3
  <2>4. CASE t = c /\ u = c
    <3>1. sh(i) = sh(j)
      BY <1>7, <1>9, <1>10, <2>4
    <3>2. i \in 1 .. (Len(s) - 1) /\ j \in 1 .. (Len(s) - 1)
      BY <1>6, <1>7, <2>4
    <3> QED
      BY <1>8, <2>4, <3>1, <3>2
  <2> QED
    BY <2>1, <2>2, <2>3, <2>4
<1>13. \A t \in DOMAIN g.chain : \A i \in DOMAIN g.chain[t] :
         \E l \in DOMAIN h.chain[t] : g.chain[t][i] = h.chain[t][l] /\ h.chain[t][l] # n
  <2> SUFFICES ASSUME NEW t \in DOMAIN g.chain, NEW i \in DOMAIN g.chain[t]
               PROVE  \E l \in DOMAIN h.chain[t] :
                        g.chain[t][i] = h.chain[t][l] /\ h.chain[t][l] # n
    OBVIOUS
  <2>1. CASE t = c
    BY <1>10, <2>1
  <2>2. CASE t # c
    BY <1>7, <1>11, <2>2
  <2> QED
    BY <2>1, <2>2
<1>14. ASSUME NEW m \in Nodes(h), m # n
       PROVE  m \in Nodes(g)
  <2>1. PICK t \in DOMAIN h.chain : \E l \in DOMAIN h.chain[t] : h.chain[t][l] = m
    BY <1>14, NodesOf
  <2>2. PICK l \in DOMAIN h.chain[t] : h.chain[t][l] = m
    BY <2>1
  <2>3. CASE t # c
    BY <1>7, <2>2, <2>3, NodesOf
  <2>4. CASE t = c
    <3>1. l \in 1 .. Len(s) /\ l # k /\ s[l] = m
      BY <1>1, <1>6, <1>14, <2>2, <2>4 DEF s
    <3>2. PICK i \in 1 .. (Len(s) - 1) : sh(i) = l
      BY <1>8, <3>1
    <3>3. i \in DOMAIN g.chain[c] /\ g.chain[c][i] = m
      BY <1>6, <1>7, <3>1, <3>2
    <3> QED
      BY <1>1, <1>7, <3>3, NodesOf
  <2> QED
    BY <2>3, <2>4
<1>15. ASSUME NEW m \in Nodes(g)
       PROVE  m \in Nodes(h) /\ m # n
  <2>1. PICK t \in DOMAIN g.chain : \E i \in DOMAIN g.chain[t] : g.chain[t][i] = m
    BY <1>15, NodesOf
  <2> QED
    BY <1>7, <1>13, <2>1, NodesOf
<1> QED
  BY <1>7, <1>12, <1>13, <1>14, <1>15

\* Removing a key keeps a table in order, whichever end of the index list or
\* place in its middle the item had, and takes away that key alone.
LEMMA RemoveWell ==
  ASSUME NEW V, 0 \in V, NEW h, Well(h, V), NEW key \in Nat, key \in Keys(h),
         NEW g, g = Remove(h, key), NEW n, n = Find(h, key)
  PROVE  /\ Well(g, V) /\ g.fsize = h.fsize /\ g.tsize = h.tsize
         /\ n \in Nodes(h) /\ h.node[n].key = key
         /\ Nodes(g) = Nodes(h) \ {n} /\ Keys(g) = Keys(h) \ {key}
         /\ \A m \in Nodes(g) : g.node[m] = h.node[m]
<1> DEFINE c == Hash(h, key)
           k == S!Min(Places(h, key))
<1>1. RemoveEffect(h, g, n, c, k) /\ RemoveIndex(h, g, n) /\ Shape(g, V) /\ h.size > 0
  BY RemoveFields
<1> HIDE DEF c, k
<1>2. /\ g.fsize = h.fsize /\ g.tsize = h.tsize /\ g.size = h.size - 1
      /\ g.node = [h.node EXCEPT ![n] = NoItem] /\ g.free = <<n>> \o h.free
      /\ g.index = h.index
  BY <1>1 DEF RemoveEffect
<1>3. /\ DOMAIN g.chain = DOMAIN h.chain
      /\ \A t, u \in DOMAIN g.chain :
           \A i \in DOMAIN g.chain[t], j \in DOMAIN g.chain[u] :
             g.chain[t][i] = g.chain[u][j] => t = u /\ i = j
      /\ \A t \in DOMAIN g.chain : \A i \in DOMAIN g.chain[t] :
           \E l \in DOMAIN h.chain[t] : g.chain[t][i] = h.chain[t][l] /\ h.chain[t][l] # n
      /\ Nodes(g) = Nodes(h) \ {n}
  BY RemovePlaces
<1>4. /\ n \in Nodes(h) /\ h.node[n].key = key
      /\ \A m \in Nodes(h) : h.node[m].key = key => m = n
  BY FindNode
<1>5. /\ h.node \in [Slots(h) -> [key : Nat, value : V]]
      /\ h.free \in Seq(Slots(h))
      /\ h.index \in [Slots(h) -> Slots(h)]
      /\ h.fsize \in Nat /\ h.fsize > 0 /\ h.size \in Nat /\ h.start \in Slots(h)
      /\ h.valid \in BOOLEAN
  BY Fields DEF Well
<1>6. Nodes(h) \subseteq Slots(h) /\ h.size <= h.fsize
  BY NodesCount DEF Well
<1>7. \A m \in Nodes(g) : g.node[m] = h.node[m]
  BY <1>2, <1>3, <1>5, <1>6
<1>8. Keys(g) = Keys(h) \ {key}
  BY <1>3, <1>4, <1>7 DEF Keys
<1>9. Linked(g)
  <2>1. n \in Slots(h)
    BY <1>4, <1>6
  <2>2. /\ DOMAIN h.free = 1 .. Len(h.free) /\ Len(h.free) \in Nat
        /\ DOMAIN g.free = 1 .. (Len(h.free) + 1) /\ Len(g.free) = Len(h.free) + 1
        /\ g.free[1] = n
        /\ \A i \in 1 .. (Len(h.free) + 1) : i # 1 => g.free[i] = h.free[i - 1]
    BY <1>2, <1>5, <2>1, SMTT(60)
  <2>3. /\ \A i \in 1 .. (Len(h.free) + 1) : i = 1 \/ i - 1 \in 1 .. Len(h.free)
        /\ \A i \in 1 .. Len(h.free) : i + 1 \in 1 .. (Len(h.free) + 1) /\ i + 1 # 1 /\ (i + 1) - 1 = i
        /\ \A i, j \in 1 .. (Len(h.free) + 1) : i - 1 = j - 1 => i = j
        /\ 1 \in 1 .. (Len(h.free) + 1)
    <3>1. Len(h.free) \in Nat
      BY <2>2
    <3> QED
      BY <3>1
  <2>4. /\ \A i, j \in DOMAIN h.free : h.free[i] = h.free[j] => i = j
        /\ \A i \in DOMAIN h.free : h.free[i] # n
    <3>1. \A m \in Slots(h) : (\E i \in DOMAIN h.free : h.free[i] = m) <=> m \notin Nodes(h)
      BY NodesOf DEF Well, Linked
    <3>2. \A i, j \in DOMAIN h.free : h.free[i] = h.free[j] => i = j
      BY DEF Well, Linked
    <3> QED
      BY <1>4, <2>1, <3>1, <3>2
  <2>5. \A i, j \in DOMAIN g.free : g.free[i] = g.free[j] => i = j
    <3> SUFFICES ASSUME NEW i \in DOMAIN g.free, NEW j \in DOMAIN g.free, g.free[i] = g.free[j]
                 PROVE  i = j
      OBVIOUS
    <3>0. \A l \in DOMAIN g.free : l # 1 => l - 1 \in DOMAIN h.free /\ g.free[l] = h.free[l - 1]
      BY <2>2, <2>3
    <3>00. ASSUME NEW l \in DOMAIN g.free, l # 1
           PROVE  g.free[l] # n
      <4>1. l - 1 \in DOMAIN h.free /\ g.free[l] = h.free[l - 1]
        BY <3>0, <3>00, Zenon
      <4> QED
        BY <2>4, <4>1, Zenon
    <3>01. g.free[1] = n
      BY <2>2, <2>3
    <3>1. CASE i = 1 /\ j # 1
      BY <3>00, <3>01, <3>1, Zenon
    <3>2. CASE i # 1 /\ j = 1
      BY <3>00, <3>01, <3>2, Zenon
    <3>3. CASE i # 1 /\ j # 1
      <4>1. i - 1 = j - 1
        BY <2>4, <3>0, <3>3
      <4> QED
        BY <2>2, <2>3, <4>1
    <3> QED
      BY <3>1, <3>2, <3>3
  <2>6. \A m : (\E i \in DOMAIN g.free : g.free[i] = m)
                 <=> m = n \/ (\E i \in DOMAIN h.free : h.free[i] = m)
    <3> TAKE m
    <3>1. ASSUME NEW i \in DOMAIN g.free, g.free[i] = m
          PROVE  m = n \/ (\E l \in DOMAIN h.free : h.free[l] = m)
      BY <2>2, <2>3, <3>1, ZenonT(60)
    <3>2. ASSUME NEW i \in DOMAIN h.free, h.free[i] = m
          PROVE  \E l \in DOMAIN g.free : g.free[l] = m
      <4>1. i + 1 \in DOMAIN g.free /\ g.free[i + 1] = m
        BY <2>2, <2>3, <3>2, ZenonT(60)
      <4> QED
        BY <4>1
    <3>3. 1 \in DOMAIN g.free /\ g.free[1] = n
      BY <2>2, <2>3
    <3> QED
      BY <3>1, <3>2, <3>3
  <2>7. \A m \in Slots(g) :
          (\E i \in DOMAIN g.free : g.free[i] = m)
            <=> ~(\E t \in DOMAIN g.chain : \E i \in DOMAIN g.chain[t] : g.chain[t][i] = m)
    <3> TAKE m \in Slots(g)
    <3>1. m \in Slots(h)
      BY <1>2 DEF Slots
    <3>2. (\E i \in DOMAIN h.free : h.free[i] = m) <=> m \notin Nodes(h)
      BY <3>1, NodesOf DEF Well, Linked
    <3>3. (\E t \in DOMAIN g.chain : \E i \in DOMAIN g.chain[t] : g.chain[t][i] = m)
            <=> m \in Nodes(g)
      BY NodesOf
    <3> QED
      <4>1. (\E i \in DOMAIN g.free : g.free[i] = m) <=> m = n \/ m \notin Nodes(h)
        BY <2>6, <3>2, ZenonT(60)
      <4>2. m \in Nodes(g) <=> m \in Nodes(h) /\ m # n
        BY <1>3, ZenonT(60)
      <4>3. (\E i \in DOMAIN g.free : g.free[i] = m) <=> ~(m \in Nodes(g))
        BY <4>1, <4>2, ZenonT(60)
      <4> QED
        BY <3>3, <4>3, ZenonT(60)
  <2>8. g.size + Len(g.free) = g.fsize
    <3>1. h.size + Len(h.free) = h.fsize
      BY DEF Well, Linked
    <3> QED
      BY <1>2, <1>5, <2>2, <3>1, SMTT(60)
  <2> QED
    BY <1>3, <2>5, <2>7, <2>8 DEF Linked
<1>10. Hashed(g)
  <2> SUFFICES ASSUME NEW t \in DOMAIN g.chain, NEW i \in DOMAIN g.chain[t]
               PROVE  g.node[g.chain[t][i]].key % g.tsize = t
    BY DEF Hashed
  <2>1. PICK l \in DOMAIN h.chain[t] : g.chain[t][i] = h.chain[t][l] /\ h.chain[t][l] # n
    BY <1>3
  <2>2. h.node[h.chain[t][l]].key % h.tsize = t /\ h.chain[t][l] \in Nodes(h)
    BY <1>3, NodesOf DEF Well, Hashed
  <2> QED
    BY <1>2, <1>3, <1>7, <2>1, <2>2
<1>11. KeysApart(g)
  BY <1>3, <1>7 DEF Well, KeysApart
<1>12. Listed(g)
  <2> SUFFICES ASSUME g.valid
               PROVE  /\ \A i \in 0 .. (g.size - 1) : At(g, i) \in Nodes(g)
                      /\ \A i, j \in 0 .. (g.size - 1) : At(g, i) = At(g, j) => i = j
                      /\ \A m \in Nodes(g) : \E i \in 0 .. (g.size - 1) : At(g, i) = m
    BY DEF Listed
  <2>1. h.valid =>
          /\ \A i \in 0 .. (h.size - 1) : At(h, i) \in Nodes(h)
          /\ \A i, j \in 0 .. (h.size - 1) : At(h, i) = At(h, j) => i = j
          /\ \A m \in Nodes(h) : \E i \in 0 .. (h.size - 1) : At(h, i) = m
    BY DEF Well, Listed
  <2>2. /\ h.fsize \in Nat /\ h.fsize > 0 /\ h.size \in Nat /\ h.size <= h.fsize
        /\ h.start \in 0 .. (h.fsize - 1) /\ h.size > 0
    BY <1>1, <1>5, <1>6 DEF Slots
  <2>3. CASE h.size = 1
    <3>1. g.size = 0
      BY <1>2, <2>3
    <3>2. IsFiniteSet(Nodes(g)) /\ Cardinality(Nodes(g)) = 0
      BY <1>1, <1>9, <3>1, NodesCount
    <3>3. Nodes(g) = {} /\ 0 .. (g.size - 1) = {}
      BY <3>1, <3>2, FS_EmptySet
    <3> QED
      BY <3>3
  <2>4. CASE h.size > 1 /\ h.valid /\ n = h.index[h.start] /\ g.start = (h.start + 1) % h.fsize
    <3>1. At(h, 0) = n
      <4>1. (h.start + 0) % h.fsize = h.start
        BY <2>2
      <4> QED
        BY <2>4, <4>1 DEF At
    <3>2. ASSUME NEW i \in 0 .. (g.size - 1)
          PROVE  i + 1 \in 0 .. (h.size - 1) /\ i + 1 # 0 /\ At(g, i) = At(h, i + 1)
      <4>1. i + 1 \in 0 .. (h.size - 1) /\ i + 1 # 0 /\ i \in 0 .. (h.fsize - 1)
        BY <1>2, <2>2, SMTT(60)
      <4>2. (((h.start + 1) % h.fsize) + i) % h.fsize = (h.start + (i + 1)) % h.fsize
        <5>1. /\ h.fsize \in Nat \ {0} /\ h.start \in 0 .. (h.fsize - 1)
              /\ i \in 0 .. (h.fsize - 1)
          BY <2>2, <4>1
        <5> QED
          BY <5>1, WrapNext, Zenon
      <4> QED
        BY <1>2, <2>4, <4>1, <4>2 DEF At
    <3>3. 0 \in 0 .. (h.size - 1)
      BY <2>2
    <3>4. \A i \in 0 .. (g.size - 1) : At(g, i) \in Nodes(g)
      BY <1>3, <2>1, <2>4, <3>1, <3>2, <3>3
    <3>5. ASSUME NEW i \in 0 .. (g.size - 1), NEW j \in 0 .. (g.size - 1), At(g, i) = At(g, j)
          PROVE  i = j
      <4>1. i + 1 = j + 1
        BY <2>1, <2>4, <3>2, <3>5
      <4> QED
        BY <4>1
    <3>6. ASSUME NEW m \in Nodes(g)
          PROVE  \E i \in 0 .. (g.size - 1) : At(g, i) = m
      <4>1. PICK j \in 0 .. (h.size - 1) : At(h, j) = m
        BY <1>3, <2>1, <2>4
      <4>2. j # 0
        BY <1>3, <3>1, <4>1
      <4>3. j - 1 \in 0 .. (g.size - 1) /\ (j - 1) + 1 = j
        BY <1>2, <2>2, <4>2
      <4> QED
        BY <3>2, <4>1, <4>3
    <3> QED
      BY <3>4, <3>5, <3>6
  <2>5. CASE /\ h.size > 1 /\ h.valid /\ n = h.index[(h.start + h.size - 1) % h.fsize]
             /\ g.start = h.start
    <3>1. At(h, h.size - 1) = n
      <4>1. h.start + h.size - 1 = h.start + (h.size - 1)
        BY <2>2
      <4> QED
        BY <2>5, <4>1 DEF At
    <3>2. \A i : At(g, i) = At(h, i)
      BY <1>2, <2>5 DEF At
    <3>3. \A i : i \in 0 .. (g.size - 1) <=> i \in 0 .. (h.size - 1) /\ i # h.size - 1
      <4>1. g.size = h.size - 1 /\ h.size \in Nat
        BY <1>2, <2>2
      <4> QED
        BY <4>1, SMTT(60)
    <3>4. h.size - 1 \in 0 .. (h.size - 1)
      BY <2>2
    <3> QED
      BY <1>3, <2>1, <2>5, <3>1, <3>2, <3>3, <3>4
  <2> QED
    BY <1>1, <2>3, <2>4, <2>5 DEF RemoveIndex
<1> QED
  BY <1>1, <1>2, <1>3, <1>4, <1>7, <1>8, <1>9, <1>10, <1>11, <1>12 DEF Well

-----------------------------------------------------------------------------
(* The index list is built anew. *)

\* f[k] is the list after the first k of the m chains of q.
Appends(f, q, m) ==
  /\ f[1] = q[1]
  /\ \A k \in 2 .. m : f[k] = f[k - 1] \o q[k]
  /\ S!FlattenSeq(q) = f[m]

\* The chains are appended to the list one after the other (ReIndex): the
\* function of the lists that come about exists.
LEMMA AppendsDefined ==
  ASSUME NEW m \in Nat \ {0}, NEW q, Len(q) = m
  PROVE  \E f : Appends(f, q, m)
<1> DEFINE Val(f, i) == IF i = 1 THEN q[i] ELSE f[i - 1] \o q[i]
           Upto(k) == \E f : f = [i \in 1 .. k |-> Val(f, i)]
           Bad == {k \in 1 .. m : ~Upto(k)}
<1>1. Upto(1)
  <2> WITNESS [i \in 1 .. 1 |-> q[1]]
  <2> QED
    OBVIOUS
<1>2. ASSUME NEW k \in Nat, k > 0, Upto(k)
      PROVE  Upto(k + 1)
  <2>0. PICK f : f = [i \in 1 .. k |-> Val(f, i)]
    BY <1>2
  <2>00. k > 0
    BY <1>2
  <2> DEFINE new == f[k] \o q[k + 1]
             g == [i \in 1 .. k + 1 |-> IF i = k + 1 THEN new ELSE f[i]]
  <2> HIDE DEF Val
  <2>1. ASSUME NEW i \in 1 .. k + 1
        PROVE  g[i] = Val(g, i)
    <3>1. CASE i = k + 1
      <4>1. g[i] = f[k] \o q[k + 1] /\ g[k] = f[k] /\ i - 1 = k /\ i # 1
        <5>1. k \in 1 .. k + 1 /\ k # k + 1 /\ i - 1 = k /\ i # 1
          BY <2>00, <3>1
        <5>2. g[i] = new
          <6> HIDE DEF new
          <6> QED
            BY <3>1
        <5>3. g[k] = f[k]
          <6> HIDE DEF new
          <6> QED
            BY <5>1
        <5> QED
          BY <5>1, <5>2, <5>3
      <4> HIDE DEF g
      <4> QED
        BY <3>1, <4>1 DEF Val
    <3>2. CASE i # k + 1
      <4>1. i \in 1 .. k /\ g[i] = f[i]
        BY <3>2
      <4>2. f[i] = Val(f, i)
        BY <2>0, <4>1
      <4>3. i # 1 => g[i - 1] = f[i - 1]
        BY <4>1
      <4>4. Val(f, i) = Val(g, i)
        <5> HIDE DEF g
        <5> QED
          BY <4>3 DEF Val
      <4> QED
        BY <4>1, <4>2, <4>4
    <3> QED
      BY <3>1, <3>2
  <2>2. g = [i \in 1 .. k + 1 |-> Val(g, i)]
    BY <2>1
  <2> QED
    BY <2>2
<1>3. Bad = {}
  <2> HIDE DEF Upto
  <2> SUFFICES ASSUME Bad # {}
               PROVE  FALSE
    OBVIOUS
  <2>1. PICK k \in Bad : \A y \in Bad : k <= y
    <3> Bad \subseteq Nat
      OBVIOUS
    <3> HIDE DEF Bad
    <3> QED
      BY LeastNat
  <2>2. k # 1
    BY <1>1
  <2>3. k - 1 \in Nat /\ k - 1 > 0 /\ k - 1 \notin Bad
    BY <2>1, <2>2
  <2> QED
    BY <1>2, <2>3
<1>4. Upto(m)
  <2> HIDE DEF Upto
  <2> QED
    BY <1>3
<1>5. PICK f : f = [i \in 1 .. m |-> Val(f, i)] /\ S!FlattenSeq(q) = f[m]
  BY <1>4 DEF S!FlattenSeq
<1> HIDE DEF Val
<1>6. \A i \in 1 .. m : f[i] = Val(f, i)
  BY <1>5
<1>7. f[1] = q[1] /\ \A k \in 2 .. m : f[k] = f[k - 1] \o q[k]
  <2>1. f[1] = Val(f, 1)
    BY <1>6
  <2>2. \A k \in 2 .. m : f[k] = Val(f, k) /\ k # 1
    BY <1>6
  <2> QED
    BY <2>1, <2>2 DEF Val
<1> QED
  BY <1>5, <1>7 DEF Appends

\* The m chains of q share no node.
Apart(q, m) ==
  \A t, u \in 1 .. m : \A i \in DOMAIN q[t], j \in DOMAIN q[u] :
    q[t][i] = q[u][j] => t = u /\ i = j

\* The list holds the nodes of all m chains, each once.
Together(all, q, m) ==
  /\ \A i \in DOMAIN all : \E t \in 1 .. m : \E j \in DOMAIN q[t] : all[i] = q[t][j]
  /\ \A t \in 1 .. m : \A j \in DOMAIN q[t] : \E i \in DOMAIN all : all[i] = q[t][j]
  /\ \A i, j \in DOMAIN all : all[i] = all[j] => i = j

\* Chains that share no node give a list without repetitions, of all of them.
LEMMA AppendsAll ==
  ASSUME NEW A, NEW m \in Nat \ {0}, NEW q \in [1 .. m -> Seq(A)], Apart(q, m)
  PROVE  S!FlattenSeq(q) \in Seq(A) /\ Together(S!FlattenSeq(q), q, m)
<1> USE DEF Apart
<1>0. Len(q) = m
  OBVIOUS
<1>00. PICK f : Appends(f, q, m)
  BY <1>0, AppendsDefined
<1>1. /\ f[1] = q[1]
      /\ \A k \in 2 .. m : f[k] = f[k - 1] \o q[k]
      /\ S!FlattenSeq(q) = f[m]
  BY <1>00 DEF Appends
<1> DEFINE In(s, k) == \A i \in DOMAIN s : \E t \in 1 .. k : \E j \in DOMAIN q[t] : s[i] = q[t][j]
           Has(s, k) == \A t \in 1 .. k : \A j \in DOMAIN q[t] : \E i \in DOMAIN s : s[i] = q[t][j]
           Inj(s) == \A i, j \in DOMAIN s : s[i] = s[j] => i = j
           Ok(k) == f[k] \in Seq(A) /\ In(f[k], k) /\ Has(f[k], k) /\ Inj(f[k])
           Bad == {k \in 1 .. m : ~Ok(k)}
<1>2. Ok(1)
  <2>1. q[1] \in Seq(A)
    OBVIOUS
  <2>2. In(q[1], 1) /\ Has(q[1], 1)
    OBVIOUS
  <2>3. Inj(q[1])
    OBVIOUS
  <2> QED
    BY <1>1, <2>1, <2>2, <2>3
<1>3. ASSUME NEW k \in 2 .. m, Ok(k - 1)
      PROVE  Ok(k)
  <2> DEFINE s == f[k - 1]
             r == q[k]
  <2>1. f[k] = s \o r
    BY <1>1
  <2>2. s \in Seq(A) /\ In(s, k - 1) /\ Has(s, k - 1) /\ Inj(s)
    BY <1>3
  <2>3. r \in Seq(A) /\ k \in 1 .. m
    OBVIOUS
  <2> HIDE DEF s, r
  <2>4. /\ s \o r \in Seq(A) /\ Len(s \o r) = Len(s) + Len(r)
        /\ \A i \in 1 .. Len(s) + Len(r) : (s \o r)[i] =
                    IF i <= Len(s) THEN s[i] ELSE r[i - Len(s)]
    BY <2>2, <2>3, ConcatProperties
  <2> DEFINE w == s \o r
             a == Len(s)
             b == Len(r)
  <2>5. a \in Nat /\ b \in Nat /\ DOMAIN s = 1 .. a /\ DOMAIN r = 1 .. b
    BY <2>2, <2>3
  <2>6. DOMAIN w = 1 .. (a + b)
    BY <2>4
  <2>7. \A i \in 1 .. (a + b) : w[i] = IF i <= a THEN s[i] ELSE r[i - a]
    BY <2>4
  <2> HIDE DEF w, a, b
  <2>8. \A i \in DOMAIN w : \/ i \in DOMAIN s /\ w[i] = s[i]
                            \/ i - a \in DOMAIN r /\ w[i] = r[i - a] /\ ~(i <= a)
    <3> TAKE i \in DOMAIN w
    <3>1. i \in 1 .. (a + b)
      BY <2>6
    <3>2. i \in 1 .. a \/ (i - a \in 1 .. b /\ ~(i <= a))
      BY <2>5, <3>1
    <3>3. CASE i \in 1 .. a
      <4>1. i <= a
        BY <3>3
      <4> QED
        BY <2>5, <2>7, <3>1, <3>3, <4>1
    <3>4. CASE i - a \in 1 .. b /\ ~(i <= a)
      BY <2>5, <2>7, <3>1, <3>4
    <3> QED
      BY <3>2, <3>3, <3>4
  <2>9. \A i \in DOMAIN s : i \in DOMAIN w /\ w[i] = s[i]
    <3>1. \A i \in 1 .. a : i \in 1 .. (a + b) /\ i <= a
      BY <2>5
    <3> QED
      BY <2>5, <2>6, <2>7, <3>1
  <2>10. \A j \in DOMAIN r : a + j \in DOMAIN w /\ w[a + j] = r[j]
    <3>1. \A j \in 1 .. b : a + j \in 1 .. (a + b) /\ ~(a + j <= a) /\ (a + j) - a = j
      BY <2>5
    <3> QED
      BY <2>5, <2>6, <2>7, <3>1
  <2>11. \A t : t \in 1 .. k <=> t \in 1 .. (k - 1) \/ t = k
    OBVIOUS
  <2>12. In(w, k)
    <3> SUFFICES ASSUME NEW i \in DOMAIN w
                 PROVE  \E t \in 1 .. k : \E j \in DOMAIN q[t] : w[i] = q[t][j]
      OBVIOUS
    <3>1. CASE i \in DOMAIN s /\ w[i] = s[i]
      <4>1. PICK t \in 1 .. (k - 1) : \E j \in DOMAIN q[t] : s[i] = q[t][j]
        BY <2>2, <3>1
      <4>2. t \in 1 .. k
        OBVIOUS
      <4> QED
        BY <3>1, <4>1, <4>2
    <3>2. CASE i - a \in DOMAIN r /\ w[i] = r[i - a]
      <4>1. k \in 1 .. k
        OBVIOUS
      <4> QED
        BY <3>2, <4>1 DEF r
    <3> QED
      BY <2>8, <3>1, <3>2
  <2>13. Has(w, k)
    <3> SUFFICES ASSUME NEW t \in 1 .. k, NEW j \in DOMAIN q[t]
                 PROVE  \E i \in DOMAIN w : w[i] = q[t][j]
      OBVIOUS
    <3>1. CASE t = k
      BY <2>10, <3>1 DEF r
    <3>2. CASE t \in 1 .. (k - 1)
      <4>1. PICK i \in DOMAIN s : s[i] = q[t][j]
        BY <2>2, <3>2
      <4> QED
        BY <2>9, <4>1
    <3> QED
      BY <2>11, <3>1, <3>2
  <2>14. Inj(w)
    <3>1. \A i \in DOMAIN s, j \in DOMAIN r : s[i] # r[j]
      <4> SUFFICES ASSUME NEW i \in DOMAIN s, NEW j \in DOMAIN r, s[i] = r[j]
                   PROVE  FALSE
        OBVIOUS
      <4>1. PICK t \in 1 .. (k - 1) : \E l \in DOMAIN q[t] : s[i] = q[t][l]
        BY <2>2
      <4>2. t \in 1 .. m /\ t # k
        OBVIOUS
      <4> QED
        BY <2>3, <4>1, <4>2 DEF r
    <3>2. \A i, j \in DOMAIN r : r[i] = r[j] => i = j
      BY <2>3 DEF r
    <3> SUFFICES ASSUME NEW i \in DOMAIN w, NEW j \in DOMAIN w, w[i] = w[j]
                 PROVE  i = j
      OBVIOUS
    <3>3. CASE i \in DOMAIN s /\ w[i] = s[i] /\ j \in DOMAIN s /\ w[j] = s[j]
      BY <2>2, <3>3
    <3>4. CASE /\ i - a \in DOMAIN r /\ w[i] = r[i - a]
               /\ j - a \in DOMAIN r /\ w[j] = r[j - a]
      <4>1. i - a = j - a
        BY <3>2, <3>4
      <4>2. i \in Nat /\ j \in Nat
        BY <2>5, <2>6
      <4> QED
        BY <2>5, <4>1, <4>2
    <3> QED
      BY <2>8, <3>1, <3>3, <3>4
  <2>15. w \in Seq(A) /\ f[k] = w
    BY <2>1, <2>4 DEF w
  <2> QED
    BY <2>12, <2>13, <2>14, <2>15
<1>4. Bad = {}
  <2> HIDE DEF Ok
  <2> SUFFICES ASSUME Bad # {}
               PROVE  FALSE
    OBVIOUS
  <2>1. PICK k \in Bad : \A y \in Bad : k <= y
    <3> Bad \subseteq Nat
      OBVIOUS
    <3> HIDE DEF Bad
    <3> QED
      BY LeastNat
  <2>2. k # 1 /\ k \in 2 .. m /\ ~Ok(k)
    BY <1>2
  <2>3. k - 1 \in 1 .. m /\ k - 1 \notin Bad
    BY <2>1, <2>2
  <2> QED
    BY <1>3, <2>2, <2>3
<1>5. Ok(m)
  <2> HIDE DEF Ok
  <2> QED
    BY <1>4, SMTT(60)
<1> QED
  BY <1>1, <1>5 DEF Together

\* Access by position repairs the index list and nothing else.
LEMMA IndexedWell ==
  ASSUME NEW V, NEW h, Well(h, V), NEW g, g = Indexed(h)
  PROVE  /\ Well(g, V) /\ Nodes(g) = Nodes(h) /\ Keys(g) = Keys(h)
         /\ g.fsize = h.fsize /\ g.tsize = h.tsize /\ g.size = h.size
         /\ g.node = h.node /\ g.chain = h.chain /\ g.free = h.free
         /\ h.size > 0 => g.valid
<1>1. CASE h.valid \/ h.size = 0
  <2>1. g = h
    BY <1>1 DEF Indexed, ReIndex
  <2>2. h.size \in Nat /\ h.valid \in BOOLEAN
    BY Fields DEF Well
  <2> QED
    BY <1>1, <2>1, <2>2
<1>2. CASE ~h.valid /\ h.size # 0
  <2> DEFINE q == [t \in 1 .. h.tsize |-> h.chain[t - 1]]
             all == S!FlattenSeq(q)
             ix == [n \in DOMAIN h.index |-> IF n < Len(all) THEN all[n + 1] ELSE h.index[n]]
  <2>1. /\ h.fsize \in Nat /\ h.fsize > 0 /\ h.tsize \in Nat /\ h.tsize > 0 /\ h.size \in Nat
        /\ h.node \in [Slots(h) -> [key : Nat, value : V]]
        /\ h.chain \in [0 .. (h.tsize - 1) -> Seq(Slots(h))]
        /\ h.index \in [Slots(h) -> Slots(h)]
        /\ h.valid \in BOOLEAN /\ h.start \in Slots(h)
    BY Fields DEF Well
  <2>2. g = [h EXCEPT !.valid = TRUE, !.start = 0, !.index = ix]
    BY <1>2 DEF Indexed, ReIndex
  <2>3. \A t \in 1 .. h.tsize : t - 1 \in 0 .. (h.tsize - 1)
    BY <2>1
  <2>4. q \in [1 .. h.tsize -> Seq(Slots(h))] /\ h.tsize \in Nat \ {0}
    BY <2>1, <2>3
  <2>5. \A t, u \in 1 .. h.tsize : \A i \in DOMAIN q[t], j \in DOMAIN q[u] :
          q[t][i] = q[u][j] => t = u /\ i = j
    <3> SUFFICES ASSUME NEW t \in 1 .. h.tsize, NEW u \in 1 .. h.tsize,
                        NEW i \in DOMAIN q[t], NEW j \in DOMAIN q[u], q[t][i] = q[u][j]
                 PROVE  t = u /\ i = j
      OBVIOUS
    <3>1. t - 1 \in DOMAIN h.chain /\ u - 1 \in DOMAIN h.chain
      BY <2>1, <2>3
    <3>2. t - 1 = u - 1 /\ i = j
      BY <3>1 DEF Well, Linked
    <3> QED
      BY <2>1, <3>2
  <2>6. \A n : n \in Nodes(h) <=> \E t \in 1 .. h.tsize : \E i \in DOMAIN q[t] : q[t][i] = n
    <3> TAKE n
    <3>1. ASSUME n \in Nodes(h)
          PROVE  \E t \in 1 .. h.tsize : \E i \in DOMAIN q[t] : q[t][i] = n
      <4>1. PICK t \in DOMAIN h.chain : \E i \in DOMAIN h.chain[t] : h.chain[t][i] = n
        BY <3>1, NodesOf
      <4>2. t + 1 \in 1 .. h.tsize /\ (t + 1) - 1 = t
        BY <2>1, SMTT(60)
      <4>3. q[t + 1] = h.chain[t]
        BY <4>2
      <4> QED
        BY <4>1, <4>2, <4>3
    <3>2. ASSUME NEW t \in 1 .. h.tsize, NEW i \in DOMAIN q[t], q[t][i] = n
          PROVE  n \in Nodes(h)
      <4>1. t - 1 \in DOMAIN h.chain
        BY <2>1, <2>3
      <4> QED
        BY <3>2, <4>1, NodesOf
    <3> QED
      BY <3>1, <3>2
  <2> HIDE DEF q
  <2>70. all \in Seq(Slots(h)) /\ Together(all, q, h.tsize)
    <3>1. Apart(q, h.tsize)
      BY <2>5 DEF Apart
    <3> QED
      BY <2>4, <3>1, AppendsAll
  <2> HIDE DEF all
  <2>7. /\ all \in Seq(Slots(h))
        /\ \A i \in DOMAIN all : \E t \in 1 .. h.tsize : \E j \in DOMAIN q[t] : all[i] = q[t][j]
        /\ \A t \in 1 .. h.tsize : \A j \in DOMAIN q[t] : \E i \in DOMAIN all : all[i] = q[t][j]
        /\ \A i, j \in DOMAIN all : all[i] = all[j] => i = j
    BY <2>70 DEF Together
  <2>8. Len(all) \in Nat /\ DOMAIN all = 1 .. Len(all)
    BY <2>7
  <2>9. /\ \A i \in 1 .. Len(all) : all[i] \in Nodes(h)
        /\ \A n \in Nodes(h) : \E i \in 1 .. Len(all) : all[i] = n
        /\ \A i, j \in 1 .. Len(all) : all[i] = all[j] => i = j
    <3>1. \A i \in DOMAIN all : all[i] \in Nodes(h)
      BY <2>6, <2>7
    <3>2. \A n \in Nodes(h) : \E i \in DOMAIN all : all[i] = n
      BY <2>6, <2>7
    <3> QED
      BY <2>7, <2>8, <3>1, <3>2
  <2>10. /\ Nodes(h) \subseteq Slots(h) /\ IsFiniteSet(Nodes(h))
         /\ Cardinality(Nodes(h)) = h.size /\ h.size <= h.fsize
    BY NodesCount DEF Well
  <2>11. Len(all) = h.size
    <3> DEFINE b == [i \in 1 .. Len(all) |-> all[i]]
    <3>1. b \in Surjection(1 .. Len(all), Nodes(h)) /\ b \in Injection(1 .. Len(all), Nodes(h))
      <4>1. /\ b \in [1 .. Len(all) -> Nodes(h)]
            /\ \A n \in Nodes(h) : \E i \in 1 .. Len(all) : b[i] = n
            /\ \A i, j \in 1 .. Len(all) : b[i] = b[j] => i = j
        BY <2>9
      <4> HIDE DEF b
      <4> QED
        BY <4>1 DEF Surjection, Injection, IsInjective
    <3>2. IsFiniteSet(1 .. Len(all)) /\ Cardinality(1 .. Len(all)) = Len(all)
      <4> DEFINE l == Len(all)
      <4>1. l \in Nat /\ 1 \in Int /\ l \in Int
        BY <2>8
      <4> HIDE DEF l
      <4>2. IsFiniteSet(1 .. l) /\ Cardinality(1 .. l) = IF 1 > l THEN 0 ELSE l - 1 + 1
        BY <4>1, FS_Interval
      <4>3. Cardinality(1 .. l) = l
        BY <4>1, <4>2
      <4> QED
        BY <4>2, <4>3 DEF l
    <3> HIDE DEF b
    <3>3. Cardinality(Nodes(h)) = Cardinality(1 .. Len(all))
      BY <3>1, <3>2, FS_Surjection
    <3> QED
      BY <2>10, <3>2, <3>3
  <2>12. \A n \in Slots(h) : n < h.size => n + 1 \in 1 .. Len(all)
    BY <2>1, <2>11 DEF Slots
  <2>13. /\ ix \in [Slots(h) -> Slots(h)]
         /\ \A n \in Slots(h) : n < h.size => ix[n] = all[n + 1]
    <3>1. DOMAIN h.index = Slots(h)
      BY <2>1
    <3>2. \A n \in Slots(h) : n < h.size => all[n + 1] \in Slots(h)
      BY <2>9, <2>10, <2>12
    <3>3. \A n \in Slots(h) : h.index[n] \in Slots(h)
      BY <2>1
    <3>4. ix = [n \in Slots(h) |-> IF n < h.size THEN all[n + 1] ELSE h.index[n]]
      BY <2>11, <3>1
    <3> QED
      BY <3>2, <3>3, <3>4
  <2> HIDE DEF ix
  <2>14. Shape(h, V)
    BY DEF Well
  <2>15. /\ g.fsize = h.fsize /\ g.tsize = h.tsize /\ g.size = h.size
         /\ g.node = h.node /\ g.chain = h.chain /\ g.free = h.free
         /\ g.index = ix /\ g.valid = TRUE /\ g.start = 0
    BY <2>2, <2>14 DEF Shape
  <2>16. 0 \in Slots(h)
    BY <2>1 DEF Slots
  <2>17. Shape(g, V)
    BY <2>2, <2>13, <2>14, <2>15, <2>16, ZenonT(60) DEF Shape, Slots
  <2>18. Nodes(g) = Nodes(h)
    BY <2>15 DEF Nodes
  <2>19. Linked(g) /\ Hashed(g) /\ KeysApart(g)
    BY <2>15, <2>18 DEF Well, Linked, Hashed, KeysApart, Slots
  <2>20. \A i \in 0 .. (h.size - 1) : i \in Slots(h) /\ i + 1 \in 1 .. Len(all) /\ At(g, i) = all[i + 1]
    <3> TAKE i \in 0 .. (h.size - 1)
    <3>1. i \in Slots(h) /\ i < h.size /\ i + 1 \in 1 .. Len(all)
      BY <2>1, <2>10, <2>11, SMTT(60) DEF Slots
    <3>2. (0 + i) % h.fsize = i
      <4>1. h.fsize \in Nat /\ h.fsize > 0 /\ i \in 0 .. (h.fsize - 1) /\ 0 + i = i
        BY <2>1, <3>1 DEF Slots
      <4> QED
        BY <4>1
    <3> QED
      BY <2>13, <2>15, <3>1, <3>2 DEF At
  <2>21. Listed(g)
    <3>1. \A i \in 0 .. (h.size - 1) : At(g, i) \in Nodes(g)
      BY <2>9, <2>18, <2>20
    <3>2. ASSUME NEW i \in 0 .. (h.size - 1), NEW j \in 0 .. (h.size - 1), At(g, i) = At(g, j)
          PROVE  i = j
      <4>1. i + 1 = j + 1
        BY <2>9, <2>20, <3>2
      <4> QED
        BY <4>1
    <3>3. ASSUME NEW n \in Nodes(g)
          PROVE  \E i \in 0 .. (h.size - 1) : At(g, i) = n
      <4>1. PICK j \in 1 .. Len(all) : all[j] = n
        BY <2>9, <2>18
      <4>2. j - 1 \in 0 .. (h.size - 1) /\ (j - 1) + 1 = j
        BY <2>8, <2>11
      <4> QED
        BY <2>20, <4>1, <4>2
    <3> QED
      BY <2>15, <3>1, <3>2, <3>3 DEF Listed
  <2>22. Keys(g) = Keys(h)
    BY <2>15, <2>18 DEF Keys
  <2> QED
    BY <2>15, <2>17, <2>18, <2>19, <2>21, <2>22 DEF Well
<1> QED
  BY <1>1, <1>2

\* A table in order is sound: the chains and the free list share out the
\* nodes, and the positions reach every live node (FastHashBase).
LEMMA WellSound ==
  ASSUME NEW V, NEW h, Well(h, V)
  PROVE  IndexSound(h)
<1>1. /\ h.fsize \in Nat /\ h.fsize > 0 /\ h.size \in Nat /\ h.free \in Seq(Slots(h))
  BY Fields DEF Well
<1>2. /\ Nodes(h) \subseteq Slots(h) /\ Cardinality(Nodes(h)) = h.size
      /\ Len(h.free) \in Nat
  BY NodesCount DEF Well
<1>3. \A n \in Slots(h) : n \in S!ToSet(h.free) <=> n \notin Nodes(h)
  BY NodesOf DEF Well, Linked, S!ToSet
<1>4. S!ToSet(h.free) \subseteq Slots(h)
  BY <1>1 DEF S!ToSet
<1>5. /\ Nodes(h) \cup S!ToSet(h.free) = 0 .. (h.fsize - 1)
      /\ Nodes(h) \cap S!ToSet(h.free) = {}
  BY <1>2, <1>3, <1>4 DEF Slots
<1>6. Len(h.free) = h.fsize - h.size
  <2>1. h.size + Len(h.free) = h.fsize
    BY DEF Well, Linked
  <2> QED
    BY <1>1, <1>2, <2>1
<1>7. \A t \in DOMAIN h.chain : \A n \in S!ToSet(h.chain[t]) : Hash(h, h.node[n].key) = t
  BY DEF Well, Hashed, Hash, S!ToSet
<1>8. LET g == Indexed(h)
      IN  h.size > 0 =>
            {g.index[(g.start + i) % g.fsize] : i \in 0 .. (g.size - 1)} = Nodes(h)
  <2> DEFINE g == Indexed(h)
  <2>1. Well(g, V) /\ Nodes(g) = Nodes(h) /\ (h.size > 0 => g.valid)
    BY IndexedWell
  <2> HIDE DEF g
  <2>2. h.size > 0 =>
          /\ \A i \in 0 .. (g.size - 1) : At(g, i) \in Nodes(h)
          /\ \A n \in Nodes(h) : \E i \in 0 .. (g.size - 1) : At(g, i) = n
    BY <2>1 DEF Well, Listed
  <2>3. h.size > 0 => {At(g, i) : i \in 0 .. (g.size - 1)} = Nodes(h)
    BY <2>2
  <2> QED
    BY <2>3 DEF At, g
<1> QED
  BY <1>2, <1>5, <1>6, <1>7, <1>8 DEF IndexSound

-----------------------------------------------------------------------------
(* A table as a map from its keys to their values. *)

\* The value found under the key of a live node is the value of that node.
LEMMA LookupNode ==
  ASSUME NEW V, NEW h, Well(h, V), NEW n \in Nodes(h)
  PROVE  /\ h.node[n].key \in Keys(h) /\ h.node[n].key \in Nat
         /\ Lookup(h, h.node[n].key) = h.node[n].value /\ h.node[n].value \in V
<1>1. /\ h.node \in [Slots(h) -> [key : Nat, value : V]] /\ Nodes(h) \subseteq Slots(h)
  BY Fields, NodesCount DEF Well
<1>2. h.node[n].key \in Nat /\ h.node[n].value \in V
  BY <1>1
<1>3. h.node[n].key \in Keys(h)
  BY DEF Keys
<1>4. n = Find(h, h.node[n].key)
  BY <1>2, FindNode
<1> QED
  BY <1>2, <1>3, <1>4 DEF Lookup

\* Every key has a live node.
LEMMA KeyNode ==
  ASSUME NEW V, NEW h, Well(h, V), NEW key \in Keys(h)
  PROVE  \E n \in Nodes(h) : h.node[n].key = key /\ Lookup(h, key) = h.node[n].value
<1>1. PICK n \in Nodes(h) : h.node[n].key = key
  BY DEF Keys
<1> QED
  BY <1>1, LookupNode

\* Insert of a key that is not there.
LEMMA InsertMap ==
  ASSUME NEW V, NEW h, Well(h, V), ~IsFull(h), NEW key \in Nat, NEW value \in V,
         key \notin Keys(h), NEW g, g = Insert(h, key, value)
  PROVE  /\ Well(g, V) /\ g.fsize = h.fsize /\ g.tsize = h.tsize
         /\ Keys(g) = Keys(h) \cup {key} /\ g.size = h.size + 1
         /\ Lookup(g, key) = value
         /\ \A b \in Keys(h) : Lookup(g, b) = Lookup(h, b)
<1> DEFINE n == Head(h.free)
<1>1. /\ Well(g, V) /\ g.fsize = h.fsize /\ g.tsize = h.tsize
      /\ Nodes(g) = Nodes(h) \cup {n}
      /\ g.node[n] = [key |-> key, value |-> value]
      /\ \A m \in Nodes(h) : g.node[m] = h.node[m]
      /\ Keys(g) = Keys(h) \cup {key}
  BY InsertWell
<1>2. InsertEffect(h, g, n, Hash(h, key), key, value)
  BY InsertFields
<1>3. g.size = h.size + 1
  BY <1>2 DEF InsertEffect
<1> HIDE DEF n
<1>4. Lookup(g, key) = value
  <2>1. n \in Nodes(g) /\ g.node[n].key = key /\ g.node[n].value = value
    BY <1>1
  <2> QED
    BY <1>1, <2>1, LookupNode
<1>5. ASSUME NEW b \in Keys(h)
      PROVE  Lookup(g, b) = Lookup(h, b)
  <2>1. PICK m \in Nodes(h) : h.node[m].key = b /\ Lookup(h, b) = h.node[m].value
    BY KeyNode
  <2>2. m \in Nodes(g) /\ g.node[m] = h.node[m]
    BY <1>1
  <2>3. Lookup(g, g.node[m].key) = g.node[m].value
    BY <1>1, <2>2, LookupNode
  <2> QED
    BY <2>1, <2>2, <2>3
<1> QED
  BY <1>1, <1>3, <1>4, <1>5

\* SetValue of a key that is there.
LEMMA SetValueMap ==
  ASSUME NEW V, NEW h, Well(h, V), NEW key \in Nat, key \in Keys(h), NEW value \in V,
         NEW g, g = SetValue(h, key, value)
  PROVE  /\ Well(g, V) /\ g.fsize = h.fsize /\ g.tsize = h.tsize
         /\ Keys(g) = Keys(h) /\ Lookup(g, key) = value
         /\ \A b \in Keys(h) : b # key => Lookup(g, b) = Lookup(h, b)
<1>1. /\ Well(g, V) /\ g.fsize = h.fsize /\ g.tsize = h.tsize
      /\ Nodes(g) = Nodes(h) /\ Keys(g) = Keys(h)
      /\ \A m \in Nodes(h) :
           /\ g.node[m].key = h.node[m].key
           /\ g.node[m].value = IF h.node[m].key = key THEN value ELSE h.node[m].value
  BY SetValueWell
<1>2. ASSUME NEW b \in Keys(h)
      PROVE  Lookup(g, b) = IF b = key THEN value ELSE Lookup(h, b)
  <2>1. PICK m \in Nodes(h) : h.node[m].key = b /\ Lookup(h, b) = h.node[m].value
    BY KeyNode
  <2>2. Lookup(g, g.node[m].key) = g.node[m].value
    BY <1>1, LookupNode
  <2> QED
    BY <1>1, <2>1, <2>2
<1> QED
  BY <1>1, <1>2

\* Remove of a key that is there.
LEMMA RemoveMap ==
  ASSUME NEW V, 0 \in V, NEW h, Well(h, V), NEW key \in Nat, key \in Keys(h),
         NEW g, g = Remove(h, key)
  PROVE  /\ Well(g, V) /\ g.fsize = h.fsize /\ g.tsize = h.tsize
         /\ Keys(g) = Keys(h) \ {key}
         /\ \A b \in Keys(g) : Lookup(g, b) = Lookup(h, b)
<1> DEFINE n == Find(h, key)
<1>1. /\ Well(g, V) /\ g.fsize = h.fsize /\ g.tsize = h.tsize
      /\ Nodes(g) = Nodes(h) \ {n} /\ Keys(g) = Keys(h) \ {key}
      /\ \A m \in Nodes(g) : g.node[m] = h.node[m]
  BY RemoveWell
<1> HIDE DEF n
<1>2. ASSUME NEW b \in Keys(g)
      PROVE  Lookup(g, b) = Lookup(h, b)
  <2>1. PICK m \in Nodes(g) : g.node[m].key = b /\ Lookup(g, b) = g.node[m].value
    BY <1>1, KeyNode
  <2>2. m \in Nodes(h) /\ g.node[m] = h.node[m]
    BY <1>1, <2>1
  <2>3. Lookup(h, h.node[m].key) = h.node[m].value
    BY <2>2, LookupNode
  <2> QED
    BY <2>1, <2>2, <2>3
<1> QED
  BY <1>1, <1>2

\* An empty table has no keys; its width is a prime if there is one where the
\* search for it looks (InitTable, FindPrime).
LEMMA InitMap ==
  ASSUME NEW V, 0 \in V, NEW fsize \in Nat \ {0},
         \E p \in fsize .. (2 * fsize + 2) : IsPrime(p)
  PROVE  /\ Well(InitTable(fsize, 0), V) /\ Keys(InitTable(fsize, 0)) = {}
         /\ InitTable(fsize, 0).fsize = fsize
<1> DEFINE T == {p \in fsize .. (2 * fsize + 2) : IsPrime(p)}
           w == FindPrime(fsize)
<1>1. T \subseteq Nat /\ T # {}
  OBVIOUS
<1>2. PICK x \in T : \A y \in T : x <= y
  <2> HIDE DEF T
  <2> QED
    BY <1>1, LeastNat
<1>3. \A y \in fsize .. (x - 1) : ~IsPrime(y)
  <2> SUFFICES ASSUME NEW y \in fsize .. (x - 1), IsPrime(y)
               PROVE  FALSE
    OBVIOUS
  <2>1. y \in fsize .. (2 * fsize + 2) /\ ~(x <= y)
    OBVIOUS
  <2> QED
    BY <1>2, <2>1
<1>4. w \in fsize .. (2 * fsize + 2)
  <2>1. x \in fsize .. (2 * fsize + 2) /\ IsPrime(x)
    OBVIOUS
  <2> QED
    BY <1>3, <2>1 DEF FindPrime
<1>5. w \in Nat \ {0}
  <2> HIDE DEF w
  <2> QED
    BY <1>4
<1>6. InitTable(fsize, 0) = Init(fsize, w)
  BY DEF InitTable
<1> HIDE DEF w
<1>7. Well(Init(fsize, w), V) /\ Nodes(Init(fsize, w)) = {}
  BY <1>5, InitWell
<1>8. Init(fsize, w).fsize = fsize
  BY DEF Init
<1> QED
  BY <1>6, <1>7, <1>8 DEF Keys

\* A table that is emptied has no keys (ResetTable).
LEMMA ResetMap ==
  ASSUME NEW V, 0 \in V, NEW h, Well(h, V)
  PROVE  /\ Well(ResetTable(h), V) /\ Keys(ResetTable(h)) = {}
         /\ ResetTable(h).fsize = h.fsize /\ ~IsFull(ResetTable(h))
<1>1. h.fsize \in Nat \ {0} /\ h.tsize \in Nat \ {0}
  BY Fields DEF Well
<1>2. Well(Init(h.fsize, h.tsize), V) /\ Nodes(Init(h.fsize, h.tsize)) = {}
  BY <1>1, InitWell
<1>3. /\ Init(h.fsize, h.tsize).fsize = h.fsize
      /\ Init(h.fsize, h.tsize).free = [n \in 1 .. h.fsize |-> n - 1]
  BY DEF Init
<1>4. Init(h.fsize, h.tsize).free # <<>>
  BY <1>1, <1>3
<1> QED
  BY <1>2, <1>3, <1>4 DEF ResetTable, Keys, IsFull

\* A table that has room for its keys is full when it has as many items.
LEMMA FullMeansSize ==
  ASSUME NEW V, NEW h, Well(h, V)
  PROVE  /\ IsFull(h) <=> h.size = h.fsize
         /\ IsFiniteSet(Keys(h)) /\ Cardinality(Keys(h)) = h.size
<1>1. /\ h.fsize \in Nat /\ h.size \in Nat /\ h.free \in Seq(Slots(h))
      /\ IsFiniteSet(Nodes(h)) /\ Cardinality(Nodes(h)) = h.size /\ Len(h.free) \in Nat
  BY Fields, NodesCount DEF Well
<1>2. h.size + Len(h.free) = h.fsize
  BY DEF Well, Linked
<1>3. IsFull(h) <=> Len(h.free) = 0
  BY <1>1 DEF IsFull
<1> DEFINE f == [n \in Nodes(h) |-> h.node[n].key]
<1>4. f \in Surjection(Nodes(h), Keys(h)) /\ f \in Injection(Nodes(h), Keys(h))
  <2>1. /\ f \in [Nodes(h) -> Keys(h)]
        /\ \A key \in Keys(h) : \E n \in Nodes(h) : f[n] = key
        /\ \A m, n \in Nodes(h) : f[m] = f[n] => m = n
    BY DEF Keys, Well, KeysApart
  <2> HIDE DEF f
  <2> QED
    BY <2>1 DEF Surjection, Injection, IsInjective
<1> HIDE DEF f
<1>5. IsFiniteSet(Keys(h)) /\ Cardinality(Keys(h)) = Cardinality(Nodes(h))
  BY <1>1, <1>4, FS_Surjection
<1> QED
  BY <1>1, <1>2, <1>3, <1>5

=============================================================================
